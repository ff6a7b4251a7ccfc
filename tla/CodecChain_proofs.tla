-------------------------- MODULE CodecChain_proofs --------------------------
(***************************************************************************)
(* What is proved about a block and its chain of methods, for any chain,   *)
(* any sizes of writes and reads, of frames and blocks.                    *)
(*                                                                         *)
(* Encoders: what went into encoder i is X[i]; its whole groups, coded,    *)
(* are X[i - 1], and what they leave is held (Carries).  Groups of two     *)
(* pieces are those of the first and those of what it left with the second *)
(* (GroupsConcat), so every write, however cut, keeps Carries (PushInv),   *)
(* and Carries is fixed by what went in (CarriesUnique): the packed stream *)
(* and the sizes are those of one write.                                   *)
(*                                                                         *)
(* Coders: bind pairs written are followed back in order.                  *)
(*                                                                         *)
(* Decoders: a read from reader i of a sound stack (Sounds) leaves a sound *)
(* one, touches no reader above i, and returns no more than it was asked   *)
(* for (Sane, by induction over the readers).                              *)
(*                                                                         *)
(* CodecRoundTrip_proofs goes on to what a caller reads.                   *)
(***************************************************************************)
EXTENDS CodecChain,
        SequencesExt, FiniteSetTheorems, SequenceTheorems, WellFoundedInduction, TLAPS

-----------------------------------------------------------------------------
(* Induction over a set of naturals, in place of one over a predicate *)

\* Every set of naturals has a least element.
LEMMA LeastNat ==
  ASSUME NEW T, T \subseteq Nat, T # {}
  PROVE  \E x \in T : \A y \in T : x <= y
<1>. DEFINE R == {p \in Nat \X Nat : p[1] < p[2]}
<1>1. IsWellFoundedOn(R, Nat)
  <2>1. R = OpToRel(<, Nat)
    BY Zenon DEF OpToRel
  <2>. QED BY <2>1, NatLessThanWellFounded
<1>2. PICK x \in T : \A y \in T : ~ (<<y, x>> \in R)
  <2>. HIDE DEF R
  <2>. QED BY <1>1, WFMin, Zenon
<1>3. ASSUME NEW y \in T PROVE x <= y
  <2>1. x \in Nat /\ y \in Nat
    OBVIOUS
  <2>2. <<y, x>> \in Nat \X Nat
    BY <2>1
  <2>3. ~ (<<y, x>>[1] < <<y, x>>[2])
    BY <1>2, <2>2
  <2>. QED BY <2>1, <2>3
<1>. QED BY <1>3

\* A set of naturals that holds 0 and is closed under n + 1 holds them all.
LEMMA SetInduction ==
  ASSUME NEW S, 0 \in S, \A n \in Nat : n \in S => n + 1 \in S
  PROVE  Nat \subseteq S
<1>. SUFFICES ASSUME Nat \ S # {} PROVE FALSE
  OBVIOUS
<1>1. PICK x \in Nat \ S : \A y \in Nat \ S : x <= y
  BY LeastNat
<1>2. x # 0 /\ x - 1 \in Nat /\ x - 1 \in S
  BY <1>1
<1>. QED BY <1>1, <1>2

-----------------------------------------------------------------------------
(* FlattenSeq *)

\* what FlattenSeq chooses: the concatenation of the first i sequences, for each i
Flattened(s, n) ==
  CHOOSE f : f = [i \in 1..n |-> IF i = 1 THEN s[i] ELSE f[i-1] \o s[i]]

\* The recursive definition of FlattenSeq has a solution.
LEMMA FlattenedDef ==
  ASSUME NEW s, NEW n \in Nat
  PROVE  Flattened(s, n) =
           [i \in 1..n |-> IF i = 1 THEN s[i] ELSE Flattened(s, n)[i-1] \o s[i]]
<1>. DEFINE Solves(f, m) == f = [i \in 1..m |-> IF i = 1 THEN s[i] ELSE f[i-1] \o s[i]]
            Solved == {m \in Nat : \E f : Solves(f, m)}
<1>1. 0 \in Solved
  <2>1. Solves(<<>>, 0)
    OBVIOUS
  <2>. QED BY <2>1
<1>2. ASSUME NEW m \in Nat, m \in Solved PROVE m + 1 \in Solved
  <2>1. PICK f : Solves(f, m)
    BY <1>2
  <2>. DEFINE last == IF m + 1 = 1 THEN s[m + 1] ELSE f[m] \o s[m + 1]
              g == [i \in 1..(m + 1) |-> IF i <= m THEN f[i] ELSE last]
  <2>2. ASSUME NEW i \in 1..(m + 1)
        PROVE  g[i] = IF i = 1 THEN s[i] ELSE g[i-1] \o s[i]
    <3>1. CASE i <= m
      <4>1. i \in 1..m /\ g[i] = f[i] /\ (i # 1 => g[i-1] = f[i-1])
        BY <3>1
      <4>2. f[i] = IF i = 1 THEN s[i] ELSE f[i-1] \o s[i]
        BY <2>1, <4>1
      <4>. QED BY <4>1, <4>2
    <3>2. CASE i = m + 1
      <4>1. g[i] = last
        BY <3>2
      <4>2. i # 1 => g[i-1] = f[m]
        BY <3>2
      <4>. QED BY <3>2, <4>1, <4>2
    <3>. QED BY <3>1, <3>2
  <2>3. Solves(g, m + 1)
    BY <2>2, Zenon
  <2>4. m + 1 \in Nat
    OBVIOUS
  <2>. HIDE DEF Solves, g
  <2>. QED BY <2>3, <2>4
<1>3. n \in Solved
  <2>. HIDE DEF Solved
  <2>. QED BY <1>1, <1>2, SetInduction
<1>4. \E f : Solves(f, n)
  BY <1>3
<1>5. Solves(CHOOSE f : Solves(f, n), n)
  <2>. HIDE DEF Solves
  <2>. QED BY <1>4, Zenon
<1>. QED BY <1>5, Zenon DEF Flattened

\* FlattenSeq takes the last of them.
LEMMA FlattenSeqIs ==
  ASSUME NEW s
  PROVE FlattenSeq(s) = IF Len(s) = 0 THEN s ELSE Flattened(s, Len(s))[Len(s)]
BY Zenon DEF FlattenSeq, Flattened

\* Nothing flattened is nothing.
LEMMA FlattenEmpty == FlattenSeq(<<>>) = <<>>
  BY FlattenSeqIs

\* Flattening goes on where it stopped.
LEMMA FlattenAppend ==
  ASSUME NEW S, NEW s \in Seq(Seq(S)), NEW e \in Seq(S)
  PROVE  /\ FlattenSeq(s) \in Seq(S)
         /\ FlattenSeq(Append(s, e)) = FlattenSeq(s) \o e
<1>. DEFINE n == Len(s)
            t == Append(s, e)
            f == Flattened(s, n)
            g == Flattened(t, n + 1)
            Same == {m \in Nat : m \in 1..n => f[m] = g[m] /\ f[m] \in Seq(S)}
<1>1. n \in Nat /\ Len(t) = n + 1 /\ t[n + 1] = e /\ \A i \in 1..n : t[i] = s[i] /\ s[i] \in Seq(S)
  OBVIOUS
<1>2. \A i \in 1..n : f[i] = IF i = 1 THEN s[i] ELSE f[i-1] \o s[i]
  <2>1. f = [i \in 1..n |-> IF i = 1 THEN s[i] ELSE f[i-1] \o s[i]]
    BY <1>1, FlattenedDef
  <2>. QED BY <2>1, Zenon
<1>3. \A i \in 1..(n + 1) : g[i] = IF i = 1 THEN t[i] ELSE g[i-1] \o t[i]
  <2>1. g = [i \in 1..(n + 1) |-> IF i = 1 THEN t[i] ELSE g[i-1] \o t[i]]
    <3>1. n + 1 \in Nat
      BY <1>1
    <3>. QED BY <3>1, FlattenedDef
  <2>. QED BY <2>1, Zenon
<1>. HIDE DEF f, g, t, n
<1>4. \A m \in 1..n : f[m] = g[m] /\ f[m] \in Seq(S)
  <2>1. 0 \in Same
    OBVIOUS
  <2>2. ASSUME NEW m \in Nat, m \in Same PROVE m + 1 \in Same
    <3>1. SUFFICES ASSUME m + 1 \in 1..n PROVE f[m + 1] = g[m + 1] /\ f[m + 1] \in Seq(S)
      OBVIOUS
    <3>2. t[m + 1] = s[m + 1] /\ s[m + 1] \in Seq(S) /\ m + 1 \in 1..(n + 1)
      BY <1>1, <3>1
    <3>3. CASE m = 0
      BY <1>2, <1>3, <3>1, <3>2, <3>3
    <3>4. CASE m # 0
      <4>1. m \in 1..n /\ f[m] = g[m] /\ f[m] \in Seq(S)
        BY <1>1, <2>2, <3>1, <3>4
      <4>2. PICK k \in 1..n : k = m + 1
        BY <3>1
      <4>3. k # 1 /\ k - 1 = m /\ k \in 1..(n + 1)
        BY <3>2, <3>4, <4>2
      <4>4. f[k] = f[k-1] \o s[k] /\ g[k] = g[k-1] \o t[k]
        BY <1>2, <1>3, <4>3, Zenon
      <4>5. f[k] = f[m] \o s[k] /\ g[k] = f[m] \o s[k]
        BY <3>2, <4>1, <4>2, <4>3, <4>4
      <4>6. f[m] \o s[k] \in Seq(S)
        BY <3>2, <4>1, <4>2
      <4>. QED BY <4>2, <4>5, <4>6
    <3>. QED BY <3>3, <3>4
  <2>. HIDE DEF Same
  <2>3. Nat \subseteq Same
    BY <2>1, <2>2, SetInduction
  <2>4. \A m \in 1..n : m \in Same
    BY <1>1, <2>3
  <2>. QED BY <1>1, <2>4 DEF Same
<1>5. FlattenSeq(s) = IF n = 0 THEN <<>> ELSE f[n]
  <2>1. n = 0 => s = <<>>
    BY DEF n
  <2>. QED BY <2>1, FlattenSeqIs DEF f, n
<1>6. FlattenSeq(t) = g[n + 1]
  BY <1>1, FlattenSeqIs DEF g
<1>7. CASE n = 0
  BY <1>1, <1>3, <1>5, <1>6, <1>7 DEF t
<1>8. CASE n # 0
  <2>1. PICK k \in 1..(n + 1) : k = n + 1
    BY <1>1
  <2>2. n \in 1..n /\ k # 1 /\ k - 1 = n
    BY <1>1, <1>8, <2>1
  <2>3. g[k] = g[k-1] \o t[k]
    BY <1>3, <2>2, Zenon
  <2>. QED BY <1>1, <1>4, <1>5, <1>6, <1>8, <2>1, <2>2, <2>3 DEF t
<1>. QED BY <1>7, <1>8

\* What is flattened are elements of the sequences.
LEMMA FlattenIn ==
  ASSUME NEW S, NEW s \in Seq(Seq(S))
  PROVE  FlattenSeq(s) \in Seq(S)
<1>1. <<>> \in Seq(S)
  OBVIOUS
<1>. QED BY <1>1, FlattenAppend

-----------------------------------------------------------------------------
(* Sequences and their groups *)

\* A set of sequences that holds the empty one and is closed under Append holds them all.
LEMMA SeqInduction ==
  ASSUME NEW A, NEW T, <<>> \in T, \A s \in Seq(A) : \A e \in A : s \in T => Append(s, e) \in T
  PROVE  Seq(A) \subseteq T
<1>. DEFINE Solved == {n \in Nat : \A s \in Seq(A) : Len(s) = n => s \in T}
<1>1. 0 \in Solved
  <2>1. \A s \in Seq(A) : Len(s) = 0 => s = <<>>
    OBVIOUS
  <2>. QED BY <2>1
<1>2. ASSUME NEW n \in Nat, n \in Solved PROVE n + 1 \in Solved
  <2>1. ASSUME NEW s \in Seq(A), Len(s) = n + 1 PROVE s \in T
    <3>1. s # <<>>
      BY <2>1
    <3>2. PICK r \in Seq(A), e \in A : s = Append(r, e)
      BY <3>1, SequenceEmptyOrAppend
    <3>3. Len(r) \in Nat /\ Len(s) = Len(r) + 1
      BY <3>2
    <3>4. Len(r) = n
      BY <2>1, <3>3
    <3>5. r \in T
      BY <1>2, <3>4
    <3>. QED BY <3>2, <3>5
  <2>2. n + 1 \in Nat
    OBVIOUS
  <2>. QED BY <2>1, <2>2
<1>3. Nat \subseteq Solved
  <2>. HIDE DEF Solved
  <2>. QED BY <1>1, <1>2, SetInduction
<1>. QED
  <2>1. ASSUME NEW s \in Seq(A) PROVE s \in T
    <3>1. Len(s) \in Nat
      OBVIOUS
    <3>. QED BY <1>3, <3>1
  <2>. QED BY <2>1

\* three sequences one after the other, joined from either side
Associates(a, b, c) == (a \o b) \o c = a \o (b \o c)

\* It does not matter which two are joined first.
LEMMA Associate ==
  ASSUME NEW S, NEW a \in Seq(S), NEW b \in Seq(S), NEW c \in Seq(S)
  PROVE  Associates(a, b, c)
  BY ConcatAssociative DEF Associates

\* An element appended to what comes behind a sequence is appended to both.
LEMMA AppendBehind ==
  ASSUME NEW A, NEW s \in Seq(A), NEW r \in Seq(A), NEW e \in A
  PROVE  /\ s \o Append(r, e) = Append(s \o r, e)
         /\ s \o r \in Seq(A) /\ Append(r, e) \in Seq(A)
<1>1. s \o r \in Seq(A)
  BY ConcatProperties
<1>2. Append(r, e) = r \o <<e>> /\ Append(s \o r, e) = (s \o r) \o <<e>>
  BY <1>1, AppendIsConcat
<1>3. <<e>> \in Seq(A)
  OBVIOUS
<1>4. Associates(s, r, <<e>>)
  BY <1>3, Associate
<1>5. Append(r, e) \in Seq(A)
  BY AppendProperties
<1>. QED BY <1>1, <1>2, <1>4, <1>5 DEF Associates

\* Flattened, two rows of sequences are one after the other.
LEMMA FlattenConcat ==
  ASSUME NEW S, NEW s \in Seq(Seq(S)), NEW t \in Seq(Seq(S))
  PROVE  FlattenSeq(s \o t) = FlattenSeq(s) \o FlattenSeq(t)
<1>. DEFINE T == {r \in Seq(Seq(S)) : FlattenSeq(s \o r) = FlattenSeq(s) \o FlattenSeq(r)}
<1>1. FlattenSeq(s) \in Seq(S)
  BY FlattenIn
<1>2. <<>> \in T
  <2>1. s \o <<>> = s /\ FlattenSeq(s) \o <<>> = FlattenSeq(s)
    BY <1>1, ConcatEmptySeq
  <2>2. <<>> \in Seq(Seq(S))
    OBVIOUS
  <2>. QED BY <2>1, <2>2, FlattenEmpty
<1>3. ASSUME NEW r \in Seq(Seq(S)), NEW e \in Seq(S), r \in T PROVE Append(r, e) \in T
  <2>1. s \o Append(r, e) = Append(s \o r, e) /\ s \o r \in Seq(Seq(S)) /\ Append(r, e) \in Seq(Seq(S))
    <3>. DEFINE A == Seq(S)
    <3>1. s \in Seq(A) /\ r \in Seq(A) /\ e \in A
      OBVIOUS
    <3>. HIDE DEF A
    <3>2. s \o Append(r, e) = Append(s \o r, e) /\ s \o r \in Seq(A) /\ Append(r, e) \in Seq(A)
      BY <3>1, AppendBehind
    <3>. QED BY <3>2 DEF A
  <2>2. FlattenSeq(Append(s \o r, e)) = FlattenSeq(s \o r) \o e
    BY <2>1, FlattenAppend
  <2>3. FlattenSeq(Append(r, e)) = FlattenSeq(r) \o e /\ FlattenSeq(r) \in Seq(S)
    BY FlattenAppend
  <2>4. (FlattenSeq(s) \o FlattenSeq(r)) \o e = FlattenSeq(s) \o (FlattenSeq(r) \o e)
    <3>1. Associates(FlattenSeq(s), FlattenSeq(r), e)
      BY <1>1, <2>3, Associate
    <3>. QED BY <3>1 DEF Associates
  <2>. QED BY <1>3, <2>1, <2>2, <2>3, <2>4
<1>4. Seq(Seq(S)) \subseteq T
  <2>. HIDE DEF T
  <2>. QED BY <1>2, <1>3, SeqInduction
<1>. QED BY <1>4

\* One sequence, flattened.
LEMMA FlattenOne ==
  ASSUME NEW S, NEW e \in Seq(S)
  PROVE  FlattenSeq(<<e>>) = e
<1>1. Append(<<>>, e) = <<e>> /\ <<>> \in Seq(Seq(S))
  OBVIOUS
<1>2. FlattenSeq(Append(<<>>, e)) = FlattenSeq(<<>>) \o e
  BY <1>1, FlattenAppend
<1>3. <<>> \o e = e
  BY ConcatEmptySeq
<1>. QED BY <1>1, <1>2, <1>3, FlattenEmpty

-----------------------------------------------------------------------------
(* Division *)

\* Flattened, a sequence of single units is what it is made of.
LEMMA FlattenUnits ==
  ASSUME NEW S, NEW r \in Seq(S)
  PROVE  FlattenSeq([k \in 1..Len(r) |-> <<r[k]>>]) = r
<1>. DEFINE T == {s \in Seq(S) : FlattenSeq([k \in 1..Len(s) |-> <<s[k]>>]) = s}
<1>1. <<>> \in T
  <2>1. [k \in 1..Len(<<>>) |-> <<<<>>[k]>>] = <<>> /\ <<>> \in Seq(S)
    OBVIOUS
  <2>. QED BY <2>1, FlattenEmpty, Zenon
<1>2. ASSUME NEW s \in Seq(S), NEW e \in S, s \in T PROVE Append(s, e) \in T
  <2>. DEFINE d == Append(s, e)
              u == [k \in 1..Len(s) |-> <<s[k]>>]
              v == [k \in 1..Len(d) |-> <<d[k]>>]
  <2>1. d \in Seq(S) /\ u \in Seq(Seq(S)) /\ <<e>> \in Seq(S)
    OBVIOUS
  <2>2. v = Append(u, <<e>>)
    OBVIOUS
  <2>3. FlattenSeq(Append(u, <<e>>)) = FlattenSeq(u) \o <<e>>
    <3>. HIDE DEF u
    <3>. QED BY <2>1, FlattenAppend
  <2>4. FlattenSeq(u) = s
    BY <1>2
  <2>5. s \o <<e>> = d
    BY AppendIsConcat
  <2>. HIDE DEF u, v, d
  <2>6. FlattenSeq(v) = d
    BY <2>2, <2>3, <2>4, <2>5
  <2>. QED BY <2>1, <2>6 DEF v, d
<1>3. Seq(S) \subseteq T
  <2>. HIDE DEF T
  <2>. QED BY <1>1, <1>2, SeqInduction
<1>. QED BY <1>3

\* A length is so many whole groups and what is left.
LEMMA Division ==
  ASSUME NEW a \in Nat, NEW n \in Nat \ {0}
  PROVE  /\ a \div n \in Nat /\ a % n \in 0..(n - 1)
         /\ a = n * (a \div n) + (a % n)
OBVIOUS

\* ... in one way only.
LEMMA Quotient ==
  ASSUME NEW a \in Nat, NEW n \in Nat \ {0}, NEW q \in Nat, NEW r \in 0..(n - 1), a = n * q + r
  PROVE  a \div n = q
<1>. DEFINE d == a \div n
            m == a % n
<1>1. d \in Nat /\ m \in 0..(n - 1) /\ a = n * d + m
  BY Division
<1>. HIDE DEF d, m
<1>2. d < q => n * d + n <= n * q
  <2>. SUFFICES ASSUME d < q PROVE n * d + n <= n * q
    OBVIOUS
  <2>1. PICK e \in Nat : q = d + 1 + e
    BY <1>1
  <2>2. n * q = n * d + n + n * e /\ n * e >= 0
    BY <1>1, <2>1
  <2>. QED BY <1>1, <2>2
<1>3. q < d => n * q + n <= n * d
  <2>. SUFFICES ASSUME q < d PROVE n * q + n <= n * d
    OBVIOUS
  <2>1. PICK e \in Nat : d = q + 1 + e
    BY <1>1
  <2>2. n * d = n * q + n + n * e /\ n * e >= 0
    BY <1>1, <2>1
  <2>. QED BY <1>1, <2>2
<1>4. n * d \in Nat /\ n * q \in Nat
  BY <1>1
<1>5. d = q
  BY <1>1, <1>2, <1>3, <1>4
<1>. QED BY <1>5 DEF d

\* Products of naturals are in order.
LEMMA ProductOrder ==
  ASSUME NEW n \in Nat, NEW a \in Nat, NEW b \in Nat, a <= b
  PROVE  n * a \in Nat /\ n * b \in Nat /\ n * a <= n * b
<1>1. PICK c \in Nat : b = a + c
  <2>1. b - a \in Nat /\ b = a + (b - a)
    OBVIOUS
  <2>. QED BY <2>1
<1>2. n * b = n * a + n * c /\ n * c \in Nat /\ n * a \in Nat
  BY <1>1
<1>. QED BY <1>2

\* groups of n units
Blocks(n, S) == [1..n -> S]

\* where the units of groups lie in the row f of them
Lies(f, gs, n) == \A g \in 1..Len(gs) : \A i \in 1..n : f[n * (g - 1) + i] = gs[g][i]

\* Groups of n units are sequences.
LEMMA GroupsAreSeqs ==
  ASSUME NEW S, NEW n \in Nat
  PROVE  /\ Blocks(n, S) \subseteq Seq(S)
         /\ \A g \in Blocks(n, S) : Len(g) = n
         /\ Seq(Blocks(n, S)) \subseteq Seq(Seq(S))
<1>1. Blocks(n, S) \subseteq Seq(S)
  BY DEF Blocks
<1>2. \A g \in Blocks(n, S) : Len(g) = n
  BY DEF Blocks
<1>3. \A s \in Seq(Blocks(n, S)) : s \in Seq(Seq(S))
  BY <1>1, SeqMonotonic
<1>. QED BY <1>1, <1>2, <1>3

\* Where the units of groups lie in the row of them.
LEMMA FlattenGroups ==
  ASSUME NEW S, NEW n \in Nat \ {0}, NEW gs \in Seq(Blocks(n, S))
  PROVE  /\ FlattenSeq(gs) \in Seq(S)
         /\ Len(FlattenSeq(gs)) = n * Len(gs)
         /\ Lies(FlattenSeq(gs), gs, n)
<1>. DEFINE G == Blocks(n, S)
            Fits(s) == /\ FlattenSeq(s) \in Seq(S)
                       /\ Len(FlattenSeq(s)) = n * Len(s)
                       /\ Lies(FlattenSeq(s), s, n)
            T == {s \in Seq(G) : Fits(s)}
<1>1. <<>> \in T
  <2>1. Len(<<>>) = 0 /\ n * 0 = 0 /\ <<>> \in Seq(S) /\ <<>> \in Seq(G)
    OBVIOUS
  <2>2. Lies(<<>>, <<>>, n)
    BY <2>1 DEF Lies
  <2>3. Fits(<<>>)
    BY <2>1, <2>2, FlattenEmpty, Zenon
  <2>. QED BY <2>1, <2>3
<1>2. ASSUME NEW s \in Seq(G), NEW e \in G, s \in T PROVE Append(s, e) \in T
  <2>. DEFINE L == Len(s)
              t == Append(s, e)
              f == FlattenSeq(s)
  <2>1. s \in Seq(Seq(S)) /\ e \in Seq(S) /\ Len(e) = n
    BY GroupsAreSeqs
  <2>2. FlattenSeq(t) = f \o e /\ f \in Seq(S) /\ Len(f) = n * L
        /\ Lies(f, s, n)
    BY <1>2, <2>1, FlattenAppend
  <2>3. t \in Seq(G) /\ Len(t) = L + 1 /\ t[L + 1] = e /\ (\A g \in 1..L : t[g] = s[g]) /\ L \in Nat
    BY AppendProperties
  <2>. HIDE DEF L, t, f
  <2>4. n * (L + 1) = n * L + n /\ n * L \in Nat
    BY <2>3
  <2>5a. /\ f \o e \in Seq(S) /\ Len(f \o e) = Len(f) + Len(e)
         /\ \A k \in 1..Len(f) + Len(e) : (f \o e)[k] = IF k <= Len(f) THEN f[k] ELSE e[k - Len(f)]
    BY <2>1, <2>2, ConcatProperties
  <2>5. FlattenSeq(t) \in Seq(S) /\ Len(FlattenSeq(t)) = n * L + n
        /\ \A k \in 1..(n * L + n) : FlattenSeq(t)[k] = IF k <= n * L THEN f[k] ELSE e[k - n * L]
    BY <2>1, <2>2, <2>5a
  <2>6. ASSUME NEW g \in 1..(L + 1), NEW i \in 1..n
        PROVE  FlattenSeq(t)[n * (g - 1) + i] = t[g][i]
    <3>1. CASE g = L + 1
      <4>1. n * (g - 1) + i = n * L + i
        BY <2>3, <3>1
      <4>2. n * L + i \in 1..(n * L + n) /\ ~(n * L + i <= n * L) /\ (n * L + i) - n * L = i
        <5>. DEFINE a == n * L
        <5>1. a \in Nat
          BY <2>4
        <5>. HIDE DEF a
        <5>2. a + i \in 1..(a + n) /\ ~(a + i <= a) /\ (a + i) - a = i
          BY <5>1
        <5>. QED BY <5>2 DEF a
      <4>. QED BY <2>3, <2>5, <3>1, <4>1, <4>2
    <3>2. CASE g # L + 1
      <4>1. g \in 1..L /\ g - 1 \in Nat
        BY <2>3, <3>2
      <4>2. n * (g - 1) + n = n * g /\ n * g <= n * L /\ n * (g - 1) \in Nat
        <5>1. n * g <= n * L /\ n * (g - 1) \in Nat
          BY <2>3, <4>1, ProductOrder
        <5>2. n * (g - 1) + n = n * g
          BY <4>1
        <5>. QED BY <5>1, <5>2
      <4>3. n * (g - 1) + i \in 1..(n * L + n) /\ n * (g - 1) + i <= n * L
        BY <2>4, <4>2
      <4>4. f[n * (g - 1) + i] = s[g][i]
        BY <2>2, <4>1 DEF Lies, L
      <4>. QED BY <2>3, <2>5, <4>1, <4>3, <4>4
    <3>. QED BY <3>1, <3>2
  <2>7. Lies(FlattenSeq(t), t, n)
    BY <2>3, <2>6 DEF Lies
  <2>8. Fits(t)
    BY <2>3, <2>4, <2>5, <2>7
  <2>. QED BY <2>3, <2>8 DEF t
<1>3. Seq(G) \subseteq T
  <2>. HIDE DEF T, G
  <2>. QED BY <1>1, <1>2, SeqInduction
<1>. QED BY <1>3

\* Groups and the rest are found again in the row of them.
LEMMA GroupsUnique ==
  ASSUME NEW S, NEW n \in Nat \ {0}, NEW gs \in Seq(Blocks(n, S)), NEW r \in Seq(S), Len(r) < n
  PROVE  /\ Groups(FlattenSeq(gs) \o r, n) = gs
         /\ Rest(FlattenSeq(gs) \o r, n) = r
<1>. DEFINE f == FlattenSeq(gs)
            s == f \o r
            L == Len(gs)
            k == Len(r)
<1>1. /\ f \in Seq(S) /\ Len(f) = n * L
      /\ Lies(f, gs, n)
  BY FlattenGroups
<1>2. L \in Nat /\ k \in 0..(n - 1) /\ n * L \in Nat
  <2>1. L \in Nat /\ k \in Nat
    OBVIOUS
  <2>2. n * L \in Nat
    BY <2>1, ProductOrder
  <2>. QED BY <2>1, <2>2
<1>2a. \A g \in 1..L : gs[g] \in Blocks(n, S)
  BY ElementOfSeq
<1>3. s \in Seq(S) /\ Len(s) = n * L + k
      /\ \A j \in 1..(n * L + k) : s[j] = IF j <= n * L THEN f[j] ELSE r[j - n * L]
  <2>1. /\ s \in Seq(S) /\ Len(s) = Len(f) + k
        /\ \A j \in 1..Len(f) + k : s[j] = IF j <= Len(f) THEN f[j] ELSE r[j - Len(f)]
    BY <1>1, ConcatProperties
  <2>. QED BY <1>1, <2>1
<1>. HIDE DEF f, s, L, k
<1>4. Len(s) \div n = L
  <2>. DEFINE a == n * L + k
  <2>1. a \in Nat /\ a = n * L + k
    BY <1>2
  <2>. HIDE DEF a
  <2>2. a \div n = L
    BY <1>2, <2>1, Quotient
  <2>. QED BY <1>3, <2>2 DEF a
<1>5. ASSUME NEW g \in 1..L PROVE SubSeq(s, n * (g - 1) + 1, n * g) = gs[g]
  <2>1. g - 1 \in Nat /\ n * (g - 1) \in Nat /\ n * g \in Nat /\ n * g <= n * L /\ n * (g - 1) + n = n * g
    <3>1. g - 1 \in Nat /\ g \in Nat /\ g <= L
      BY <1>2
    <3>2. n * (g - 1) + n = n * g
      BY <3>1
    <3>. QED BY <1>2, <3>1, <3>2, ProductOrder
  <2>. DEFINE a == n * (g - 1)
              b == n * g
              t == SubSeq(s, a + 1, b)
  <2>2. a \in Nat /\ b = a + n /\ b <= n * L /\ b \in Nat /\ b <= n * L + k
    BY <1>2, <2>1
  <2>3. \A i \in 1..n : s[a + i] = gs[g][i]
    <3>. SUFFICES ASSUME NEW i \in 1..n PROVE s[a + i] = gs[g][i]
      OBVIOUS
    <3>1. a + i \in 1..(n * L + k) /\ a + i <= n * L
      <4>. DEFINE c == n * L
      <4>. HIDE DEF a, b, c
      <4>1. c \in Nat /\ k \in Nat /\ b <= c
        BY <1>2, <2>2 DEF c
      <4>2. a + i \in 1..(c + k) /\ a + i <= c
        BY <2>2, <4>1
      <4>. QED BY <4>2 DEF c
    <3>2. f[a + i] = gs[g][i]
      BY <1>1 DEF Lies, L
    <3>. QED BY <1>3, <3>1, <3>2
  <2>. HIDE DEF a, b
  <2>4. \A i \in (a + 1)..b : s[i] \in S
    <3>1. \A i \in (a + 1)..b : i \in 1..Len(s)
      BY <1>2, <1>3, <2>2
    <3>. QED BY <1>3, <3>1, ElementOfSeq
  <2>5. t \in Seq(S) /\ Len(t) = n /\ \A i \in 1..n : t[i] = s[a + i]
    <3>1. a + 1 \in Int /\ b \in Int /\ a + 1 <= b /\ b - (a + 1) + 1 = n
          /\ \A i \in 1..n : (a + 1) + i - 1 = a + i
      BY <2>2
    <3>2. /\ t \in Seq(S) /\ Len(t) = b - (a + 1) + 1
          /\ \A i \in 1..(b - (a + 1) + 1) : t[i] = s[(a + 1) + i - 1]
      BY <2>4, <3>1, SubSeqProperties
    <3>. HIDE DEF t
    <3>. QED BY <3>1, <3>2
  <2>. HIDE DEF t
  <2>6. gs[g] \in Seq(S) /\ Len(gs[g]) = n
    BY <1>2a, GroupsAreSeqs
  <2>7. t = gs[g]
    BY <2>3, <2>5, <2>6, SeqEqual
  <2>. QED BY <2>7 DEF t, a, b
<1>6. Groups(s, n) = gs
  <2>1. Groups(s, n) = [g \in 1..L |-> SubSeq(s, n * (g - 1) + 1, n * g)]
    BY <1>4 DEF Groups
  <2>2. gs = [g \in 1..L |-> gs[g]]
    BY DEF L
  <2>. QED BY <1>5, <2>1, <2>2
<1>7. Rest(s, n) = r
  <2>1. Rest(s, n) = SubSeq(s, n * L + 1, n * L + k)
    BY <1>3, <1>4 DEF Rest
  <2>. DEFINE a == n * L
              t == SubSeq(s, a + 1, a + k)
  <2>2. \A i \in (a + 1)..(a + k) : s[i] \in S
    <3>1. \A i \in (a + 1)..(a + k) : i \in 1..Len(s)
      BY <1>2, <1>3
    <3>. QED BY <1>3, <3>1, ElementOfSeq
  <2>3. a \in Nat /\ k \in Nat
    BY <1>2
  <2>4. \A j \in 1..(a + k) : s[j] = IF j <= a THEN f[j] ELSE r[j - a]
    BY <1>3
  <2>. HIDE DEF a
  <2>5. t \in Seq(S) /\ Len(t) = k /\ \A i \in 1..k : t[i] = r[i]
    <3>1. a + 1 \in Int /\ a + k \in Int /\ (a + k) - (a + 1) + 1 = k
          /\ (a + 1 <= a + k <=> k # 0)
          /\ \A i \in 1..k : (a + 1) + i - 1 = a + i
      BY <2>3
    <3>2. /\ t \in Seq(S) /\ Len(t) = IF a + 1 <= a + k THEN (a + k) - (a + 1) + 1 ELSE 0
          /\ \A i \in 1..((a + k) - (a + 1) + 1) : t[i] = s[(a + 1) + i - 1]
      BY <2>2, <3>1, SubSeqProperties
    <3>3. t \in Seq(S) /\ Len(t) = k /\ \A i \in 1..k : t[i] = s[a + i]
      <4>. HIDE DEF t
      <4>. QED BY <3>1, <3>2
    <3>4. ASSUME NEW i \in 1..k PROVE s[a + i] = r[i]
      <4>1. a + i \in 1..(a + k) /\ ~(a + i <= a) /\ (a + i) - a = i
        BY <2>3
      <4>. QED BY <2>4, <4>1
    <3>. QED BY <3>3, <3>4
  <2>. HIDE DEF t
  <2>6. Len(r) = k
    BY DEF k
  <2>7. t = r
    BY <2>5, <2>6, SeqEqual
  <2>. QED BY <2>1, <2>7 DEF t, a
<1>. QED BY <1>6, <1>7 DEF s, f

\* A sequence is the row of its groups and what is left.
LEMMA GroupsParts ==
  ASSUME NEW S, NEW s \in Seq(S), NEW n \in Nat \ {0}
  PROVE  /\ Groups(s, n) \in Seq(Blocks(n, S))
         /\ Rest(s, n) \in Seq(S) /\ Len(Rest(s, n)) < n
         /\ FlattenSeq(Groups(s, n)) \o Rest(s, n) = s
<1>. DEFINE q == Len(s) \div n
            m == Len(s) % n
            gs == Groups(s, n)
            r == Rest(s, n)
<1>1. q \in Nat /\ m \in 0..(n - 1) /\ Len(s) = n * q + m
  <2>1. Len(s) \in Nat
    OBVIOUS
  <2>. QED BY <2>1, Division
<1>2. gs = [g \in 1..q |-> SubSeq(s, n * (g - 1) + 1, n * g)] /\ r = SubSeq(s, n * q + 1, n * q + m)
  BY <1>1 DEF Groups, Rest
<1>3. n * q \in Nat
  BY <1>1, ProductOrder
<1>4. \A i \in 1..(n * q + m) : s[i] \in S
  BY <1>1, ElementOfSeq
<1>. HIDE DEF q, m, gs, r
<1>5. ASSUME NEW g \in 1..q
      PROVE  /\ gs[g] \in Blocks(n, S) /\ \A i \in 1..n : gs[g][i] = s[n * (g - 1) + i]
             /\ n * (g - 1) \in Nat /\ n * (g - 1) + n <= n * q
  <2>. DEFINE a == n * (g - 1)
              b == n * g
              t == SubSeq(s, a + 1, b)
  <2>1. a \in Nat /\ b = a + n /\ b <= n * q
    <3>1. g - 1 \in Nat /\ g \in Nat /\ g <= q
      BY <1>1
    <3>2. n * (g - 1) + n = n * g
      BY <3>1
    <3>. QED BY <1>1, <3>1, <3>2, ProductOrder
  <2>. HIDE DEF a, b
  <2>2. \A i \in (a + 1)..b : s[i] \in S
    <3>1. \A i \in (a + 1)..b : i \in 1..(n * q + m)
      BY <1>1, <1>3, <2>1
    <3>. QED BY <1>4, <3>1
  <2>3. t \in Seq(S) /\ Len(t) = n /\ \A i \in 1..n : t[i] = s[a + i]
    <3>1. a + 1 \in Int /\ b \in Int /\ a + 1 <= b /\ b - (a + 1) + 1 = n
          /\ \A i \in 1..n : (a + 1) + i - 1 = a + i
      BY <2>1
    <3>2. /\ t \in Seq(S) /\ Len(t) = b - (a + 1) + 1
          /\ \A i \in 1..(b - (a + 1) + 1) : t[i] = s[(a + 1) + i - 1]
      BY <2>2, <3>1, SubSeqProperties
    <3>. HIDE DEF t
    <3>. QED BY <3>1, <3>2
  <2>4. gs[g] = t
    BY <1>2 DEF a, b
  <2>. HIDE DEF t
  <2>5. t \in Blocks(n, S)
    BY <2>3 DEF Blocks
  <2>6. n * (g - 1) = a
    BY DEF a
  <2>. QED BY <2>1, <2>3, <2>4, <2>5, <2>6
<1>6. gs \in Seq(Blocks(n, S)) /\ Len(gs) = q
  <2>.  HIDE DEF gs
  <2>1. gs \in [1..q -> Blocks(n, S)]
    BY <1>2, <1>5
  <2>. QED BY <1>1, <2>1
<1>7. r \in Seq(S) /\ Len(r) = m /\ \A i \in 1..m : r[i] = s[n * q + i]
  <2>. DEFINE a == n * q
  <2>1. a \in Nat /\ m \in Nat /\ \A i \in (a + 1)..(a + m) : s[i] \in S
    BY <1>1, <1>3, <1>4
  <2>2. r = SubSeq(s, a + 1, a + m)
    BY <1>2
  <2>. HIDE DEF a
  <2>3. a + 1 \in Int /\ a + m \in Int /\ (a + m) - (a + 1) + 1 = m
        /\ (a + 1 <= a + m <=> m # 0)
        /\ \A i \in 1..m : (a + 1) + i - 1 = a + i
    BY <2>1
  <2>4. /\ r \in Seq(S) /\ Len(r) = IF a + 1 <= a + m THEN (a + m) - (a + 1) + 1 ELSE 0
        /\ \A i \in 1..((a + m) - (a + 1) + 1) : r[i] = s[(a + 1) + i - 1]
    BY <2>1, <2>2, <2>3, SubSeqProperties
  <2>5. r \in Seq(S) /\ Len(r) = m /\ \A i \in 1..m : r[i] = s[a + i]
    BY <2>1, <2>3, <2>4
  <2>. QED BY <2>5 DEF a
<1>8. FlattenSeq(gs) \o r = s
  <2>. DEFINE f == FlattenSeq(gs)
              t == f \o r
  <2>1. f \in Seq(S) /\ Len(f) = n * q
        /\ Lies(f, gs, n)
    BY <1>6, FlattenGroups
  <2>2. t \in Seq(S) /\ Len(t) = n * q + m
        /\ \A j \in 1..(n * q + m) : t[j] = IF j <= n * q THEN f[j] ELSE r[j - n * q]
    <3>1. /\ t \in Seq(S) /\ Len(t) = Len(f) + Len(r)
          /\ \A j \in 1..Len(f) + Len(r) : t[j] = IF j <= Len(f) THEN f[j] ELSE r[j - Len(f)]
      BY <1>7, <2>1, ConcatProperties
    <3>. QED BY <1>7, <2>1, <3>1
  <2>. HIDE DEF f, t
  <2>3. ASSUME NEW j \in 1..(n * q + m) PROVE t[j] = s[j]
    <3>1. CASE j <= n * q
      <4>1. PICK d \in Nat, i \in 0..(n - 1) : j - 1 = n * d + i
        <5>1. j - 1 \in Nat
          BY <1>1, <1>3
        <5>. QED BY <5>1, Division
      <4>2. d < q
        <5>1. q <= d => n * q <= n * d /\ n * d \in Nat
          BY <1>1, ProductOrder
        <5>. QED BY <1>1, <1>3, <3>1, <4>1, <5>1
      <4>3. d + 1 \in 1..q /\ i + 1 \in 1..n /\ (d + 1) - 1 = d
        BY <1>1, <4>1, <4>2
      <4>4. f[n * d + (i + 1)] = gs[d + 1][i + 1] /\ gs[d + 1][i + 1] = s[n * d + (i + 1)]
        BY <1>5, <1>6, <2>1, <4>3 DEF Lies
      <4>5. n * d \in Nat
        BY <4>1, ProductOrder
      <4>6. n * d + (i + 1) = j
        BY <1>1, <1>3, <4>1, <4>5
      <4>. QED BY <2>2, <3>1, <4>4, <4>6
    <3>2. CASE ~(j <= n * q)
      <4>1. j - n * q \in 1..m /\ n * q + (j - n * q) = j
        BY <1>1, <1>3, <3>2
      <4>. QED BY <1>7, <2>2, <3>2, <4>1
    <3>. QED BY <3>1, <3>2
  <2>4. t = s
    BY <1>1, <2>2, <2>3, SeqEqual
  <2>. QED BY <2>4 DEF t, f
<1>9. Len(r) < n
  BY <1>1, <1>7
<1>. QED BY <1>6, <1>7, <1>8, <1>9 DEF gs, r

\* What comes behind a sequence is grouped with what is left of that.
LEMMA GroupsConcat ==
  ASSUME NEW S, NEW s \in Seq(S), NEW t \in Seq(S), NEW n \in Nat \ {0}
  PROVE  /\ Groups(s \o t, n) = Groups(s, n) \o Groups(Rest(s, n) \o t, n)
         /\ Rest(s \o t, n) = Rest(Rest(s, n) \o t, n)
<1>. DEFINE g == Groups(s, n)
            r == Rest(s, n)
            g2 == Groups(r \o t, n)
            r2 == Rest(r \o t, n)
<1>1. g \in Seq(Blocks(n, S)) /\ r \in Seq(S) /\ FlattenSeq(g) \o r = s
  BY GroupsParts
<1>2. r \o t \in Seq(S)
  BY <1>1, ConcatProperties
<1>3. g2 \in Seq(Blocks(n, S)) /\ r2 \in Seq(S) /\ Len(r2) < n /\ FlattenSeq(g2) \o r2 = r \o t
  BY <1>2, GroupsParts
<1>. HIDE DEF g, r, g2, r2
<1>4. g \in Seq(Seq(S)) /\ g2 \in Seq(Seq(S)) /\ g \o g2 \in Seq(Blocks(n, S))
  BY <1>1, <1>3, GroupsAreSeqs, ConcatProperties
<1>5. FlattenSeq(g) \in Seq(S) /\ FlattenSeq(g2) \in Seq(S) /\ FlattenSeq(g \o g2) = FlattenSeq(g) \o FlattenSeq(g2)
  BY <1>4, FlattenIn, FlattenConcat
<1>6. s \o t = FlattenSeq(g) \o (r \o t)
  <2>. DEFINE f == FlattenSeq(g)
  <2>1. f \in Seq(S) /\ r \in Seq(S) /\ s = f \o r
    BY <1>1, <1>5
  <2>. HIDE DEF f
  <2>2. (f \o r) \o t = f \o (r \o t)
    <3>1. Associates(f, r, t)
      BY <2>1, Associate
    <3>. QED BY <3>1 DEF Associates
  <2>. QED BY <2>1, <2>2 DEF f
<1>7. FlattenSeq(g) \o (FlattenSeq(g2) \o r2) = (FlattenSeq(g) \o FlattenSeq(g2)) \o r2
  <2>. DEFINE f == FlattenSeq(g)
              f2 == FlattenSeq(g2)
  <2>1. f \in Seq(S) /\ f2 \in Seq(S) /\ r2 \in Seq(S)
    BY <1>3, <1>5
  <2>. HIDE DEF f, f2
  <2>2. (f \o f2) \o r2 = f \o (f2 \o r2)
    <3>1. Associates(f, f2, r2)
      BY <2>1, Associate
    <3>. QED BY <3>1 DEF Associates
  <2>. QED BY <2>2 DEF f, f2
<1>8. s \o t = FlattenSeq(g \o g2) \o r2
  BY <1>3, <1>5, <1>6, <1>7
<1>9. Groups(FlattenSeq(g \o g2) \o r2, n) = g \o g2 /\ Rest(FlattenSeq(g \o g2) \o r2, n) = r2
  BY <1>3, <1>4, GroupsUnique
<1>. QED BY <1>8, <1>9 DEF g, r, g2, r2

\* Less than a group has none.
LEMMA GroupsOfFew ==
  ASSUME NEW S, NEW s \in Seq(S), NEW n \in Nat \ {0}, Len(s) < n
  PROVE  Groups(s, n) = <<>> /\ Rest(s, n) = s
<1>1. <<>> \in Seq(Blocks(n, S)) /\ FlattenSeq(<<>>) \o s = s
  BY FlattenEmpty, ConcatEmptySeq
<1>2. Groups(FlattenSeq(<<>>) \o s, n) = <<>> /\ Rest(FlattenSeq(<<>>) \o s, n) = s
  BY <1>1, GroupsUnique
<1>. QED BY <1>1, <1>2

-----------------------------------------------------------------------------
(* One call on an encoder *)

AllMethods == {"COPY", "SWAP2", "SWAP4", "LZ4", "BROTLI", "AES"}
Framed == {"LZ4", "BROTLI"}
Swaps == {"SWAP2", "SWAP4"}

Cipher == {"cipher"} \X [1..AesBlock -> Plain] \X (1..AesBlock) \X {0}

\* what comes out of an encoder of method m
OutOf(m) == IF m = "AES" THEN Cipher ELSE Plain

\* the calls on a writer that takes units of U: writes; flushes among them; all
DataCalls(U) == [call : {"write"}, buf : Seq(U) \ {<<>>}]
MidCalls(U) == DataCalls(U) \cup {Flush}
AnyCalls(U) == MidCalls(U) \cup {Finish}

\* the units calls write
Bytes(calls) == FlattenSeq([k \in DOMAIN calls |-> calls[k].buf])

\* what an encoder makes of a group of units, and of groups
EncodedBy(m, g) ==
  CASE m = "COPY" -> g
    [] m \in Swaps -> Reverse(g)
    [] m \in Framed -> FrameHeader(Len(g) + 1) \o Append(g, EndMark)
    [] m = "AES" -> Encrypt(g)
Coded(m, gs) == FlattenSeq([k \in DOMAIN gs |-> EncodedBy(m, gs[k])])

\* the groups it takes at a time
Parts(m) == IF m \in Framed THEN Seq(Plain) ELSE Blocks(Full(m), Plain)

Encs(m) == {e \in [held : Seq(Plain), finished : BOOLEAN, taken : Nat] :
              Len(e.held) < Full(m) /\ (e.finished => m = "AES")}

\* Every encoder takes at least one unit at a time.
LEMMA FullPositive ==
  ASSUME NEW m \in AllMethods
  PROVE  Full(m) \in Nat \ {0}
BY EncoderAssumption DEF AllMethods, Full, Unit

\* Data, zeros, end marks and headers are plain units.
LEMMA PlainUnits ==
  /\ EndMark \in Plain /\ ZeroByte \in Plain
  /\ \A i \in Nat : DataByte(i) \in Plain
  /\ \A n \in Nat : /\ FrameHeader(n)[1] \in Plain /\ FrameHeader(n)[2] \in Plain
                    /\ FrameHeader(n) = <<FrameHeader(n)[1], FrameHeader(n)[2]>>
                    /\ FrameHeader(n) \in Seq(Plain) /\ Len(FrameHeader(n)) = 2
<1>1. EndMark \in Plain /\ ZeroByte \in Plain
  BY DEF Plain
<1>2. \A i \in Nat : DataByte(i) \in Plain
  BY DEF Plain, DataByte
<1>3. \A n \in Nat : <<"head", n, 1>> \in Plain /\ <<"head", n, 2>> \in Plain
  BY DEF Plain
<1>4. ASSUME NEW a \in Plain, NEW b \in Plain
      PROVE  <<a, b>>[1] = a /\ <<a, b>>[2] = b /\ <<a, b>> \in Seq(Plain) /\ Len(<<a, b>>) = 2
  OBVIOUS
<1>5. ASSUME NEW n \in Nat
      PROVE  /\ FrameHeader(n)[1] \in Plain /\ FrameHeader(n)[2] \in Plain
             /\ FrameHeader(n) = <<FrameHeader(n)[1], FrameHeader(n)[2]>>
             /\ FrameHeader(n) \in Seq(Plain) /\ Len(FrameHeader(n)) = 2
  <2>1. PICK a \in Plain, b \in Plain : FrameHeader(n) = <<a, b>>
    BY <1>3 DEF FrameHeader
  <2>. QED BY <1>4, <2>1
<1>. QED BY <1>1, <1>2, <1>5

\* A frame header is two units here.
LEMMA HeaderSizeIs == HeaderSize = 2
BY PlainUnits DEF HeaderSize

\* Calls and the units they write.
LEMMA CallKinds ==
  ASSUME NEW U
  PROVE  /\ DataCalls(U) \subseteq MidCalls(U) /\ MidCalls(U) \subseteq AnyCalls(U)
         /\ Flush \in MidCalls(U) /\ Finish \in AnyCalls(U)
         /\ Flush.buf = <<>> /\ Finish.buf = <<>> /\ Flush # Finish
         /\ \A c \in DataCalls(U) : c # Flush /\ c # Finish /\ c = Write(c.buf) /\ c.buf \in Seq(U) \ {<<>>}
         /\ \A b \in Seq(U) \ {<<>>} : Write(b) \in DataCalls(U) /\ Write(b).buf = b
         /\ \A c \in AnyCalls(U) : c.buf \in Seq(U)
<1>1. <<>> \in Seq(U)
  OBVIOUS
<1>2. /\ Flush.buf = <<>> /\ Finish.buf = <<>> /\ Flush.call = "flush" /\ Finish.call = "write"
  BY DEF Flush, Finish, Write
<1>3. \A c \in DataCalls(U) : c.call = "write" /\ c.buf \in Seq(U) \ {<<>>} /\ c = Write(c.buf)
  BY DEF DataCalls, Write
<1>4. \A b \in Seq(U) \ {<<>>} : Write(b) \in DataCalls(U) /\ Write(b).buf = b
  BY DEF DataCalls, Write
<1>. QED BY <1>1, <1>2, <1>3, <1>4 DEF MidCalls, AnyCalls

\* Bytes: of no calls, of one more, of rows of calls.
LEMMA BytesEmpty == Bytes(<<>>) = <<>>
<1>1. [k \in DOMAIN <<>> |-> <<>>[k].buf] = <<>>
  OBVIOUS
<1>. QED BY <1>1, FlattenEmpty, Zenon DEF Bytes

\* One more call writes its buffer behind the others.
LEMMA BytesAppend ==
  ASSUME NEW U, NEW cs \in Seq(AnyCalls(U)), NEW c \in AnyCalls(U)
  PROVE  /\ Bytes(cs) \in Seq(U)
         /\ Bytes(Append(cs, c)) = Bytes(cs) \o c.buf
<1>. DEFINE s == [k \in DOMAIN cs |-> cs[k].buf]
            t == [k \in DOMAIN Append(cs, c) |-> Append(cs, c)[k].buf]
            n == Len(cs)
            d == Append(cs, c)
<1>1. n \in Nat /\ DOMAIN cs = 1..n /\ DOMAIN d = 1..(n + 1)
      /\ (\A k \in 1..n : cs[k] \in AnyCalls(U) /\ d[k] = cs[k]) /\ d[n + 1] = c
  OBVIOUS
<1>2. (\A k \in 1..n : cs[k].buf \in Seq(U)) /\ c.buf \in Seq(U)
  BY <1>1, CallKinds
<1>. HIDE DEF n, d
<1>3. s \in Seq(Seq(U)) /\ Len(s) = n /\ \A k \in 1..n : s[k] = cs[k].buf
  BY <1>1, <1>2
<1>4. t = Append(s, c.buf)
  <2>1. t = [k \in 1..(n + 1) |-> IF k <= n THEN cs[k].buf ELSE c.buf]
    BY <1>1 DEF d
  <2>2. Append(s, c.buf) = [k \in 1..(n + 1) |-> IF k <= n THEN s[k] ELSE c.buf]
    <3>1. /\ Append(s, c.buf) \in Seq(Seq(U)) /\ Len(Append(s, c.buf)) = n + 1
          /\ (\A k \in 1..n : Append(s, c.buf)[k] = s[k]) /\ Append(s, c.buf)[n + 1] = c.buf
      BY <1>2, <1>3, AppendProperties
    <3>. HIDE DEF s
    <3>. QED BY <1>1, <3>1
  <2>3. \A k \in 1..(n + 1) : k <= n => k \in 1..n
    BY <1>1
  <2>. HIDE DEF s, t
  <2>. QED BY <1>3, <2>1, <2>2, <2>3
<1>. HIDE DEF s, t
<1>5. FlattenSeq(s) \in Seq(U) /\ FlattenSeq(Append(s, c.buf)) = FlattenSeq(s) \o c.buf
  BY <1>2, <1>3, FlattenAppend
<1>6. Bytes(cs) = FlattenSeq(s) /\ Bytes(Append(cs, c)) = FlattenSeq(t)
  BY DEF Bytes, s, t
<1>. QED BY <1>4, <1>5, <1>6

\* The buffers of calls hold units.
LEMMA BytesIn ==
  ASSUME NEW U, NEW cs \in Seq(AnyCalls(U))
  PROVE  Bytes(cs) \in Seq(U)
BY BytesAppend, CallKinds

\* Two rows of calls write one after the other.
LEMMA BytesConcat ==
  ASSUME NEW U, NEW cs \in Seq(AnyCalls(U)), NEW ds \in Seq(AnyCalls(U))
  PROVE  Bytes(cs \o ds) = Bytes(cs) \o Bytes(ds)
<1>. DEFINE C == AnyCalls(U)
            T == {r \in Seq(C) : Bytes(cs \o r) = Bytes(cs) \o Bytes(r)}
<1>1. Bytes(cs) \in Seq(U)
  BY BytesIn
<1>2. <<>> \in T
  <2>1. cs \o <<>> = cs /\ Bytes(cs) \o <<>> = Bytes(cs)
    BY <1>1, ConcatEmptySeq
  <2>2. <<>> \in Seq(C)
    OBVIOUS
  <2>. QED BY <2>1, <2>2, BytesEmpty
<1>3. ASSUME NEW r \in Seq(C), NEW e \in C, r \in T PROVE Append(r, e) \in T
  <2>. HIDE DEF C
  <2>1. cs \o Append(r, e) = Append(cs \o r, e) /\ cs \o r \in Seq(C) /\ Append(r, e) \in Seq(C)
    <3>1. cs \in Seq(C)
      BY DEF C
    <3>. QED BY <3>1, AppendBehind
  <2>2. Bytes(Append(cs \o r, e)) = Bytes(cs \o r) \o e.buf
    BY <2>1, BytesAppend DEF C
  <2>3. Bytes(Append(r, e)) = Bytes(r) \o e.buf /\ Bytes(r) \in Seq(U) /\ e.buf \in Seq(U)
    BY BytesAppend, CallKinds DEF C
  <2>4. (Bytes(cs) \o Bytes(r)) \o e.buf = Bytes(cs) \o (Bytes(r) \o e.buf)
    <3>. DEFINE a == Bytes(cs)
                b == Bytes(r)
                d == e.buf
    <3>1. a \in Seq(U) /\ b \in Seq(U) /\ d \in Seq(U)
      BY <1>1, <2>3
    <3>. HIDE DEF a, b, d
    <3>2. (a \o b) \o d = a \o (b \o d)
      <4>1. Associates(a, b, d)
        BY <3>1, Associate
      <4>. QED BY <4>1 DEF Associates
    <3>. QED BY <3>2 DEF a, b, d
  <2>. QED BY <1>3, <2>1, <2>2, <2>3, <2>4
<1>4. Seq(C) \subseteq T
  <2>. HIDE DEF T, C
  <2>. QED BY <1>2, <1>3, SeqInduction
<1>. QED BY <1>4

\* One call.
LEMMA BytesOne ==
  ASSUME NEW U, NEW c \in AnyCalls(U)
  PROVE  <<c>> \in Seq(AnyCalls(U)) /\ Bytes(<<c>>) = c.buf
<1>1. <<>> \in Seq(AnyCalls(U)) /\ Append(<<>>, c) = <<c>> /\ <<c>> \in Seq(AnyCalls(U))
  OBVIOUS
<1>2. c.buf \in Seq(U)
  BY CallKinds
<1>3. Bytes(Append(<<>>, c)) = Bytes(<<>>) \o c.buf
  BY <1>1, BytesAppend
<1>4. <<>> \o c.buf = c.buf
  BY <1>2, ConcatEmptySeq
<1>. QED BY <1>1, <1>3, <1>4, BytesEmpty

\* The other way around, a sequence has the same units.
LEMMA Reversed ==
  ASSUME NEW S, NEW s \in Seq(S)
  PROVE  /\ Reverse(s) \in Seq(S) /\ Len(Reverse(s)) = Len(s)
         /\ \A i \in 1..Len(s) : Reverse(s)[i] = s[Len(s) - i + 1]
         /\ Reverse(Reverse(s)) = s
<1>. DEFINE n == Len(s)
            r == Reverse(s)
<1>1. n \in Nat /\ \A i \in 1..n : s[i] \in S /\ n - i + 1 \in 1..n /\ n - (n - i + 1) + 1 = i
  OBVIOUS
<1>2. r = [i \in 1..n |-> s[n - i + 1]]
  BY DEF Reverse
<1>. HIDE DEF n, r
<1>3. r \in Seq(S) /\ Len(r) = n /\ \A i \in 1..n : r[i] = s[n - i + 1]
  BY <1>1, <1>2
<1>4. Reverse(r) = [i \in 1..n |-> r[n - i + 1]]
  BY <1>3 DEF Reverse
<1>5. \A i \in 1..n : r[n - i + 1] = s[i]
  BY <1>1, <1>3
<1>6. Reverse(r) = [i \in 1..n |-> s[i]]
  BY <1>4, <1>5
<1>7. s = [i \in 1..n |-> s[i]]
  BY DEF n
<1>. QED BY <1>3, <1>6, <1>7 DEF n, r

\* What an encoder makes of a group, by its method.
LEMMA EncodedIs ==
  ASSUME NEW m, NEW g
  PROVE  /\ m = "COPY" => EncodedBy(m, g) = g /\ OutOf(m) = Plain
         /\ m \in Swaps => EncodedBy(m, g) = Reverse(g) /\ OutOf(m) = Plain
         /\ m \in Framed => /\ EncodedBy(m, g) = FrameHeader(Len(g) + 1) \o Append(g, EndMark)
                            /\ OutOf(m) = Plain
         /\ m = "AES" => EncodedBy(m, g) = Encrypt(g) /\ OutOf(m) = Cipher
<1>1. CASE m = "COPY"
  <2>1. m \notin Swaps /\ m \notin Framed /\ m # "AES"
    BY <1>1 DEF Swaps, Framed
  <2>. QED BY <1>1, <2>1, Zenon DEF EncodedBy, OutOf
<1>2. CASE m \in Swaps
  <2>1. m # "COPY" /\ m \notin Framed /\ m # "AES"
    BY <1>2 DEF Swaps, Framed
  <2>. QED BY <1>2, <2>1, Zenon DEF EncodedBy, OutOf
<1>3. CASE m \in Framed
  <2>1. m # "COPY" /\ m \notin Swaps /\ m # "AES"
    BY <1>3 DEF Swaps, Framed
  <2>. QED BY <1>3, <2>1, Zenon DEF EncodedBy, OutOf
<1>4. CASE m = "AES"
  <2>1. m # "COPY" /\ m \notin Swaps /\ m \notin Framed
    BY <1>4 DEF Swaps, Framed
  <2>. QED BY <1>4, <2>1, Zenon DEF EncodedBy, OutOf
<1>. QED BY <1>1, <1>2, <1>3, <1>4

\* What an encoder makes of a group.
LEMMA EncodedIn ==
  ASSUME NEW m \in AllMethods, NEW g \in Parts(m)
  PROVE  EncodedBy(m, g) \in Seq(OutOf(m))
<1>1. CASE m = "COPY"
  <2>1. g \in Seq(Plain)
    BY <1>1, FullPositive, GroupsAreSeqs DEF Parts, Framed
  <2>2. EncodedBy(m, g) = g /\ OutOf(m) = Plain
    BY <1>1, EncodedIs
  <2>. QED BY <2>1, <2>2
<1>2. CASE m \in Swaps
  <2>1. g \in Seq(Plain)
    BY <1>2, FullPositive, GroupsAreSeqs DEF Parts, Framed, Swaps
  <2>2. Reverse(g) \in Seq(Plain)
    BY <2>1, Reversed
  <2>3. EncodedBy(m, g) = Reverse(g) /\ OutOf(m) = Plain
    BY <1>2, EncodedIs
  <2>. QED BY <2>2, <2>3
<1>3. CASE m \in Framed
  <2>1. g \in Seq(Plain) /\ Len(g) + 1 \in Nat
    BY <1>3 DEF Parts
  <2>2. FrameHeader(Len(g) + 1) \in Seq(Plain) /\ Append(g, EndMark) \in Seq(Plain)
    BY <2>1, PlainUnits, AppendProperties
  <2>3. FrameHeader(Len(g) + 1) \o Append(g, EndMark) \in Seq(Plain)
    BY <2>2, ConcatProperties
  <2>4. EncodedBy(m, g) = FrameHeader(Len(g) + 1) \o Append(g, EndMark) /\ OutOf(m) = Plain
    BY <1>3, EncodedIs
  <2>. QED BY <2>3, <2>4
<1>4. CASE m = "AES"
  <2>1. g \in [1..AesBlock -> Plain] /\ AesBlock \in Nat
    BY <1>4, EncoderAssumption DEF Parts, Framed, Full, Blocks
  <2>2. \A j \in 1..AesBlock : <<"cipher", g, j, 0>> \in Cipher
    BY <2>1 DEF Cipher
  <2>3. Encrypt(g) \in Seq(Cipher)
    BY <2>1, <2>2 DEF Encrypt
  <2>4. EncodedBy(m, g) = Encrypt(g) /\ OutOf(m) = Cipher
    BY <1>4, EncodedIs
  <2>. QED BY <2>3, <2>4
<1>. QED BY <1>1, <1>2, <1>3, <1>4 DEF AllMethods, Swaps, Framed

\* Coded: of no groups, of one more, of rows of groups, of one.
LEMMA CodedEmpty ==
  ASSUME NEW m
  PROVE  Coded(m, <<>>) = <<>>
<1>1. [k \in DOMAIN <<>> |-> EncodedBy(m, <<>>[k])] = <<>>
  OBVIOUS
<1>. QED BY <1>1, FlattenEmpty, Zenon DEF Coded

\* One more group is coded behind the others.
LEMMA CodedAppend ==
  ASSUME NEW m \in AllMethods, NEW gs \in Seq(Parts(m)), NEW g \in Parts(m)
  PROVE  /\ Coded(m, gs) \in Seq(OutOf(m))
         /\ Coded(m, Append(gs, g)) = Coded(m, gs) \o EncodedBy(m, g)
<1>. DEFINE s == [k \in DOMAIN gs |-> EncodedBy(m, gs[k])]
            t == [k \in DOMAIN Append(gs, g) |-> EncodedBy(m, Append(gs, g)[k])]
            n == Len(gs)
            d == Append(gs, g)
            e == EncodedBy(m, g)
            U == OutOf(m)
<1>1. n \in Nat /\ DOMAIN gs = 1..n /\ DOMAIN d = 1..(n + 1)
      /\ (\A k \in 1..n : gs[k] \in Parts(m) /\ d[k] = gs[k]) /\ d[n + 1] = g
  OBVIOUS
<1>2. (\A k \in 1..n : EncodedBy(m, gs[k]) \in Seq(U)) /\ e \in Seq(U)
  BY <1>1, EncodedIn
<1>. HIDE DEF n, d, U, e
<1>3. s \in Seq(Seq(U)) /\ Len(s) = n /\ \A k \in 1..n : s[k] = EncodedBy(m, gs[k])
  BY <1>1, <1>2
<1>4. t = Append(s, e)
  <2>1. t = [k \in 1..(n + 1) |-> IF k <= n THEN EncodedBy(m, gs[k]) ELSE e]
    <3>1. t = [k \in 1..(n + 1) |-> EncodedBy(m, d[k])]
      BY <1>1 DEF d
    <3>2. \A k \in 1..(n + 1) : EncodedBy(m, d[k]) = IF k <= n THEN EncodedBy(m, gs[k]) ELSE e
      <4>1. \A k \in 1..(n + 1) : k \in 1..n \/ (k = n + 1 /\ ~(k <= n))
        BY <1>1
      <4>2. \A k \in 1..n : k <= n
        BY <1>1
      <4>. QED BY <1>1, <4>1, <4>2 DEF e
    <3>. HIDE DEF t
    <3>. QED BY <3>1, <3>2
  <2>2. Append(s, e) = [k \in 1..(n + 1) |-> IF k <= n THEN s[k] ELSE e]
    <3>1. /\ Append(s, e) \in Seq(Seq(U)) /\ Len(Append(s, e)) = n + 1
          /\ (\A k \in 1..n : Append(s, e)[k] = s[k]) /\ Append(s, e)[n + 1] = e
      BY <1>2, <1>3, AppendProperties
    <3>2. Append(s, e) = [k \in 1..(n + 1) |-> Append(s, e)[k]]
      BY <1>1, <3>1
    <3>3. \A k \in 1..(n + 1) : Append(s, e)[k] = IF k <= n THEN s[k] ELSE e
      <4>1. \A k \in 1..(n + 1) : (k \in 1..n /\ k <= n) \/ (k = n + 1 /\ ~(k <= n))
        BY <1>1
      <4>. HIDE DEF s
      <4>. QED BY <3>1, <4>1
    <3>. DEFINE x == Append(s, e)
    <3>. HIDE DEF s, x
    <3>. QED BY <3>2, <3>3 DEF x
  <2>3. \A k \in 1..(n + 1) : k <= n => k \in 1..n
    BY <1>1
  <2>. HIDE DEF s, t
  <2>. QED BY <1>3, <2>1, <2>2, <2>3
<1>. HIDE DEF s, t
<1>5. FlattenSeq(s) \in Seq(U) /\ FlattenSeq(Append(s, e)) = FlattenSeq(s) \o e
  BY <1>2, <1>3, FlattenAppend
<1>6. Coded(m, gs) = FlattenSeq(s) /\ Coded(m, Append(gs, g)) = FlattenSeq(t)
  BY DEF Coded, s, t
<1>. QED BY <1>4, <1>5, <1>6 DEF e, U

\* What comes out of an encoder are its units.
LEMMA CodedIn ==
  ASSUME NEW m \in AllMethods, NEW gs \in Seq(Parts(m))
  PROVE  Coded(m, gs) \in Seq(OutOf(m))
<1>. DEFINE T == {s \in Seq(Parts(m)) : Coded(m, s) \in Seq(OutOf(m))}
<1>1. <<>> \in T
  <2>1. <<>> \in Seq(Parts(m)) /\ <<>> \in Seq(OutOf(m))
    OBVIOUS
  <2>. QED BY <2>1, CodedEmpty
<1>2. ASSUME NEW s \in Seq(Parts(m)), NEW e \in Parts(m), s \in T PROVE Append(s, e) \in T
  <2>1. Append(s, e) \in Seq(Parts(m))
    OBVIOUS
  <2>2. Coded(m, s) \in Seq(OutOf(m)) /\ EncodedBy(m, e) \in Seq(OutOf(m))
        /\ Coded(m, Append(s, e)) = Coded(m, s) \o EncodedBy(m, e)
    BY CodedAppend, EncodedIn
  <2>. QED BY <2>1, <2>2, ConcatProperties
<1>3. Seq(Parts(m)) \subseteq T
  <2>. HIDE DEF T
  <2>. QED BY <1>1, <1>2, SeqInduction
<1>. QED BY <1>3

\* Two rows of groups are coded one after the other.
LEMMA CodedConcat ==
  ASSUME NEW m \in AllMethods, NEW gs \in Seq(Parts(m)), NEW hs \in Seq(Parts(m))
  PROVE  Coded(m, gs \o hs) = Coded(m, gs) \o Coded(m, hs)
<1>. DEFINE C == Parts(m)
            U == OutOf(m)
            T == {r \in Seq(C) : Coded(m, gs \o r) = Coded(m, gs) \o Coded(m, r)}
<1>1. Coded(m, gs) \in Seq(U)
  BY CodedIn
<1>2. <<>> \in T
  <2>1. gs \o <<>> = gs /\ Coded(m, gs) \o <<>> = Coded(m, gs)
    BY <1>1, ConcatEmptySeq
  <2>2. <<>> \in Seq(C)
    OBVIOUS
  <2>. QED BY <2>1, <2>2, CodedEmpty
<1>3. ASSUME NEW r \in Seq(C), NEW e \in C, r \in T PROVE Append(r, e) \in T
  <2>. HIDE DEF C, U
  <2>0. gs \in Seq(C)
    BY DEF C
  <2>1. gs \o Append(r, e) = Append(gs \o r, e) /\ gs \o r \in Seq(C) /\ Append(r, e) \in Seq(C)
    BY <2>0, AppendBehind
  <2>. DEFINE a == Coded(m, gs)
              b == Coded(m, r)
              d == EncodedBy(m, e)
  <2>2. Coded(m, Append(gs \o r, e)) = Coded(m, gs \o r) \o d
    BY <2>1, CodedAppend DEF C
  <2>3. Coded(m, Append(r, e)) = b \o d /\ b \in Seq(U) /\ d \in Seq(U) /\ a \in Seq(U)
    BY <1>1, CodedAppend, EncodedIn DEF C, U
  <2>4. Coded(m, gs \o r) = a \o b
    BY <1>3
  <2>. HIDE DEF a, b, d
  <2>5. (a \o b) \o d = a \o (b \o d)
    <3>1. Associates(a, b, d)
      BY <2>3, Associate
    <3>. QED BY <3>1 DEF Associates
  <2>6. Coded(m, gs \o Append(r, e)) = a \o Coded(m, Append(r, e))
    BY <2>1, <2>2, <2>3, <2>4, <2>5
  <2>. QED BY <2>1, <2>6 DEF a
<1>4. Seq(C) \subseteq T
  <2>. HIDE DEF T, C
  <2>. QED BY <1>2, <1>3, SeqInduction
<1>. QED BY <1>4

\* One group.
LEMMA CodedOne ==
  ASSUME NEW m \in AllMethods, NEW g \in Parts(m)
  PROVE  <<g>> \in Seq(Parts(m)) /\ Coded(m, <<g>>) = EncodedBy(m, g)
<1>1. <<>> \in Seq(Parts(m)) /\ Append(<<>>, g) = <<g>> /\ <<g>> \in Seq(Parts(m))
  OBVIOUS
<1>2. EncodedBy(m, g) \in Seq(OutOf(m))
  BY EncodedIn
<1>3. Coded(m, Append(<<>>, g)) = Coded(m, <<>>) \o EncodedBy(m, g)
  BY <1>1, CodedAppend
<1>4. <<>> \o EncodedBy(m, g) = EncodedBy(m, g)
  BY <1>2, ConcatEmptySeq
<1>. QED BY <1>1, <1>3, <1>4, CodedEmpty

\* The calls of a frame.
LEMMA FrameCalls ==
  ASSUME NEW p \in Seq(Plain), NEW m \in Framed
  PROVE  /\ write_frame(p) \in Seq(DataCalls(Plain)) /\ Len(write_frame(p)) = 3
         /\ Bytes(write_frame(p)) = EncodedBy(m, p)
<1>. DEFINE h == FrameHeader(Len(p) + 1)
            a == Write(<<h[1]>>)
            b == Write(<<h[2]>>)
            c == Write(Append(p, EndMark))
            C == DataCalls(Plain)
<1>1. h[1] \in Plain /\ h[2] \in Plain /\ h = <<h[1], h[2]>>
  <2>1. Len(p) + 1 \in Nat
    OBVIOUS
  <2>. QED BY <2>1, PlainUnits
<1>2. /\ <<h[1]>> \in Seq(Plain) \ {<<>>} /\ <<h[2]>> \in Seq(Plain) \ {<<>>}
      /\ Append(p, EndMark) \in Seq(Plain) \ {<<>>}
  <2>1. Append(p, EndMark) \in Seq(Plain) \ {<<>>}
    BY PlainUnits, AppendProperties
  <2>2. \A x \in Plain : <<x>> \in Seq(Plain) \ {<<>>}
    OBVIOUS
  <2>. QED BY <1>1, <2>1, <2>2
<1>3. a \in C /\ b \in C /\ c \in C /\ a.buf = <<h[1]>> /\ b.buf = <<h[2]>> /\ c.buf = Append(p, EndMark)
  BY <1>2, CallKinds, Zenon
<1>4. write_frame(p) = <<a, b, c>>
  BY DEF write_frame
<1>5. EncodedBy(m, p) = h \o Append(p, EndMark)
  BY EncodedIs
<1>. HIDE DEF a, b, c, h
<1>6. <<a, b, c>> \in Seq(C) /\ Len(<<a, b, c>>) = 3
  BY <1>3
<1>7. <<a, b, c>> = Append(Append(<<a>>, b), c) /\ <<a>> \in Seq(C) /\ Append(<<a>>, b) \in Seq(C)
  BY <1>3
<1>. HIDE DEF C
<1>8. Bytes(<<a, b, c>>) = (<<h[1]>> \o <<h[2]>>) \o Append(p, EndMark)
  <2>1. C \subseteq AnyCalls(Plain)
    BY CallKinds DEF C
  <2>2. <<a>> \in Seq(AnyCalls(Plain)) /\ Append(<<a>>, b) \in Seq(AnyCalls(Plain))
    BY <1>7, <2>1, SeqMonotonic
  <2>3. Bytes(<<a>>) = <<h[1]>>
    BY <1>3, <2>1, BytesOne
  <2>4. Bytes(Append(<<a>>, b)) = <<h[1]>> \o <<h[2]>>
    BY <1>3, <2>1, <2>2, <2>3, BytesAppend
  <2>5. Bytes(Append(Append(<<a>>, b), c)) = (<<h[1]>> \o <<h[2]>>) \o Append(p, EndMark)
    BY <1>3, <2>1, <2>2, <2>4, BytesAppend
  <2>. QED BY <1>7, <2>5
<1>9. <<h[1]>> \o <<h[2]>> = h
  BY <1>1
<1>. QED BY <1>4, <1>5, <1>6, <1>8, <1>9 DEF C

\* What a call is for each method.
LEMMA CallOf ==
  ASSUME NEW m, NEW e, NEW c
  PROVE  /\ m = "COPY" => Call(m, e, c) = Passes(e, c)
         /\ m \in Swaps =>
              /\ c = Flush => Call(m, e, c) = Passes(e, c)
              /\ c = Finish => Call(m, e, c) = SwapFinish(e)
              /\ c # Flush /\ c # Finish => Call(m, e, c) = SwapWrite(m, e, c.buf)
         /\ m \in Framed =>
              /\ c = Flush => Call(m, e, c) = FramedFlush(m, e)
              /\ c = Finish => Call(m, e, c) = FramedFinish(m, e)
              /\ c # Flush /\ c # Finish => Call(m, e, c) = FramedWrite(e, c.buf)
         /\ m = "AES" =>
              /\ c = Flush => Call(m, e, c) = Step(e, e.held, <<>>)
              /\ c = Finish => Call(m, e, c) = AesFinish(e)
              /\ c # Flush /\ c # Finish =>
                   Call(m, e, c) = IF e.finished THEN Step(e, e.held, <<>>) ELSE AesWrite(e, c.buf)
<1>0. Flush # Finish
  BY CallKinds
<1>1. CASE m = "COPY"
  <2>1. m \notin Swaps /\ m \notin Framed /\ m # "AES"
    BY <1>1 DEF Swaps, Framed
  <2>. QED BY <1>1, <2>1, Zenon DEF Call
<1>2. CASE m \in Swaps
  <2>1. m # "COPY" /\ m \notin Framed /\ m # "AES" /\ m \in {"SWAP2", "SWAP4"} /\ m \notin {"LZ4", "BROTLI"}
    BY <1>2 DEF Swaps, Framed
  <2>2. Call(m, e, c) = (CASE c = Flush -> Passes(e, c)
            [] c = Finish -> SwapFinish(e)
            [] OTHER -> SwapWrite(m, e, c.buf))
    BY <2>1, Zenon DEF Call
  <2>. QED BY <1>0, <2>1, <2>2, Zenon
<1>3. CASE m \in Framed
  <2>1. m # "COPY" /\ m \notin Swaps /\ m # "AES" /\ m \notin {"SWAP2", "SWAP4"} /\ m \in {"LZ4", "BROTLI"}
    BY <1>3 DEF Swaps, Framed
  <2>2. Call(m, e, c) = (CASE c = Flush -> FramedFlush(m, e)
            [] c = Finish -> FramedFinish(m, e)
            [] OTHER -> FramedWrite(e, c.buf))
    BY <2>1, Zenon DEF Call
  <2>. QED BY <1>0, <2>1, <2>2, Zenon
<1>4. CASE m = "AES"
  <2>1. m # "COPY" /\ m \notin Swaps /\ m \notin Framed /\ m \notin {"SWAP2", "SWAP4"} /\ m \notin {"LZ4", "BROTLI"}
    BY <1>4 DEF Swaps, Framed
  <2>2. Call(m, e, c) = (CASE c = Flush \/ (e.finished /\ c # Finish) -> Step(e, e.held, <<>>)
            [] c = Finish -> AesFinish(e)
            [] OTHER -> AesWrite(e, c.buf))
    BY <1>4, <2>1, Zenon DEF Call
  <2>. QED BY <1>0, <1>4, <2>1, <2>2, Zenon
<1>. QED BY <1>1, <1>2, <1>3, <1>4

\* An encoder that keeps h.
Holding(e, h) == [e EXCEPT !.held = h]

\* What an encoder keeps after a call.
LEMMA StepIs ==
  ASSUME NEW m, NEW e \in Encs(m), NEW h \in Seq(Plain), NEW cs, Len(h) < Full(m)
  PROVE  /\ Step(e, h, cs).calls = cs
         /\ Step(e, h, cs).enc = Holding(e, h)
         /\ Step(e, h, cs).enc \in Encs(m)
         /\ Step(e, h, cs).enc.taken = e.taken
         /\ e.held \in Seq(Plain) /\ Len(e.held) < Full(m)
         /\ h = e.held => Step(e, h, cs).enc = e
<1>1. Step(e, h, cs).calls = cs /\ Step(e, h, cs).enc = [e EXCEPT !.held = h]
  BY DEF Step
<1>. DEFINE n == Full(m)
<1>. HIDE DEF n
<1>2. /\ [e EXCEPT !.held = h] \in Encs(m) /\ [e EXCEPT !.held = h].taken = e.taken
      /\ e.held \in Seq(Plain) /\ Len(e.held) < n
      /\ h = e.held => [e EXCEPT !.held = h] = e
  BY DEF Encs, n
<1>. QED BY <1>1, <1>2 DEF n, Holding

\* A write of each group that an encoder of units or blocks has.
LEMMA GroupWrites ==
  ASSUME NEW m \in AllMethods \ Framed, NEW gs \in Seq(Parts(m)), NEW cs,
         cs = [g \in 1..Len(gs) |-> Write(EncodedBy(m, gs[g]))]
  PROVE  /\ cs \in Seq(DataCalls(OutOf(m)))
         /\ Bytes(cs) = Coded(m, gs)
<1>. DEFINE n == Len(gs)
            U == OutOf(m)
<1>1. n \in Nat /\ DOMAIN gs = 1..n /\ \A g \in 1..n : gs[g] \in Parts(m)
  OBVIOUS
<1>2. \A p \in Parts(m) : EncodedBy(m, p) \in Seq(U) \ {<<>>}
  <2>1. ASSUME NEW p \in Parts(m) PROVE EncodedBy(m, p) # <<>>
    <3>1. Full(m) \in Nat \ {0} /\ p \in Blocks(Full(m), Plain)
      BY FullPositive DEF Parts
    <3>2. p \in Seq(Plain) /\ Len(p) = Full(m)
      BY <3>1, GroupsAreSeqs
    <3>3. CASE m = "COPY"
      BY <3>1, <3>2, <3>3, EncodedIs
    <3>4. CASE m \in Swaps
      <4>1. Len(Reverse(p)) = Len(p)
        BY <3>2, Reversed
      <4>2. Reverse(p) # <<>>
        BY <3>1, <3>2, <4>1
      <4>. QED BY <3>4, <4>2, EncodedIs
    <3>5. CASE m = "AES"
      <4>1. AesBlock \in Nat \ {0}
        BY EncoderAssumption
      <4>2. Encrypt(p) # <<>>
        BY <4>1 DEF Encrypt
      <4>. QED BY <3>5, <4>2, EncodedIs
    <3>. QED BY <3>3, <3>4, <3>5 DEF AllMethods, Framed, Swaps
  <2>2. \A p \in Parts(m) : EncodedBy(m, p) \in Seq(U)
    BY EncodedIn
  <2>. QED BY <2>1, <2>2
<1>. HIDE DEF n, U
<1>3. \A g \in 1..n : /\ Write(EncodedBy(m, gs[g])) \in DataCalls(U)
                      /\ Write(EncodedBy(m, gs[g])).buf = EncodedBy(m, gs[g])
  BY <1>1, <1>2, CallKinds
<1>4. cs \in Seq(DataCalls(U)) /\ DOMAIN cs = 1..n /\ \A g \in 1..n : cs[g].buf = EncodedBy(m, gs[g])
  BY <1>1, <1>3 DEF n
<1>5. [k \in DOMAIN cs |-> cs[k].buf] = [k \in DOMAIN gs |-> EncodedBy(m, gs[k])]
  BY <1>1, <1>4
<1>. QED BY <1>4, <1>5 DEF Bytes, Coded, U

\* The writes of frames.
Frames(gs) == FlattenSeq([g \in 1..Len(gs) |-> write_frame(gs[g])])

\* The writes of frames carry the coded frames.
LEMMA FramesWrites ==
  ASSUME NEW m \in Framed, NEW gs \in Seq(Seq(Plain))
  PROVE  /\ Frames(gs) \in Seq(DataCalls(Plain))
         /\ Bytes(Frames(gs)) = Coded(m, gs)
<1>. DEFINE P == Seq(Plain)
            D == DataCalls(Plain)
            T == {s \in Seq(P) : Frames(s) \in Seq(D) /\ Bytes(Frames(s)) = Coded(m, s)}
<1>0. /\ m \in AllMethods /\ Parts(m) = P /\ OutOf(m) = Plain
      /\ \A s \in Seq(D) : s \in Seq(AnyCalls(Plain))
  <2>1. D \subseteq AnyCalls(Plain)
    BY CallKinds
  <2>2. \A s \in Seq(D) : s \in Seq(AnyCalls(Plain))
    BY <2>1, SeqMonotonic
  <2>. QED BY <2>2 DEF AllMethods, Framed, Parts, OutOf
<1>1. <<>> \in T
  <2>1. [g \in 1..Len(<<>>) |-> write_frame(<<>>[g])] = <<>> /\ <<>> \in Seq(P) /\ <<>> \in Seq(D)
    OBVIOUS
  <2>2. Frames(<<>>) = <<>>
    BY <2>1, FlattenEmpty, Zenon DEF Frames
  <2>. QED BY <2>1, <2>2, CodedEmpty, BytesEmpty
<1>2. ASSUME NEW s \in Seq(P), NEW p \in P, s \in T PROVE Append(s, p) \in T
  <2>. DEFINE n == Len(s)
              d == Append(s, p)
              u == [g \in 1..n |-> write_frame(s[g])]
              v == [g \in 1..Len(d) |-> write_frame(d[g])]
              w == write_frame(p)
  <2>1. n \in Nat /\ Len(d) = n + 1 /\ d \in Seq(P) /\ d[n + 1] = p
        /\ \A g \in 1..n : d[g] = s[g] /\ s[g] \in P
    BY AppendProperties
  <2>2. w \in Seq(D) /\ Bytes(w) = EncodedBy(m, p) /\ \A g \in 1..n : write_frame(s[g]) \in Seq(D)
    BY <2>1, FrameCalls
  <2>3. v = Append(u, w) /\ u \in Seq(Seq(D))
    <3>. HIDE DEF n, d, D, P
    <3>1. v = [g \in 1..(n + 1) |-> write_frame(d[g])]
      BY <2>1
    <3>. HIDE DEF w
    <3>2. \A g \in 1..(n + 1) : (g \in 1..n /\ g <= n) \/ (g = n + 1 /\ ~(g <= n))
      BY <2>1
    <3>3. u \in Seq(Seq(D)) /\ Len(u) = n
      BY <2>1, <2>2
    <3>4. /\ Append(u, w) \in Seq(Seq(D)) /\ Len(Append(u, w)) = n + 1
          /\ (\A k \in 1..n : Append(u, w)[k] = u[k]) /\ Append(u, w)[n + 1] = w
      <4>. HIDE DEF u
      <4>. QED BY <2>2, <3>3, AppendProperties
    <3>5. \A g \in 1..(n + 1) : Append(u, w)[g] = write_frame(d[g])
      BY <2>1, <3>2, <3>4 DEF w
    <3>6. Append(u, w) = [g \in 1..(n + 1) |-> Append(u, w)[g]]
      BY <2>1, <3>4
    <3>. DEFINE x == Append(u, w)
    <3>7. v = x
      <4>. HIDE DEF x, u, v
      <4>. QED BY <3>1, <3>5, <3>6 DEF x
    <3>. QED BY <3>3, <3>7
  <2>4. Frames(d) = Frames(s) \o w
    <3>. HIDE DEF u, v, w, n, d, D
    <3>1. FlattenSeq(v) = FlattenSeq(u) \o w
      BY <2>2, <2>3, FlattenAppend
    <3>2. Frames(d) = FlattenSeq(v) /\ Frames(s) = FlattenSeq(u)
      BY DEF Frames, u, v, n
    <3>. QED BY <3>1, <3>2
  <2>. HIDE DEF u, v, w, n, D, P
  <2>5. Frames(s) \in Seq(D) /\ Bytes(Frames(s)) = Coded(m, s)
    BY <1>2
  <2>6. Frames(s) \o w \in Seq(D)
    BY <2>2, <2>5, ConcatProperties
  <2>7. Bytes(Frames(s) \o w) = Bytes(Frames(s)) \o Bytes(w)
    BY <1>0, <2>2, <2>5, BytesConcat
  <2>8. Coded(m, d) = Coded(m, s) \o EncodedBy(m, p)
    BY <1>0, CodedAppend DEF d
  <2>. QED BY <2>1, <2>2, <2>4, <2>5, <2>6, <2>7, <2>8
<1>3. Seq(P) \subseteq T
  <2>. HIDE DEF T
  <2>. QED BY <1>1, <1>2, SeqInduction
<1>. QED BY <1>3

\* A write of data fills up groups, and passes each on when it is full.
LEMMA WriteCall ==
  ASSUME NEW m \in AllMethods, NEW e \in Encs(m), NEW c \in DataCalls(Plain), NEW all,
         ~e.finished, all = e.held \o c.buf
  PROVE  /\ Call(m, e, c).enc = Holding(e, Rest(all, Full(m)))
         /\ Call(m, e, c).calls \in Seq(DataCalls(OutOf(m)))
         /\ Bytes(Call(m, e, c).calls) = Coded(m, Groups(all, Full(m)))
         /\ Groups(all, Full(m)) \in Seq(Parts(m))
<1>. DEFINE n == Full(m)
            gs == Groups(all, n)
<1>1. n \in Nat \ {0}
  BY FullPositive
<1>2. e.held \in Seq(Plain) /\ Len(e.held) < n /\ c.buf \in Seq(Plain) /\ c # Flush /\ c # Finish
      /\ c = Write(c.buf)
  BY CallKinds DEF Encs
<1>3. all \in Seq(Plain) /\ Len(all) \in Nat
  <2>. DEFINE a == e.held
              b == c.buf
  <2>1. a \in Seq(Plain) /\ b \in Seq(Plain)
    BY <1>2
  <2>. HIDE DEF a, b
  <2>2. a \o b \in Seq(Plain)
    BY <2>1, ConcatProperties
  <2>3. all \in Seq(Plain)
    BY <2>2 DEF a, b
  <2>. QED BY <2>3, LenProperties
<1>4. gs \in Seq(Blocks(n, Plain)) /\ Rest(all, n) \in Seq(Plain) /\ Len(Rest(all, n)) < n
      /\ FlattenSeq(gs) \o Rest(all, n) = all
  BY <1>1, <1>3, GroupsParts
<1>5. Len(gs) = Len(all) \div n
  <2>. DEFINE q == Len(all) \div n
  <2>1. q \in Nat
    BY <1>1, <1>3, Division
  <2>2. gs = [g \in 1..q |-> SubSeq(all, n * (g - 1) + 1, n * g)]
    BY DEF Groups
  <2>. DEFINE f == [g \in 1..q |-> SubSeq(all, n * (g - 1) + 1, n * g)]
  <2>3. Len(f) = q
    <3>. HIDE DEF q
    <3>. QED BY <2>1
  <2>. QED BY <2>2, <2>3
<1>6. gs \in Seq(Parts(m))
  <2>1. Seq(Blocks(n, Plain)) \subseteq Seq(Seq(Plain))
    BY <1>1, GroupsAreSeqs
  <2>. QED BY <1>4, <2>1 DEF Parts
<1>. HIDE DEF n
<1>7. CASE m = "COPY"
  <2>1. n = 1
    BY <1>7 DEF n, Full
  <2>2. e.held = <<>> /\ Rest(all, n) = <<>>
    BY <1>2, <1>4, <2>1
  <2>3. all = c.buf
    BY <1>2, <2>2, ConcatEmptySeq
  <2>4. FlattenSeq(gs) = c.buf
    <3>1. gs \in Seq(Seq(Plain))
      BY <1>1, <1>4, GroupsAreSeqs
    <3>2. FlattenSeq(gs) \in Seq(Plain)
      BY <3>1, FlattenIn
    <3>. HIDE DEF gs
    <3>. QED BY <1>4, <2>2, <2>3, <3>2, ConcatEmptySeq
  <2>5. Coded(m, gs) = FlattenSeq(gs)
    <3>1. \A k \in DOMAIN gs : EncodedBy(m, gs[k]) = gs[k]
      BY <1>7, EncodedIs
    <3>2. [k \in DOMAIN gs |-> EncodedBy(m, gs[k])] = [k \in DOMAIN gs |-> gs[k]]
      BY <3>1
    <3>3. [k \in DOMAIN gs |-> gs[k]] = gs
      BY <1>4
    <3>. QED BY <3>2, <3>3 DEF Coded
  <2>6. Call(m, e, c) = Step(e, e.held, <<c>>) /\ OutOf(m) = Plain
    BY <1>7, CallOf, EncodedIs DEF Passes
  <2>7. <<c>> \in Seq(DataCalls(Plain)) /\ Bytes(<<c>>) = c.buf
    <3>1. c \in AnyCalls(Plain)
      BY CallKinds
    <3>2. <<c>> \in Seq(DataCalls(Plain))
      OBVIOUS
    <3>. QED BY <3>1, <3>2, BytesOne
  <2>8. Step(e, e.held, <<c>>).calls = <<c>> /\ Step(e, e.held, <<c>>).enc = [e EXCEPT !.held = e.held]
    BY DEF Step
  <2>. HIDE DEF gs
  <2>. QED BY <1>6, <2>2, <2>4, <2>5, <2>6, <2>7, <2>8 DEF n, gs, Holding
<1>8. CASE m \in Swaps \/ m = "AES"
  <2>. DEFINE cs == [g \in 1..Len(gs) |-> Write(EncodedBy(m, gs[g]))]
  <2>1. m \in AllMethods \ Framed
    BY <1>8 DEF AllMethods, Framed, Swaps
  <2>2. cs \in Seq(DataCalls(OutOf(m))) /\ Bytes(cs) = Coded(m, gs)
    <3>. HIDE DEF gs
    <3>. QED BY <1>6, <2>1, GroupWrites
  <2>3. Call(m, e, c) = Step(e, Rest(all, n), cs)
    <3>1. CASE m \in Swaps
      <4>1. n = Unit(m) /\ \A g \in 1..Len(gs) : Write(EncodedBy(m, gs[g])) = Write(Reverse(gs[g]))
        BY <3>1, EncodedIs DEF n, Full, Swaps
      <4>2. Call(m, e, c) = SwapWrite(m, e, c.buf)
        BY <1>2, <3>1, CallOf
      <4>. DEFINE x == [g \in 1..(Len(all) \div n) |-> Write(Reverse(gs[g]))]
      <4>3. SwapWrite(m, e, c.buf) = Step(e, Rest(all, n), x)
        BY <4>1, Zenon DEF SwapWrite, gs
      <4>4. x = cs
        <5>. HIDE DEF gs
        <5>. QED BY <1>5, <4>1
      <4>. QED BY <4>2, <4>3, <4>4
    <3>2. CASE m = "AES"
      <4>1. n = AesBlock /\ \A g \in 1..Len(gs) : Write(EncodedBy(m, gs[g])) = Write(Encrypt(gs[g]))
        BY <3>2, EncodedIs DEF n, Full, Swaps
      <4>2. Call(m, e, c) = AesWrite(e, c.buf)
        BY <1>2, <3>2, CallOf
      <4>. DEFINE x == [g \in 1..(Len(all) \div n) |-> Write(Encrypt(gs[g]))]
      <4>3. AesWrite(e, c.buf) = Step(e, Rest(all, n), x)
        BY <4>1, Zenon DEF AesWrite, gs
      <4>4. x = cs
        <5>. HIDE DEF gs
        <5>. QED BY <1>5, <4>1
      <4>. QED BY <4>2, <4>3, <4>4
    <3>. QED BY <1>8, <3>1, <3>2
  <2>4. Step(e, Rest(all, n), cs).calls = cs /\ Step(e, Rest(all, n), cs).enc = [e EXCEPT !.held = Rest(all, n)]
    BY DEF Step
  <2>. HIDE DEF gs, cs
  <2>. QED BY <1>6, <2>2, <2>3, <2>4 DEF n, gs, Holding
<1>9. CASE m \in Framed
  <2>1. n = FrameSize /\ OutOf(m) = Plain
    BY <1>9, EncodedIs DEF n, Full, Framed
  <2>2. gs \in Seq(Seq(Plain))
    BY <1>6, <1>9 DEF Parts
  <2>3. Frames(gs) \in Seq(DataCalls(Plain)) /\ Bytes(Frames(gs)) = Coded(m, gs)
    <3>. HIDE DEF gs
    <3>. QED BY <1>9, <2>2, FramesWrites
  <2>4. Call(m, e, c) = FramedWrite(e, c.buf)
    BY <1>2, <1>9, CallOf
  <2>. DEFINE x == [g \in 1..(Len(all) \div n) |-> write_frame(gs[g])]
  <2>5. FramedWrite(e, c.buf) = Step(e, Rest(all, n), FlattenSeq(x))
    BY <2>1, Zenon DEF FramedWrite, gs
  <2>6. FlattenSeq(x) = Frames(gs)
    <3>. HIDE DEF gs
    <3>. QED BY <1>5 DEF Frames
  <2>. DEFINE cs == FlattenSeq(x)
  <2>7. Step(e, Rest(all, n), cs).calls = cs /\ Step(e, Rest(all, n), cs).enc = [e EXCEPT !.held = Rest(all, n)]
    BY DEF Step
  <2>. HIDE DEF gs, cs, x
  <2>. QED BY <1>6, <2>1, <2>3, <2>4, <2>5, <2>6, <2>7 DEF n, gs, cs, Holding
<1>. QED BY <1>7, <1>8, <1>9 DEF AllMethods, Swaps, Framed

\* The calls an encoder makes when it is finished, or flushed.
SwapTail(e) == [i \in 1..Len(e.held) |-> Write(<<Reverse(e.held)[i]>>)]
AesTail(e) == IF e.held = <<>> THEN <<>> ELSE <<Write(Encrypt(Padded(e.held)))>>
LastParts(m, e) == IF m = "LZ4" /\ e.held = <<>> THEN <<>> ELSE <<e.held>>

\* A step that makes no calls.
LEMMA EmptyStep ==
  ASSUME NEW m \in AllMethods, NEW e \in Encs(m)
  PROVE  /\ <<>> \in Seq(Plain) /\ Len(<<>>) < Full(m)
         /\ e.held \in Seq(Plain) /\ Len(e.held) < Full(m) /\ Len(e.held) \in Nat
         /\ \A cs : Step(e, e.held, cs).enc = e /\ Step(e, e.held, cs).calls = cs
<1>1. Full(m) \in Nat \ {0}
  BY FullPositive
<1>2. e.held \in Seq(Plain) /\ Len(e.held) < Full(m)
  BY DEF Encs
<1>3. ASSUME NEW cs PROVE Step(e, e.held, cs).enc = e /\ Step(e, e.held, cs).calls = cs
  BY <1>2, StepIs
<1>4. <<>> \in Seq(Plain) /\ Len(<<>>) < Full(m)
  BY <1>1
<1>5. Len(e.held) \in Nat
  BY <1>2, LenProperties
<1>. QED BY <1>2, <1>3, <1>4, <1>5

\* What Swap2Writer and Swap4Writer write when they are finished.
LEMMA SwapTailIs ==
  ASSUME NEW e, e.held \in Seq(Plain)
  PROVE  /\ SwapTail(e) \in Seq(DataCalls(Plain)) /\ Len(SwapTail(e)) = Len(e.held)
         /\ Bytes(SwapTail(e)) = Reverse(e.held)
         /\ \A i \in 1..Len(e.held) : Len(SwapTail(e)[i].buf) = 1
<1>. DEFINE r == Reverse(e.held)
            n == Len(e.held)
            t == SwapTail(e)
<1>1. r \in Seq(Plain) /\ Len(r) = n /\ n \in Nat
  BY Reversed
<1>2. t = [i \in 1..n |-> Write(<<r[i]>>)]
  BY DEF SwapTail
<1>. HIDE DEF r, n, t
<1>3. \A i \in 1..n : r[i] \in Plain /\ <<r[i]>> \in Seq(Plain) \ {<<>>} /\ Len(<<r[i]>>) = 1
  BY <1>1
<1>4. \A i \in 1..n : Write(<<r[i]>>) \in DataCalls(Plain) /\ Write(<<r[i]>>).buf = <<r[i]>>
  BY <1>3, CallKinds
<1>5. t \in Seq(DataCalls(Plain)) /\ Len(t) = n /\ DOMAIN t = 1..n /\ \A i \in 1..n : t[i].buf = <<r[i]>>
  BY <1>1, <1>2, <1>4
<1>6. [k \in DOMAIN t |-> t[k].buf] = [k \in 1..n |-> <<r[k]>>]
  BY <1>5
<1>7. FlattenSeq([k \in 1..n |-> <<r[k]>>]) = r
  BY <1>1, FlattenUnits
<1>. QED BY <1>3, <1>5, <1>6, <1>7 DEF Bytes, r, n, t

\* What the AES encoder writes when it is finished.
LEMMA AesTailIs ==
  ASSUME NEW e, e.held \in Seq(Plain), Len(e.held) < AesBlock
  PROVE  /\ AesTail(e) \in Seq(DataCalls(Cipher))
         /\ Padded(e.held) \in Parts("AES")
         /\ Bytes(AesTail(e)) = Coded("AES", IF e.held = <<>> THEN <<>> ELSE <<Padded(e.held)>>)
<1>. DEFINE p == Padded(e.held)
<1>0. "AES" \in AllMethods \ Framed /\ OutOf("AES") = Cipher
  BY DEF AllMethods, Framed, OutOf
<1>1. p \in Parts("AES")
  <2>1. Parts("AES") = [1..AesBlock -> Plain]
    BY DEF Parts, Blocks, Full, Framed
  <2>2. \A i \in 1..AesBlock : (IF i <= Len(e.held) THEN e.held[i] ELSE ZeroByte) \in Plain
    BY PlainUnits, EncoderAssumption
  <2>. QED BY <2>1, <2>2 DEF Padded
<1>. DEFINE gs == IF e.held = <<>> THEN <<>> ELSE <<p>>
            cs == [g \in 1..Len(gs) |-> Write(EncodedBy("AES", gs[g]))]
<1>2. gs \in Seq(Parts("AES"))
  BY <1>1
<1>3. cs \in Seq(DataCalls(Cipher)) /\ Bytes(cs) = Coded("AES", gs)
  <2>. HIDE DEF gs
  <2>. QED BY <1>0, <1>2, GroupWrites
<1>4. AesTail(e) = cs
  <2>1. EncodedBy("AES", p) = Encrypt(p)
    BY EncodedIs
  <2>2. CASE e.held = <<>>
    BY <2>2 DEF AesTail
  <2>3. CASE e.held # <<>>
    <3>1. AesTail(e) = <<Write(Encrypt(p))>> /\ gs = <<p>>
      BY <2>3 DEF AesTail
    <3>2. [g \in 1..Len(<<p>>) |-> Write(EncodedBy("AES", <<p>>[g]))] = <<Write(EncodedBy("AES", p))>>
      OBVIOUS
    <3>. QED BY <2>1, <3>1, <3>2
  <2>. QED BY <2>2, <2>3
<1>. QED BY <1>1, <1>3, <1>4

\* The frame a flush of the LZ4 or Brotli encoder writes.
LEMMA LastFrameIs ==
  ASSUME NEW m \in Framed, NEW e, e.held \in Seq(Plain)
  PROVE  /\ LastFrame(m, e) \in Seq(DataCalls(Plain))
         /\ LastParts(m, e) \in Seq(Seq(Plain))
         /\ Bytes(LastFrame(m, e)) = Coded(m, LastParts(m, e))
<1>1. m \in AllMethods /\ Parts(m) = Seq(Plain)
  BY DEF AllMethods, Framed, Parts
<1>2. CASE m = "LZ4" /\ e.held = <<>>
  <2>1. LastFrame(m, e) = <<>> /\ LastParts(m, e) = <<>>
    BY <1>2 DEF LastFrame, LastParts
  <2>2. <<>> \in Seq(DataCalls(Plain)) /\ <<>> \in Seq(Seq(Plain))
    OBVIOUS
  <2>. QED BY <2>1, <2>2, BytesEmpty, CodedEmpty
<1>3. CASE ~(m = "LZ4" /\ e.held = <<>>)
  <2>1. LastFrame(m, e) = write_frame(e.held) /\ LastParts(m, e) = <<e.held>>
    BY <1>3, Zenon DEF LastFrame, LastParts
  <2>2. <<e.held>> \in Seq(Seq(Plain)) /\ Coded(m, <<e.held>>) = EncodedBy(m, e.held)
    BY <1>1, CodedOne
  <2>. QED BY <2>1, <2>2, FrameCalls
<1>. QED BY <1>2, <1>3

\* Flush and the empty write, for each method.
LEMMA EndCalls ==
  ASSUME NEW m \in AllMethods, NEW e \in Encs(m)
  PROVE  /\ m = "COPY" =>
              /\ Call(m, e, Flush) = [enc |-> e, calls |-> <<Flush>>]
              /\ Call(m, e, Finish) = [enc |-> e, calls |-> <<Finish>>]
         /\ m \in Swaps =>
              /\ Call(m, e, Flush) = [enc |-> e, calls |-> <<Flush>>]
              /\ Call(m, e, Finish) = Step(e, <<>>, SwapTail(e) \o <<Flush, Finish>>)
         /\ m \in Framed => Call(m, e, Flush) = Step(e, <<>>, LastFrame(m, e) \o <<Flush>>)
         /\ m = "LZ4" => Call(m, e, Finish) = Step(e, <<>>, LastFrame(m, e) \o <<Finish>>)
         /\ m = "BROTLI" => Call(m, e, Finish) = [enc |-> e, calls |-> <<>>]
         /\ m = "AES" =>
              /\ Call(m, e, Flush) = [enc |-> e, calls |-> <<>>]
              /\ Call(m, e, Finish) = Step([e EXCEPT !.finished = TRUE], <<>>, AesTail(e) \o <<Finish>>)
<1>1. ASSUME NEW cs PROVE Step(e, e.held, cs) = [enc |-> e, calls |-> cs]
  <2>1. Step(e, e.held, cs).enc = e
    BY EmptyStep
  <2>. QED BY <2>1 DEF Step
<1>2. CASE m = "COPY"
  <2>1. ASSUME NEW c PROVE Call(m, e, c) = [enc |-> e, calls |-> <<c>>]
    <3>1. Call(m, e, c) = Step(e, e.held, <<c>>)
      BY <1>2, CallOf DEF Passes
    <3>. QED BY <1>1, <3>1
  <2>2. m \notin Swaps /\ m \notin Framed /\ m # "AES" /\ m # "LZ4" /\ m # "BROTLI"
    BY <1>2 DEF Swaps, Framed
  <2>. QED BY <2>1, <2>2
<1>3. CASE m \in Swaps
  <2>1. Call(m, e, Flush) = [enc |-> e, calls |-> <<Flush>>]
    <3>1. Call(m, e, Flush) = Passes(e, Flush)
      BY <1>3, CallOf, Zenon
    <3>. QED BY <1>1, <3>1 DEF Passes
  <2>2. Call(m, e, Finish) = Step(e, <<>>, SwapTail(e) \o <<Flush, Finish>>)
    BY <1>3, CallOf, Zenon DEF SwapFinish, SwapTail
  <2>3. m # "COPY" /\ m \notin Framed /\ m # "AES" /\ m # "LZ4" /\ m # "BROTLI"
    BY <1>3 DEF Swaps, Framed
  <2>. QED BY <1>3, <2>1, <2>2, <2>3
<1>4. CASE m \in Framed
  <2>1. Call(m, e, Flush) = Step(e, <<>>, LastFrame(m, e) \o <<Flush>>)
    BY <1>4, CallOf, Zenon DEF FramedFlush
  <2>0. Call(m, e, Finish) = FramedFinish(m, e)
    BY <1>4, CallOf, Zenon
  <2>2. m = "LZ4" => Call(m, e, Finish) = Step(e, <<>>, LastFrame(m, e) \o <<Finish>>)
    BY <2>0, Zenon DEF FramedFinish
  <2>3. m # "COPY" /\ m \notin Swaps /\ m # "AES"
    BY <1>4 DEF Swaps, Framed
  <2>4. m = "BROTLI" => Call(m, e, Finish) = [enc |-> e, calls |-> <<>>]
    <3>1. "BROTLI" # "LZ4"
      OBVIOUS
    <3>2. m = "BROTLI" => Call(m, e, Finish) = Step(e, e.held, <<>>)
      BY <2>0, <3>1, Zenon DEF FramedFinish
    <3>. QED BY <1>1, <3>2
  <2>. QED BY <1>4, <2>1, <2>2, <2>3, <2>4
<1>5. CASE m = "AES"
  <2>1. Call(m, e, Flush) = [enc |-> e, calls |-> <<>>]
    BY <1>1, <1>5, CallOf
  <2>2. Call(m, e, Finish) = Step([e EXCEPT !.finished = TRUE], <<>>, AesTail(e) \o <<Finish>>)
    BY <1>5, CallOf, Zenon DEF AesFinish, AesTail
  <2>3. m # "COPY" /\ m \notin Swaps /\ m \notin Framed /\ m # "LZ4" /\ m # "BROTLI"
    BY <1>5 DEF Swaps, Framed
  <2>. QED BY <1>5, <2>1, <2>2, <2>3
<1>. QED BY <1>2, <1>3, <1>4, <1>5 DEF AllMethods, Swaps, Framed

\* Any call leaves an encoder, and makes calls.
LEMMA CallTypes ==
  ASSUME NEW m \in AllMethods, NEW e \in Encs(m), NEW c \in AnyCalls(Plain)
  PROVE  /\ Call(m, e, c).enc \in Encs(m)
         /\ Call(m, e, c).enc.taken = e.taken
         /\ Call(m, e, c).calls \in Seq(AnyCalls(OutOf(m)))
<1>. DEFINE r == Call(m, e, c)
            U == OutOf(m)
            C == AnyCalls(U)
<1>1. /\ Flush \in C /\ Finish \in C
      /\ \A s \in Seq(DataCalls(U)) : s \in Seq(C)
      /\ <<>> \in Seq(C) /\ <<Flush>> \in Seq(C) /\ <<Finish>> \in Seq(C) /\ <<Flush, Finish>> \in Seq(C)
  <2>1. DataCalls(U) \subseteq C /\ Flush \in C /\ Finish \in C
    BY CallKinds
  <2>. HIDE DEF C
  <2>2. \A s \in Seq(DataCalls(U)) : s \in Seq(C)
    BY <2>1, SeqMonotonic
  <2>. QED BY <2>1, <2>2
<1>2. \A s \in Seq(C), t \in Seq(C) : s \o t \in Seq(C)
  BY ConcatProperties
<1>3. /\ <<>> \in Seq(Plain) /\ Len(<<>>) < Full(m) /\ e.held \in Seq(Plain) /\ Len(e.held) < Full(m)
      /\ \A cs : /\ Step(e, <<>>, cs).enc \in Encs(m) /\ Step(e, <<>>, cs).enc.taken = e.taken
                 /\ Step(e, <<>>, cs).calls = cs
  <2>1. <<>> \in Seq(Plain) /\ Len(<<>>) < Full(m) /\ e.held \in Seq(Plain) /\ Len(e.held) < Full(m)
    BY EmptyStep
  <2>. DEFINE h == <<>>
  <2>2. h \in Seq(Plain) /\ Len(h) < Full(m)
    BY <2>1
  <2>. HIDE DEF h
  <2>3. \A cs : /\ Step(e, h, cs).enc \in Encs(m) /\ Step(e, h, cs).enc.taken = e.taken
               /\ Step(e, h, cs).calls = cs
    BY <2>2, StepIs
  <2>. QED BY <2>1, <2>3 DEF h
<1>. HIDE DEF C, U
<1>4. CASE c = Flush
  <2>1. m \in Framed => LastFrame(m, e) \o <<Flush>> \in Seq(C)
    <3>1. m \in Framed => LastFrame(m, e) \in Seq(DataCalls(U))
      BY <1>3, LastFrameIs, EncodedIs DEF U
    <3>. QED BY <1>1, <1>2, <3>1
  <2>2. CASE m \in Framed
    <3>1. r = Step(e, <<>>, LastFrame(m, e) \o <<Flush>>)
      BY <1>4, <2>2, EndCalls
    <3>2. r.enc \in Encs(m) /\ r.enc.taken = e.taken /\ r.calls \in Seq(C)
      BY <1>3, <2>1, <2>2, <3>1
    <3>. QED BY <3>2 DEF C, U
  <2>3. CASE m \notin Framed
    <3>1. r = [enc |-> e, calls |-> <<Flush>>] \/ r = [enc |-> e, calls |-> <<>>]
      <4>1. m = "COPY" \/ m \in Swaps \/ m = "AES"
        BY <2>3 DEF AllMethods, Swaps, Framed
      <4>. QED BY <1>4, <4>1, EndCalls, Zenon
    <3>2. r.enc = e /\ (r.calls = <<Flush>> \/ r.calls = <<Finish>> \/ r.calls = <<>>)
      BY <3>1
    <3>3. r.calls \in Seq(C)
      <4>. HIDE DEF r
      <4>. QED BY <1>1, <3>2
    <3>. QED BY <3>2, <3>3 DEF C, U
  <2>. QED BY <2>2, <2>3
<1>5. CASE c = Finish
  <2>1. CASE m \in Swaps
    <3>1. SwapTail(e) \in Seq(DataCalls(U))
      BY <1>3, <2>1, SwapTailIs, EncodedIs DEF U
    <3>2. SwapTail(e) \o <<Flush, Finish>> \in Seq(C)
      BY <1>1, <1>2, <3>1
    <3>3. r = Step(e, <<>>, SwapTail(e) \o <<Flush, Finish>>)
      BY <1>5, <2>1, EndCalls
    <3>. QED BY <1>3, <3>2, <3>3 DEF C, U
  <2>2. CASE m = "LZ4"
    <3>1. LastFrame(m, e) \in Seq(DataCalls(U))
      BY <1>3, <2>2, LastFrameIs, EncodedIs DEF U, Framed
    <3>2. LastFrame(m, e) \o <<Finish>> \in Seq(C)
      BY <1>1, <1>2, <3>1
    <3>3. r = Step(e, <<>>, LastFrame(m, e) \o <<Finish>>)
      BY <1>5, <2>2, EndCalls
    <3>. QED BY <1>3, <3>2, <3>3 DEF C, U
  <2>3. CASE m = "COPY" \/ m = "BROTLI"
    <3>1. r = [enc |-> e, calls |-> <<Finish>>] \/ r = [enc |-> e, calls |-> <<>>]
      BY <1>5, <2>3, EndCalls, Zenon
    <3>2. r.enc = e /\ (r.calls = <<Flush>> \/ r.calls = <<Finish>> \/ r.calls = <<>>)
      BY <3>1
    <3>3. r.calls \in Seq(C)
      <4>. HIDE DEF r
      <4>. QED BY <1>1, <3>2
    <3>. QED BY <3>2, <3>3 DEF C, U
  <2>4. CASE m = "AES"
    <3>1. AesTail(e) \in Seq(DataCalls(U))
      <4>1. Full(m) = AesBlock
        BY <2>4 DEF Full
      <4>. QED BY <1>3, <2>4, <4>1, AesTailIs, EncodedIs DEF U
    <3>2. AesTail(e) \o <<Finish>> \in Seq(C)
      BY <1>1, <1>2, <3>1
    <3>. DEFINE d == [e EXCEPT !.finished = TRUE]
    <3>3. r = Step(d, <<>>, AesTail(e) \o <<Finish>>)
      BY <1>5, <2>4, EndCalls
    <3>4. d \in Encs(m) /\ d.taken = e.taken
      <4>. DEFINE n == Full(m)
      <4>. HIDE DEF n
      <4>. QED BY <2>4 DEF Encs, n
    <3>. HIDE DEF d
    <3>5. \A cs : /\ Step(d, <<>>, cs).enc \in Encs(m) /\ Step(d, <<>>, cs).enc.taken = e.taken
                  /\ Step(d, <<>>, cs).calls = cs
      <4>. DEFINE h == <<>>
      <4>1. h \in Seq(Plain) /\ Len(h) < Full(m)
        BY <1>3
      <4>. HIDE DEF h
      <4>2. \A cs : /\ Step(d, h, cs).enc \in Encs(m) /\ Step(d, h, cs).enc.taken = d.taken
                   /\ Step(d, h, cs).calls = cs
        BY <3>4, <4>1, StepIs
      <4>. QED BY <3>4, <4>2 DEF h
    <3>. QED BY <3>2, <3>3, <3>5 DEF C, U
  <2>. QED BY <2>1, <2>2, <2>3, <2>4 DEF AllMethods, Swaps
<1>6. CASE c \in DataCalls(Plain)
  <2>1. CASE ~e.finished
    <3>. DEFINE all == e.held \o c.buf
                h == Rest(all, Full(m))
    <3>1. r.enc = Holding(e, h) /\ r.calls \in Seq(DataCalls(U))
      BY <1>6, <2>1, WriteCall, Zenon DEF U
    <3>2. h \in Seq(Plain) /\ Len(h) < Full(m)
      <4>1. c.buf \in Seq(Plain)
        BY CallKinds
      <4>2. all \in Seq(Plain)
        <5>. DEFINE b == c.buf
        <5>. HIDE DEF b
        <5>. QED BY <1>3, <4>1, ConcatProperties DEF b
      <4>. HIDE DEF all
      <4>. QED BY <4>2, FullPositive, GroupsParts
    <3>. HIDE DEF h
    <3>3. Holding(e, h) \in Encs(m) /\ Holding(e, h).taken = e.taken
      BY <3>2, StepIs
    <3>. QED BY <1>1, <3>1, <3>3 DEF C, U
  <2>2. CASE e.finished /\ m = "AES"
    <3>1. r = Step(e, e.held, <<>>)
      BY <1>6, <2>2, CallOf, CallKinds
    <3>2. r.enc = e /\ r.calls = <<>>
      BY <3>1, EmptyStep
    <3>. QED BY <1>1, <3>2 DEF C, U
  <2>3. e.finished => m = "AES"
    BY DEF Encs
  <2>. QED BY <2>1, <2>2, <2>3
<1>. QED BY <1>4, <1>5, <1>6 DEF AnyCalls, MidCalls

\* The encoder and the calls below it, behind each of the calls on it.
FeedUpTo(m, e, cs) ==
  CHOOSE f : f = [k \in 0..Len(cs) |-> IF k = 0 THEN [enc |-> e, calls |-> <<>>] ELSE Pass(m, f[k - 1], cs[k])]

\* The recursion has a solution.
LEMMA FeedUpToDef ==
  ASSUME NEW m, NEW e, NEW cs, Len(cs) \in Nat
  PROVE  FeedUpTo(m, e, cs) = [k \in 0..Len(cs) |-> IF k = 0 THEN [enc |-> e, calls |-> <<>>] ELSE Pass(m, FeedUpTo(m, e, cs)[k - 1], cs[k])]
<1>. DEFINE Base == [enc |-> e, calls |-> <<>>]
            Solves(f, n) == f = [k \in 0..n |-> IF k = 0 THEN Base ELSE Pass(m, f[k - 1], cs[k])]
            Solved == {n \in Nat : \E f : Solves(f, n)}
<1>1. 0 \in Solved
  <2>1. Solves([k \in 0..0 |-> Base], 0)
    <3>. HIDE DEF Base
    <3>. QED OBVIOUS
  <2>. QED BY <2>1
<1>2. ASSUME NEW n \in Nat, n \in Solved PROVE n + 1 \in Solved
  <2>1. PICK f : Solves(f, n)
    BY <1>2
  <2>. DEFINE last == Pass(m, f[n], cs[(n + 1)])
              g == [k \in 0..(n + 1) |-> IF k <= n THEN f[k] ELSE last]
  <2>2. ASSUME NEW k \in 0..(n + 1)
        PROVE  g[k] = IF k = 0 THEN Base ELSE Pass(m, g[k - 1], cs[k])
    <3>1. CASE k <= n
      <4>1. k \in 0..n /\ g[k] = f[k] /\ (k # 0 => g[k - 1] = f[k - 1])
        <5>. HIDE DEF Base, Solves, last
        <5>. QED BY <3>1
      <4>2. f[k] = IF k = 0 THEN Base ELSE Pass(m, f[k - 1], cs[k])
        <5>. HIDE DEF Base, g, last
        <5>. QED BY <2>1, <4>1, Zenon
      <4>. HIDE DEF g, Base, last
      <4>. QED BY <4>1, <4>2, Zenon
    <3>2. CASE k = n + 1
      <4>1. g[k] = last /\ k # 0 /\ k - 1 = n /\ g[k - 1] = f[n]
        <5>. HIDE DEF Base, Solves, last
        <5>. QED BY <3>2
      <4>. HIDE DEF g, Base
      <4>. QED BY <3>2, <4>1
    <3>3. k <= n \/ k = n + 1
      OBVIOUS
    <3>. QED BY <3>1, <3>2, <3>3
  <2>3. Solves(g, n + 1)
    <3>. HIDE DEF Base
    <3>. QED BY <2>2, Zenon
  <2>4. n + 1 \in Nat
    OBVIOUS
  <2>. HIDE DEF Solves, g
  <2>. QED BY <2>3, <2>4
<1>3. \E f : Solves(f, Len(cs))
  <2>. HIDE DEF Solves
  <2>. QED BY <1>1, <1>2, SetInduction
<1>4. Solves(CHOOSE f : Solves(f, Len(cs)), Len(cs))
  <2>. HIDE DEF Solves
  <2>. QED BY <1>3, Zenon
<1>. QED
  <2>1. Solves(FeedUpTo(m, e, cs), Len(cs))
    BY <1>4, Zenon DEF FeedUpTo
  <2>. QED BY <2>1

\* Feed is its recursion.
LEMMA FeedIs ==
  ASSUME NEW m, NEW e, NEW cs
  PROVE  Feed(m, e, cs) = FeedUpTo(m, e, cs)[Len(cs)]
BY Zenon DEF Feed, FeedUpTo

\* Calls on an encoder are one call after the others.
LEMMA FeedAppend ==
  ASSUME NEW m, NEW e, NEW C, NEW cs \in Seq(C), NEW c \in C
  PROVE  Feed(m, e, Append(cs, c)) = Pass(m, Feed(m, e, cs), c)
<1>. DEFINE n == Len(cs)
            d == Append(cs, c)
            f == FeedUpTo(m, e, cs)
            g == FeedUpTo(m, e, d)
            Same == {k \in Nat : k <= n => f[k] = g[k]}
<1>1. n \in Nat /\ Len(d) = n + 1 /\ d[n + 1] = c /\ n + 1 \in Nat /\ \A k \in 1..n : d[k] = cs[k]
  BY AppendProperties
<1>2. f[0] = [enc |-> e, calls |-> <<>>] /\ \A k \in 1..n : f[k] = Pass(m, f[k - 1], cs[k])
  <2>1. f = [k \in 0..n |-> IF k = 0 THEN [enc |-> e, calls |-> <<>>] ELSE Pass(m, f[k - 1], cs[k])]
    BY <1>1, FeedUpToDef
  <2>2. 0 \in 0..n /\ \A k \in 1..n : k \in 0..n /\ k # 0
    BY <1>1
  <2>. HIDE DEF f, n
  <2>. QED BY <2>1, <2>2, Zenon
<1>3. g[0] = [enc |-> e, calls |-> <<>>] /\ \A k \in 1..(n + 1) : g[k] = Pass(m, g[k - 1], d[k])
  <2>. DEFINE p == n + 1
  <2>1. p \in Nat /\ p = Len(d)
    BY <1>1
  <2>. HIDE DEF p, n, d
  <2>2. g = [k \in 0..p |-> IF k = 0 THEN [enc |-> e, calls |-> <<>>] ELSE Pass(m, g[k - 1], d[k])]
    BY <2>1, FeedUpToDef
  <2>3. 0 \in 0..p /\ \A k \in 1..p : k \in 0..p /\ k # 0
    BY <2>1
  <2>4. g[0] = [enc |-> e, calls |-> <<>>] /\ \A k \in 1..p : g[k] = Pass(m, g[k - 1], d[k])
    <3>. HIDE DEF g
    <3>. QED BY <2>2, <2>3, Zenon
  <2>. QED BY <2>4 DEF p
<1>. HIDE DEF f, g, d, n
<1>4. 0 \in Same
  BY <1>2, <1>3
<1>5. ASSUME NEW k \in Nat, k \in Same PROVE k + 1 \in Same
  <2>1. CASE k + 1 <= n
    <3>. DEFINE j == k + 1
    <3>1. j \in 1..n /\ j \in 1..(n + 1) /\ j - 1 = k /\ k <= n /\ j \in Nat
      BY <1>1, <2>1
    <3>. HIDE DEF j
    <3>2. f[j] = Pass(m, f[k], cs[j]) /\ g[j] = Pass(m, g[k], d[j]) /\ d[j] = cs[j]
      BY <1>1, <1>2, <1>3, <3>1
    <3>3. f[j] = g[j]
      BY <1>5, <3>1, <3>2
    <3>. QED BY <3>1, <3>3 DEF j
  <2>2. CASE ~(k + 1 <= n)
    BY <2>2
  <2>. QED BY <2>1, <2>2
<1>6. n \in Same
  <2>. HIDE DEF Same
  <2>1. Nat \subseteq Same
    BY <1>4, <1>5, SetInduction
  <2>. QED BY <1>1, <2>1
<1>7. f[n] = g[n] /\ n \in 0..n
  BY <1>1, <1>6
<1>8. g[n + 1] = Pass(m, f[n], c)
  <2>. DEFINE j == n + 1
  <2>1. j \in 1..(n + 1) /\ j - 1 = n /\ d[j] = c
    BY <1>1
  <2>. HIDE DEF j
  <2>2. g[j] = Pass(m, g[n], c)
    BY <1>3, <2>1
  <2>. QED BY <1>7, <2>2 DEF j
<1>9. Feed(m, e, cs) = f[n] /\ Feed(m, e, d) = g[n + 1]
  BY <1>1, FeedIs DEF f, g, n
<1>. QED BY <1>8, <1>9 DEF d

\* No calls change nothing.
LEMMA FeedEmpty ==
  ASSUME NEW m, NEW e
  PROVE  Feed(m, e, <<>>) = [enc |-> e, calls |-> <<>>]
<1>. DEFINE z == <<>>
<1>1. Len(z) = 0 /\ 0 \in Nat
  OBVIOUS
<1>. HIDE DEF z
<1>. DEFINE h == FeedUpTo(m, e, z)
<1>2. h = [k \in 0..Len(z) |-> IF k = 0 THEN [enc |-> e, calls |-> <<>>] ELSE Pass(m, h[k - 1], z[k])]
  <2>1. Len(z) \in Nat
    BY <1>1
  <2>. QED BY <2>1, FeedUpToDef
<1>4. h[0] = [enc |-> e, calls |-> <<>>]
  <2>. HIDE DEF h
  <2>1. 0 \in 0..Len(z)
    BY <1>1
  <2>. QED BY <1>2, <2>1, Zenon
<1>3. Feed(m, e, z) = FeedUpTo(m, e, z)[0]
  BY <1>1, FeedIs
<1>. QED BY <1>3, <1>4 DEF z

\* the encoder with n more bytes counted
Counting(e, n) == [e EXCEPT !.taken = @ + n]

\* The CountingWriter counts what is written through it.
LEMMA CountingIs ==
  ASSUME NEW m, NEW e \in Encs(m), NEW n \in Nat
  PROVE  /\ Counting(e, n) \in Encs(m) /\ Counting(e, n).taken = e.taken + n
         /\ Counting(e, n).held = e.held /\ Counting(e, n).finished = e.finished
<1>. DEFINE k == Full(m)
<1>. HIDE DEF k
<1>. QED BY DEF Counting, Encs, k

\* The encoder that one more call leaves, and the calls it makes.
LEMMA PassEnc ==
  ASSUME NEW m, NEW acc, NEW c
  PROVE  Pass(m, acc, c).enc = Call(m, Counting(acc.enc, Len(c.buf)), c).enc
<1>. DEFINE r == Call(m, Counting(acc.enc, Len(c.buf)), c)
            a == r.enc
            b == acc.calls \o r.calls
<1>1. Pass(m, acc, c) = [enc |-> a, calls |-> b]
  BY Zenon DEF Pass, Counting
<1>. HIDE DEF a, b
<1>2. Pass(m, acc, c).enc = a
  BY <1>1
<1>. QED BY <1>2 DEF a

\* The calls it makes.
LEMMA PassCalls ==
  ASSUME NEW m, NEW acc, NEW c
  PROVE  Pass(m, acc, c).calls = acc.calls \o Call(m, Counting(acc.enc, Len(c.buf)), c).calls
<1>. DEFINE r == Call(m, Counting(acc.enc, Len(c.buf)), c)
            a == r.enc
            b == acc.calls \o r.calls
<1>1. Pass(m, acc, c) = [enc |-> a, calls |-> b]
  BY Zenon DEF Pass, Counting
<1>. HIDE DEF a, b
<1>2. Pass(m, acc, c).calls = b
  BY <1>1
<1>. QED BY <1>2 DEF b

\* Calls leave an encoder, which has counted what they wrote, and make calls.
LEMMA FeedTypes ==
  ASSUME NEW m \in AllMethods, NEW e \in Encs(m), NEW cs \in Seq(AnyCalls(Plain))
  PROVE  /\ Feed(m, e, cs).enc \in Encs(m)
         /\ Feed(m, e, cs).enc.taken = e.taken + Len(Bytes(cs))
         /\ Feed(m, e, cs).calls \in Seq(AnyCalls(OutOf(m)))
<1>. DEFINE C == AnyCalls(Plain)
            D == AnyCalls(OutOf(m))
            T == {s \in Seq(C) : /\ Feed(m, e, s).enc \in Encs(m)
                                 /\ Feed(m, e, s).enc.taken = e.taken + Len(Bytes(s))
                                 /\ Feed(m, e, s).calls \in Seq(D)}
<1>1. <<>> \in T
  <2>1. e.taken \in Nat
    BY DEF Encs
  <2>2. <<>> \in Seq(C) /\ <<>> \in Seq(D) /\ Len(<<>>) = 0
    OBVIOUS
  <2>3. e.taken = e.taken + Len(Bytes(<<>>))
    BY <2>1, <2>2, BytesEmpty
  <2>4. Feed(m, e, <<>>).enc = e /\ Feed(m, e, <<>>).calls = <<>>
    BY FeedEmpty
  <2>. QED BY <2>2, <2>3, <2>4
<1>2. ASSUME NEW s \in Seq(C), NEW c \in C, s \in T PROVE Append(s, c) \in T
  <2>. DEFINE acc == Feed(m, e, s)
              n == Len(c.buf)
              x == Counting(acc.enc, n)
              r == Call(m, x, c)
              d == Append(s, c)
  <2>5. Pass(m, acc, c).enc = r.enc /\ Pass(m, acc, c).calls = acc.calls \o r.calls
    <3>1. Pass(m, acc, c).enc = r.enc
      BY PassEnc
    <3>2. Pass(m, acc, c).calls = acc.calls \o r.calls
      BY PassCalls
    <3>. QED BY <3>1, <3>2
  <2>1. c.buf \in Seq(Plain) /\ n \in Nat
    <3>1. c.buf \in Seq(Plain)
      BY CallKinds
    <3>. QED BY <3>1, LenProperties
  <2>2. x \in Encs(m) /\ x.taken = acc.enc.taken + n
    BY <1>2, <2>1, CountingIs
  <2>. HIDE DEF n, x
  <2>3. r.enc \in Encs(m) /\ r.enc.taken = x.taken /\ r.calls \in Seq(D)
    BY <2>2, CallTypes
  <2>4. Feed(m, e, d) = Pass(m, acc, c)
    <3>. HIDE DEF C
    <3>. QED BY FeedAppend
  <2>. HIDE DEF acc, r, C, D
  <2>6. Feed(m, e, d).enc = r.enc /\ Feed(m, e, d).calls = acc.calls \o r.calls
    BY <2>4, <2>5, Zenon
  <2>7. acc.calls \o r.calls \in Seq(D)
    <3>1. acc.calls \in Seq(D)
      BY <1>2 DEF acc
    <3>. DEFINE a == acc.calls
                b == r.calls
    <3>. HIDE DEF a, b
    <3>2. a \in Seq(D) /\ b \in Seq(D)
      BY <2>3, <3>1 DEF a, b
    <3>3. a \o b \in Seq(D)
      BY <3>2, ConcatProperties
    <3>. QED BY <3>3 DEF a, b
  <2>8. r.enc.taken = e.taken + Len(Bytes(d))
    <3>1. Bytes(s) \in Seq(Plain) /\ Bytes(d) = Bytes(s) \o c.buf
      BY BytesAppend DEF C
    <3>. DEFINE a == Bytes(s)
                b == c.buf
    <3>2. a \in Seq(Plain) /\ b \in Seq(Plain) /\ Bytes(d) = a \o b
      BY <2>1, <3>1
    <3>3. acc.enc.taken = e.taken + Len(a) /\ e.taken \in Nat
      BY <1>2 DEF Encs, acc
    <3>. HIDE DEF a, b
    <3>4. Len(a \o b) = Len(a) + Len(b) /\ Len(a) \in Nat /\ Len(b) \in Nat
      BY <3>2, ConcatProperties, LenProperties
    <3>5. n = Len(b)
      BY DEF n, b
    <3>6. Len(Bytes(d)) = Len(a) + Len(b)
      BY <3>2, <3>4
    <3>. DEFINE la == Len(a)
                lb == Len(b)
    <3>7. la \in Nat /\ lb \in Nat /\ Len(Bytes(d)) = la + lb /\ n = lb /\ acc.enc.taken = e.taken + la
      BY <3>3, <3>4, <3>5, <3>6
    <3>8. r.enc.taken = acc.enc.taken + n
      BY <2>2, <2>3
    <3>. HIDE DEF la, lb
    <3>. QED BY <3>3, <3>7, <3>8
  <2>9. d \in Seq(C)
    BY AppendProperties
  <2>. QED BY <2>3, <2>6, <2>7, <2>8, <2>9
<1>3. Seq(C) \subseteq T
  <2>. HIDE DEF T
  <2>. QED BY <1>1, <1>2, SeqInduction
<1>. QED BY <1>3

\* Calls in two rows are one row after the other.
LEMMA FeedConcat ==
  ASSUME NEW m \in AllMethods, NEW e \in Encs(m),
         NEW cs \in Seq(AnyCalls(Plain)), NEW ds \in Seq(AnyCalls(Plain))
  PROVE  /\ Feed(m, e, cs \o ds).enc = Feed(m, Feed(m, e, cs).enc, ds).enc
         /\ Feed(m, e, cs \o ds).calls =
              Feed(m, e, cs).calls \o Feed(m, Feed(m, e, cs).enc, ds).calls
<1>. DEFINE C == AnyCalls(Plain)
            D == AnyCalls(OutOf(m))
            x == Feed(m, e, cs)
            T == {s \in Seq(C) : /\ Feed(m, e, cs \o s).enc = Feed(m, x.enc, s).enc
                                 /\ Feed(m, e, cs \o s).calls = x.calls \o Feed(m, x.enc, s).calls}
<1>0. x.enc \in Encs(m) /\ x.calls \in Seq(D)
  BY FeedTypes
<1>1. <<>> \in T
  <2>1. Feed(m, x.enc, <<>>).enc = x.enc /\ Feed(m, x.enc, <<>>).calls = <<>>
    BY FeedEmpty
  <2>2. cs \o <<>> = cs /\ x.calls \o <<>> = x.calls /\ <<>> \in Seq(C)
    <3>1. <<>> \in Seq(C)
      OBVIOUS
    <3>. HIDE DEF x, D, C
    <3>. QED BY <1>0, <3>1, ConcatEmptySeq DEF C
  <2>. HIDE DEF x, C
  <2>. QED BY <2>1, <2>2 DEF x
<1>2. ASSUME NEW s \in Seq(C), NEW c \in C, s \in T PROVE Append(s, c) \in T
  <2>. HIDE DEF C, D, x
  <2>0. cs \in Seq(C)
    BY DEF C
  <2>1. cs \o Append(s, c) = Append(cs \o s, c) /\ cs \o s \in Seq(C) /\ Append(s, c) \in Seq(C)
    BY <2>0, AppendBehind
  <2>. DEFINE p == Feed(m, e, cs \o s)
              q == Feed(m, x.enc, s)
              y == Counting(q.enc, Len(c.buf))
              r == Call(m, y, c)
  <2>2. Feed(m, e, Append(cs \o s, c)) = Pass(m, p, c) /\ Feed(m, x.enc, Append(s, c)) = Pass(m, q, c)
    <3>1. Feed(m, e, Append(cs \o s, c)) = Pass(m, p, c)
      <4>. DEFINE u == cs \o s
      <4>1. u \in Seq(C)
        BY <2>1
      <4>. HIDE DEF u
      <4>2. Feed(m, e, Append(u, c)) = Pass(m, Feed(m, e, u), c)
        BY <4>1, FeedAppend
      <4>. QED BY <4>2 DEF u
    <3>2. Feed(m, x.enc, Append(s, c)) = Pass(m, q, c)
      BY FeedAppend
    <3>. QED BY <3>1, <3>2
  <2>3. p.enc = q.enc /\ p.calls = x.calls \o q.calls
    BY <1>2
  <2>4. q.enc \in Encs(m) /\ q.calls \in Seq(D)
    BY <1>0, FeedTypes DEF C, D
  <2>5. y \in Encs(m)
    <3>1. c.buf \in Seq(Plain)
      BY CallKinds DEF C
    <3>2. Len(c.buf) \in Nat
      BY <3>1, LenProperties
    <3>. QED BY <2>4, <3>2, CountingIs
  <2>6. /\ Pass(m, q, c).enc = r.enc /\ Pass(m, q, c).calls = q.calls \o r.calls
        /\ Pass(m, p, c).enc = r.enc /\ Pass(m, p, c).calls = p.calls \o r.calls
    <3>. HIDE DEF p, q
    <3>1. Counting(p.enc, Len(c.buf)) = y
      BY <2>3
    <3>2. Pass(m, q, c).enc = r.enc
      BY PassEnc
    <3>3. Pass(m, q, c).calls = q.calls \o r.calls
      BY PassCalls
    <3>4. Pass(m, p, c).enc = Call(m, Counting(p.enc, Len(c.buf)), c).enc
      BY PassEnc
    <3>5. Pass(m, p, c).calls = p.calls \o Call(m, Counting(p.enc, Len(c.buf)), c).calls
      BY PassCalls
    <3>. HIDE DEF y
    <3>. QED BY <3>1, <3>2, <3>3, <3>4, <3>5
  <2>. HIDE DEF y, p, q
  <2>7. r.calls \in Seq(D)
    BY <2>5, CallTypes DEF C, D
  <2>8. (x.calls \o q.calls) \o r.calls = x.calls \o (q.calls \o r.calls)
    <3>. DEFINE f == x.calls
                g == q.calls
                h == r.calls
    <3>1. f \in Seq(D) /\ g \in Seq(D) /\ h \in Seq(D)
      BY <1>0, <2>4, <2>7
    <3>. HIDE DEF f, g, h
    <3>2. (f \o g) \o h = f \o (g \o h)
      <4>1. Associates(f, g, h)
        BY <3>1, Associate
      <4>. QED BY <4>1 DEF Associates
    <3>. QED BY <3>2 DEF f, g, h
  <2>. HIDE DEF r
  <2>9. /\ Feed(m, e, cs \o Append(s, c)).enc = r.enc
        /\ Feed(m, e, cs \o Append(s, c)).calls = x.calls \o (q.calls \o r.calls)
    BY <2>1, <2>2, <2>3, <2>6, <2>8
  <2>10. Feed(m, x.enc, Append(s, c)).enc = r.enc /\ Feed(m, x.enc, Append(s, c)).calls = q.calls \o r.calls
    BY <2>2, <2>6, Zenon
  <2>. QED BY <2>1, <2>9, <2>10
<1>3. Seq(C) \subseteq T
  <2>. HIDE DEF T
  <2>. QED BY <1>1, <1>2, SeqInduction
<1>. QED BY <1>3

\* The groups an encoder makes are ones it takes.
LEMMA GroupsTaken ==
  ASSUME NEW m \in AllMethods, NEW s \in Seq(Plain)
  PROVE  Groups(s, Full(m)) \in Seq(Parts(m))
<1>. DEFINE n == Full(m)
            gs == Groups(s, n)
<1>1. n \in Nat \ {0}
  BY FullPositive
<1>. HIDE DEF n
<1>2. gs \in Seq(Blocks(n, Plain))
  BY <1>1, GroupsParts
<1>3. Seq(Blocks(n, Plain)) \subseteq Seq(Seq(Plain))
  BY <1>1, GroupsAreSeqs
<1>. QED BY <1>2, <1>3 DEF Parts, n

\* Data is passed on in groups, what is left of it is held.
LEMMA FeedData ==
  ASSUME NEW m \in AllMethods, NEW e \in Encs(m), NEW cs \in Seq(DataCalls(Plain)), ~e.finished
  PROVE  /\ Feed(m, e, cs).enc.held = Rest(e.held \o Bytes(cs), Full(m))
         /\ ~Feed(m, e, cs).enc.finished
         /\ Feed(m, e, cs).calls \in Seq(DataCalls(OutOf(m)))
         /\ Bytes(Feed(m, e, cs).calls) = Coded(m, Groups(e.held \o Bytes(cs), Full(m)))
<1>. DEFINE C == DataCalls(Plain)
            D == DataCalls(OutOf(m))
            n == Full(m)
            T == {s \in Seq(C) : /\ Feed(m, e, s).enc.held = Rest(e.held \o Bytes(s), n)
                                 /\ ~Feed(m, e, s).enc.finished
                                 /\ Feed(m, e, s).calls \in Seq(D)
                                 /\ Bytes(Feed(m, e, s).calls) = Coded(m, Groups(e.held \o Bytes(s), n))}
<1>0. n \in Nat \ {0} /\ C \subseteq AnyCalls(Plain) /\ D \subseteq AnyCalls(OutOf(m))
  BY FullPositive, CallKinds
<1>1. <<>> \in T
  <2>1. e.held \in Seq(Plain) /\ Len(e.held) < n
    BY EmptyStep
  <2>2. e.held \o Bytes(<<>>) = e.held
    BY <2>1, BytesEmpty, ConcatEmptySeq
  <2>3. Groups(e.held, n) = <<>> /\ Rest(e.held, n) = e.held
    <3>. DEFINE h == e.held
    <3>. HIDE DEF h, n
    <3>1. h \in Seq(Plain) /\ Len(h) < n
      BY <2>1 DEF h
    <3>. QED BY <1>0, <3>1, GroupsOfFew DEF h
  <2>4. <<>> \in Seq(C) /\ <<>> \in Seq(D)
    OBVIOUS
  <2>5. Feed(m, e, <<>>).enc = e /\ Feed(m, e, <<>>).calls = <<>>
    BY FeedEmpty
  <2>6. Bytes(<<>>) = <<>> /\ Coded(m, <<>>) = <<>>
    BY BytesEmpty, CodedEmpty
  <2>. HIDE DEF n, C, D
  <2>. QED BY <2>2, <2>3, <2>4, <2>5, <2>6
<1>2. ASSUME NEW s \in Seq(C), NEW c \in C, s \in T PROVE Append(s, c) \in T
  <2>. DEFINE acc == Feed(m, e, s)
              l == Len(c.buf)
              x == Counting(acc.enc, l)
              r == Call(m, x, c)
              d == Append(s, c)
              b == c.buf
              u == e.held \o Bytes(s)
              v == x.held \o b
  <2>1. Pass(m, acc, c).enc = r.enc
    BY PassEnc
  <2>2. Pass(m, acc, c).calls = acc.calls \o r.calls
    BY PassCalls
  <2>3. Feed(m, e, d) = Pass(m, acc, c)
    <3>. HIDE DEF C
    <3>. QED BY FeedAppend
  <2>4. b \in Seq(Plain) /\ l \in Nat
    <3>1. b \in Seq(Plain)
      BY CallKinds
    <3>. QED BY <3>1, LenProperties
  <2>5. s \in Seq(AnyCalls(Plain)) /\ c \in AnyCalls(Plain)
    <3>. HIDE DEF C
    <3>. QED BY <1>0, SeqMonotonic
  <2>6. acc.enc \in Encs(m)
    BY <2>5, FeedTypes
  <2>. HIDE DEF acc, l, b
  <2>7. x \in Encs(m) /\ x.held = acc.enc.held /\ x.finished = acc.enc.finished
    <3>1. Counting(acc.enc, l) \in Encs(m)
      BY <2>4, <2>6, CountingIs
    <3>2. Counting(acc.enc, l).held = acc.enc.held /\ Counting(acc.enc, l).finished = acc.enc.finished
      BY <2>4, <2>6, CountingIs
    <3>. QED BY <3>1, <3>2
  <2>. HIDE DEF x
  <2>8. ~x.finished /\ x.held = Rest(u, n) /\ acc.calls \in Seq(D) /\ Bytes(acc.calls) = Coded(m, Groups(u, n))
    BY <1>2, <2>7 DEF acc
  <2>9. e.held \in Seq(Plain) /\ Bytes(s) \in Seq(Plain)
    BY <2>5, EmptyStep, BytesIn
  <2>10. u \in Seq(Plain)
    <3>. DEFINE a == e.held
                f == Bytes(s)
    <3>1. a \in Seq(Plain) /\ f \in Seq(Plain)
      BY <2>9
    <3>. HIDE DEF a, f
    <3>2. a \o f \in Seq(Plain)
      BY <3>1, ConcatProperties
    <3>. QED BY <3>2 DEF a, f
  <2>11. e.held \o Bytes(d) = u \o b
    <3>. DEFINE a == e.held
                f == Bytes(s)
    <3>1. a \in Seq(Plain) /\ f \in Seq(Plain)
      BY <2>9
    <3>2. Bytes(d) = f \o b
      BY <2>5, BytesAppend DEF b
    <3>. HIDE DEF a, f
    <3>3. (a \o f) \o b = a \o (f \o b)
      <4>1. Associates(a, f, b)
        BY <2>4, <3>1, Associate
      <4>. QED BY <4>1 DEF Associates
    <3>4. a \o Bytes(d) = (a \o f) \o b
      BY <3>2, <3>3
    <3>. QED BY <3>4 DEF a, f
  <2>12. r.enc = Holding(x, Rest(v, n))
    BY <2>7, <2>8, WriteCall DEF v, b
  <2>13. r.calls \in Seq(D)
    BY <2>7, <2>8, WriteCall
  <2>14. Bytes(r.calls) = Coded(m, Groups(v, n))
    <3>1. v = x.held \o c.buf
      BY DEF v, b
    <3>2. x \in Encs(m) /\ ~x.finished
      BY <2>7, <2>8
    <3>. HIDE DEF v
    <3>. QED BY <3>1, <3>2, WriteCall, Zenon
  <2>15. x.held \in Seq(Plain)
    BY <2>7, EmptyStep
  <2>16. v \in Seq(Plain)
    <3>. DEFINE a == x.held
    <3>1. a \in Seq(Plain)
      BY <2>15
    <3>. HIDE DEF a
    <3>2. a \o b \in Seq(Plain)
      BY <2>4, <3>1, ConcatProperties
    <3>. QED BY <3>2 DEF a
  <2>. HIDE DEF u, r, C, D, n
  <2>17. Groups(u \o b, n) = Groups(u, n) \o Groups(Rest(u, n) \o b, n)
    BY <1>0, <2>4, <2>10, GroupsConcat
  <2>18. Rest(u \o b, n) = Rest(Rest(u, n) \o b, n)
    BY <1>0, <2>4, <2>10, GroupsConcat
  <2>19. Groups(u \o b, n) = Groups(u, n) \o Groups(v, n) /\ Rest(u \o b, n) = Rest(v, n)
    BY <2>8, <2>17, <2>18
  <2>. HIDE DEF v
  <2>20. Groups(u, n) \in Seq(Parts(m)) /\ Groups(v, n) \in Seq(Parts(m))
    BY <2>10, <2>16, GroupsTaken DEF n
  <2>21. Coded(m, Groups(u, n) \o Groups(v, n)) = Coded(m, Groups(u, n)) \o Coded(m, Groups(v, n))
    <3>. DEFINE gs == Groups(u, n)
                hs == Groups(v, n)
    <3>. HIDE DEF gs, hs
    <3>1. gs \in Seq(Parts(m)) /\ hs \in Seq(Parts(m))
      BY <2>20 DEF gs, hs
    <3>2. Coded(m, gs \o hs) = Coded(m, gs) \o Coded(m, hs)
      BY <3>1, CodedConcat
    <3>. QED BY <3>2 DEF gs, hs
  <2>22. Feed(m, e, d).calls \in Seq(D) /\ Bytes(Feed(m, e, d).calls) = Bytes(acc.calls) \o Bytes(r.calls)
    <3>. DEFINE f == acc.calls
                g == r.calls
    <3>1. f \in Seq(D) /\ g \in Seq(D)
      BY <2>8, <2>13
    <3>2. Feed(m, e, d).calls = f \o g
      BY <2>2, <2>3
    <3>. HIDE DEF f, g
    <3>3. f \o g \in Seq(D)
      BY <3>1, ConcatProperties
    <3>4. f \in Seq(AnyCalls(OutOf(m))) /\ g \in Seq(AnyCalls(OutOf(m)))
      BY <1>0, <3>1, SeqMonotonic
    <3>5. Bytes(f \o g) = Bytes(f) \o Bytes(g)
      BY <3>4, BytesConcat
    <3>. QED BY <3>2, <3>3, <3>5 DEF f, g
  <2>23. Bytes(Feed(m, e, d).calls) = Coded(m, Groups(u \o b, n))
    BY <2>8, <2>14, <2>19, <2>21, <2>22
  <2>24. Feed(m, e, d).enc.held = Rest(u \o b, n) /\ ~Feed(m, e, d).enc.finished
    <3>1. Feed(m, e, d).enc = Holding(x, Rest(v, n))
      BY <2>1, <2>3, <2>12
    <3>2. \A h : Holding(x, h).held = h /\ Holding(x, h).finished = x.finished
      <4>. DEFINE k == Full(m)
      <4>1. x \in [held : Seq(Plain), finished : BOOLEAN, taken : Nat]
        BY <2>7 DEF Encs
      <4>. QED BY <4>1 DEF Holding
    <3>. QED BY <2>8, <2>19, <3>1, <3>2
  <2>25. d \in Seq(C)
    BY AppendProperties
  <2>. HIDE DEF d
  <2>26. d \in T
    BY <2>11, <2>22, <2>23, <2>24, <2>25
  <2>. QED BY <2>26 DEF d
<1>3. Seq(C) \subseteq T
  <2>. HIDE DEF T
  <2>. QED BY <1>1, <1>2, SeqInduction
<1>. QED BY <1>3

\* The recursion has a solution.
LEMMA BelowDef ==
  ASSUME NEW ch, NEW es, NEW cs, Len(ch) \in Nat
  PROVE  Below(ch, es, cs) = [k \in 0..Len(ch) |-> IF k = 0 THEN cs ELSE Feed(ch[Len(ch) - k + 1], es[Len(ch) - k + 1], Below(ch, es, cs)[k - 1]).calls]
<1>. DEFINE Base == cs
            Solves(f, n) == f = [k \in 0..n |-> IF k = 0 THEN Base ELSE Feed(ch[Len(ch) - k + 1], es[Len(ch) - k + 1], f[k - 1]).calls]
            Solved == {n \in Nat : \E f : Solves(f, n)}
<1>1. 0 \in Solved
  <2>1. Solves([k \in 0..0 |-> Base], 0)
    <3>. HIDE DEF Base
    <3>. QED OBVIOUS
  <2>. QED BY <2>1
<1>2. ASSUME NEW n \in Nat, n \in Solved PROVE n + 1 \in Solved
  <2>1. PICK f : Solves(f, n)
    BY <1>2
  <2>. DEFINE last == Feed(ch[Len(ch) - (n + 1) + 1], es[Len(ch) - (n + 1) + 1], f[n]).calls
              g == [k \in 0..(n + 1) |-> IF k <= n THEN f[k] ELSE last]
  <2>2. ASSUME NEW k \in 0..(n + 1)
        PROVE  g[k] = IF k = 0 THEN Base ELSE Feed(ch[Len(ch) - k + 1], es[Len(ch) - k + 1], g[k - 1]).calls
    <3>1. CASE k <= n
      <4>1. k \in 0..n /\ g[k] = f[k] /\ (k # 0 => g[k - 1] = f[k - 1])
        <5>. HIDE DEF Base, Solves, last
        <5>. QED BY <3>1
      <4>2. f[k] = IF k = 0 THEN Base ELSE Feed(ch[Len(ch) - k + 1], es[Len(ch) - k + 1], f[k - 1]).calls
        <5>. HIDE DEF Base, g, last
        <5>. QED BY <2>1, <4>1, Zenon
      <4>. HIDE DEF g, Base, last
      <4>. QED BY <4>1, <4>2, Zenon
    <3>2. CASE k = n + 1
      <4>1. g[k] = last /\ k # 0 /\ k - 1 = n /\ g[k - 1] = f[n]
        <5>. HIDE DEF Base, Solves, last
        <5>. QED BY <3>2
      <4>. HIDE DEF g, Base
      <4>. QED BY <3>2, <4>1
    <3>3. k <= n \/ k = n + 1
      OBVIOUS
    <3>. QED BY <3>1, <3>2, <3>3
  <2>3. Solves(g, n + 1)
    <3>. HIDE DEF Base
    <3>. QED BY <2>2, Zenon
  <2>4. n + 1 \in Nat
    OBVIOUS
  <2>. HIDE DEF Solves, g
  <2>. QED BY <2>3, <2>4
<1>3. \E f : Solves(f, Len(ch))
  <2>. HIDE DEF Solves
  <2>. QED BY <1>1, <1>2, SetInduction
<1>4. Solves(CHOOSE f : Solves(f, Len(ch)), Len(ch))
  <2>. HIDE DEF Solves
  <2>. QED BY <1>3, Zenon
<1>. QED
  <2>1. Solves(Below(ch, es, cs), Len(ch))
    BY <1>4, Zenon DEF Below
  <2>. QED BY <2>1

-----------------------------------------------------------------------------
(* Calls on a chain *)

\* What holds for n and goes down by one holds down to 0.
LEMMA DownInduction ==
  ASSUME NEW n \in Nat, NEW T, n \in T, \A i \in 1..n : i \in T => i - 1 \in T
  PROVE  \A i \in 0..n : i \in T
<1>. DEFINE Solved == {j \in Nat : j <= n => n - j \in T}
<1>1. 0 \in Solved
  OBVIOUS
<1>2. ASSUME NEW j \in Nat, j \in Solved PROVE j + 1 \in Solved
  <2>1. SUFFICES ASSUME j + 1 <= n PROVE n - (j + 1) \in T
    OBVIOUS
  <2>2. n - j \in 1..n /\ n - j \in T
    BY <1>2, <2>1
  <2>3. (n - j) - 1 \in T
    BY <2>2
  <2>4. (n - j) - 1 = n - (j + 1)
    OBVIOUS
  <2>. QED BY <2>3, <2>4
<1>3. Nat \subseteq Solved
  <2>. HIDE DEF Solved
  <2>. QED BY <1>1, <1>2, SetInduction
<1>4. ASSUME NEW i \in 0..n PROVE i \in T
  <2>1. n - i \in Nat /\ n - i <= n /\ n - (n - i) = i
    OBVIOUS
  <2>2. n - i \in Solved
    BY <1>3, <2>1
  <2>. QED BY <2>1, <2>2
<1>. QED BY <1>4

\* chains of methods, with encryption next to the output, and their encoders
AnyChains == {c \in Seq(AllMethods) : \A i \in 2..Len(c) : c[i] # "AES"}
ChainEncs(ch) == {es \in Seq(UNION {Encs(m) : m \in AllMethods}) :
                    Len(es) = Len(ch) /\ \A i \in 1..Len(ch) : es[i] \in Encs(ch[i])}

\* what the calls cs on a chain make of themselves: the calls on encoder i, and on the
\* output for 0
CallsOn(ch, es, cs, i) == Below(ch, es, cs)[Len(ch) - i]

\* The calls on the writer below an encoder are what it made of those on itself.
LEMMA CallsOnTop ==
  ASSUME NEW ch, NEW es, NEW cs, Len(ch) \in Nat
  PROVE  CallsOn(ch, es, cs, Len(ch)) = cs
<1>. DEFINE n == Len(ch)
            h == Below(ch, es, cs)
<1>1. h = [k \in 0..n |-> IF k = 0 THEN cs ELSE Feed(ch[n - k + 1], es[n - k + 1], h[k - 1]).calls]
  BY BelowDef
<1>2. 0 \in 0..n /\ n - n = 0
  OBVIOUS
<1>. HIDE DEF h, n
<1>3. h[0] = cs
  BY <1>1, <1>2, Zenon
<1>. QED BY <1>2, <1>3 DEF CallsOn, h, n

\* An encoder makes of its calls those on the next.
LEMMA CallsOnNext ==
  ASSUME NEW ch, NEW es, NEW cs, NEW i \in 1..Len(ch), Len(ch) \in Nat
  PROVE  CallsOn(ch, es, cs, i - 1) = Feed(ch[i], es[i], CallsOn(ch, es, cs, i)).calls
<1>. DEFINE n == Len(ch)
            h == Below(ch, es, cs)
            j == n - (i - 1)
<1>1. h = [k \in 0..n |-> IF k = 0 THEN cs ELSE Feed(ch[n - k + 1], es[n - k + 1], h[k - 1]).calls]
  BY BelowDef
<1>2. j \in 0..n /\ j # 0 /\ n - j + 1 = i /\ j - 1 = n - i
  OBVIOUS
<1>. HIDE DEF h, n, j
<1>3. h[j] = Feed(ch[n - j + 1], es[n - j + 1], h[j - 1]).calls
  BY <1>1, <1>2, Zenon
<1>4. h[j] = Feed(ch[i], es[i], h[n - i]).calls
  BY <1>2, <1>3
<1>. QED BY <1>4 DEF CallsOn, h, n, j

\* RunChain in terms of the calls on each encoder.
LEMMA RunIs ==
  ASSUME NEW ch, NEW es, NEW cs, Len(ch) \in Nat
  PROVE  /\ RunChain(ch, es, cs).encs =
              [i \in 1..Len(ch) |-> Feed(ch[i], es[i], CallsOn(ch, es, cs, i)).enc]
         /\ RunChain(ch, es, cs).units = Bytes(CallsOn(ch, es, cs, 0))
<1>. DEFINE a == [i \in 1..Len(ch) |-> Feed(ch[i], es[i], CallsOn(ch, es, cs, i)).enc]
            h == Below(ch, es, cs)[Len(ch)]
            b == FlattenSeq([k \in DOMAIN h |-> h[k].buf])
<1>1. RunChain(ch, es, cs) = [encs |-> a, units |-> b]
  BY Zenon DEF RunChain, CallsOn
<1>. HIDE DEF a, b
<1>2. RunChain(ch, es, cs).encs = a /\ RunChain(ch, es, cs).units = b
  BY <1>1
<1>. HIDE DEF h
<1>3. b = Bytes(h)
  BY DEF b, Bytes
<1>4. Len(ch) - 0 = Len(ch)
  OBVIOUS
<1>5. h = CallsOn(ch, es, cs, 0)
  BY <1>4 DEF h, CallsOn
<1>. QED BY <1>2, <1>3, <1>5 DEF a

\* what a unit of the stream above encoder i may be, or of the output for 0
StreamOf(ch, i) == IF i = 0 THEN OutOf(ch[1]) ELSE Plain

\* Only the method next to the output may be AES: all else is plain.
LEMMA ChainIs ==
  ASSUME NEW ch \in AnyChains
  PROVE  /\ Len(ch) \in Nat /\ DOMAIN ch = 1..Len(ch)
         /\ \A i \in 1..Len(ch) : ch[i] \in AllMethods /\ StreamOf(ch, i) = Plain
                                  /\ OutOf(ch[i]) = StreamOf(ch, i - 1)
<1>1. Len(ch) \in Nat /\ DOMAIN ch = 1..Len(ch) /\ \A i \in 1..Len(ch) : ch[i] \in AllMethods
  BY DEF AnyChains
<1>2. ASSUME NEW i \in 1..Len(ch) PROVE StreamOf(ch, i) = Plain /\ OutOf(ch[i]) = StreamOf(ch, i - 1)
  <2>1. CASE i = 1
    BY <2>1 DEF StreamOf
  <2>2. CASE i # 1
    <3>1. i \in 2..Len(ch) /\ i # 0 /\ i - 1 # 0
      BY <1>1, <2>2
    <3>2. ch[i] # "AES"
      BY <3>1 DEF AnyChains
    <3>. QED BY <3>1, <3>2 DEF StreamOf, OutOf
  <2>. QED BY <2>1, <2>2
<1>. QED BY <1>1, <1>2

\* Calls on a chain leave encoders of its methods, and calls on each of them.
LEMMA CallsTypes ==
  ASSUME NEW ch \in AnyChains, NEW es \in ChainEncs(ch), NEW cs \in Seq(AnyCalls(Plain)), Len(ch) > 0
  PROVE  \A i \in 0..Len(ch) : CallsOn(ch, es, cs, i) \in Seq(AnyCalls(StreamOf(ch, i)))
<1>. DEFINE n == Len(ch)
            T == {i \in 0..n : CallsOn(ch, es, cs, i) \in Seq(AnyCalls(StreamOf(ch, i)))}
<1>1. n \in Nat /\ n > 0 /\ \A i \in 1..n : ch[i] \in AllMethods /\ StreamOf(ch, i) = Plain
                                          /\ OutOf(ch[i]) = StreamOf(ch, i - 1)
  BY ChainIs
<1>2. \A i \in 1..n : es[i] \in Encs(ch[i])
  BY DEF ChainEncs
<1>3. n \in T
  <2>1. n \in 0..n /\ n \in 1..n
    BY <1>1
  <2>2. CallsOn(ch, es, cs, n) = cs
    BY <1>1, CallsOnTop
  <2>. HIDE DEF n
  <2>. QED BY <1>1, <2>1, <2>2
<1>4. ASSUME NEW i \in 1..n, i \in T PROVE i - 1 \in T
  <2>1. CallsOn(ch, es, cs, i - 1) = Feed(ch[i], es[i], CallsOn(ch, es, cs, i)).calls
    BY <1>1, CallsOnNext
  <2>. DEFINE ds == CallsOn(ch, es, cs, i)
  <2>2. ds \in Seq(AnyCalls(Plain))
    BY <1>1, <1>4
  <2>. HIDE DEF ds
  <2>3. Feed(ch[i], es[i], ds).calls \in Seq(AnyCalls(OutOf(ch[i])))
    BY <1>1, <1>2, <2>2, FeedTypes
  <2>4. i - 1 \in 0..n
    BY <1>1
  <2>. QED BY <1>1, <2>1, <2>3, <2>4 DEF ds
<1>. QED
  <2>. HIDE DEF T
  <2>1. \A i \in 0..n : i \in T
    BY <1>1, <1>3, <1>4, DownInduction
  <2>. QED BY <2>1 DEF T

\* The encoders, the units and the counts that calls on a chain leave.
LEMMA RunTypes ==
  ASSUME NEW ch \in AnyChains, NEW es \in ChainEncs(ch), NEW cs \in Seq(AnyCalls(Plain)), Len(ch) > 0
  PROVE  /\ RunChain(ch, es, cs).encs \in ChainEncs(ch)
         /\ RunChain(ch, es, cs).units \in Seq(StreamOf(ch, 0))
         /\ \A i \in 1..Len(ch) : RunChain(ch, es, cs).encs[i].taken =
                                    es[i].taken + Len(Bytes(CallsOn(ch, es, cs, i)))
<1>. DEFINE n == Len(ch)
            r == RunChain(ch, es, cs)
            f == [i \in 1..n |-> Feed(ch[i], es[i], CallsOn(ch, es, cs, i)).enc]
<1>1. n \in Nat /\ n > 0 /\ \A i \in 1..n : ch[i] \in AllMethods /\ StreamOf(ch, i) = Plain
  BY ChainIs
<1>2. \A i \in 1..n : es[i] \in Encs(ch[i])
  BY DEF ChainEncs
<1>3. \A i \in 0..n : CallsOn(ch, es, cs, i) \in Seq(AnyCalls(StreamOf(ch, i)))
  BY CallsTypes
<1>4. \A i \in 1..n : CallsOn(ch, es, cs, i) \in Seq(AnyCalls(Plain))
  BY <1>1, <1>3
<1>5. ASSUME NEW i \in 1..n
      PROVE  /\ f[i] \in Encs(ch[i])
             /\ f[i].taken = es[i].taken + Len(Bytes(CallsOn(ch, es, cs, i)))
  <2>. DEFINE ds == CallsOn(ch, es, cs, i)
  <2>1. ds \in Seq(AnyCalls(Plain))
    BY <1>4
  <2>2. f[i] = Feed(ch[i], es[i], ds).enc
    OBVIOUS
  <2>. HIDE DEF ds, f
  <2>3. Feed(ch[i], es[i], ds).enc \in Encs(ch[i])
        /\ Feed(ch[i], es[i], ds).enc.taken = es[i].taken + Len(Bytes(ds))
    BY <1>1, <1>2, <2>1, FeedTypes
  <2>. QED BY <2>2, <2>3 DEF ds
<1>6. r.encs = f
  BY <1>1, RunIs
<1>7. r.units = Bytes(CallsOn(ch, es, cs, 0))
  BY <1>1, RunIs
<1>8. f \in ChainEncs(ch)
  <2>1. f \in [1..n -> UNION {Encs(m) : m \in AllMethods}]
    <3>1. \A i \in 1..n : f[i] \in UNION {Encs(m) : m \in AllMethods}
      BY <1>1, <1>5
    <3>2. f = [i \in 1..n |-> f[i]]
      OBVIOUS
    <3>. HIDE DEF f
    <3>. QED BY <3>1, <3>2
  <2>. HIDE DEF f
  <2>2. f \in Seq(UNION {Encs(m) : m \in AllMethods}) /\ Len(f) = n
    BY <1>1, <2>1
  <2>. QED BY <1>5, <2>2 DEF ChainEncs
<1>9. r.units \in Seq(StreamOf(ch, 0))
  <2>. DEFINE ds == CallsOn(ch, es, cs, 0)
              U == StreamOf(ch, 0)
  <2>1. ds \in Seq(AnyCalls(U))
    BY <1>1, <1>3
  <2>. HIDE DEF ds, U
  <2>2. Bytes(ds) \in Seq(U)
    BY <2>1, BytesIn
  <2>. QED BY <1>7, <2>2 DEF ds, U
<1>. HIDE DEF f, r
<1>. QED BY <1>5, <1>6, <1>8, <1>9 DEF r

-----------------------------------------------------------------------------
(* What writes leave in a chain *)

\* X[i] went into encoder i, what it made of it went on, X[0] to the output
Carries(ch, es, X) ==
  /\ es \in ChainEncs(ch)
  /\ \A i \in 1..Len(ch) :
       /\ X[i] \in Seq(Plain)
       /\ X[i - 1] = Coded(ch[i], Groups(X[i], Full(ch[i])))
       /\ es[i] = [held |-> Rest(X[i], Full(ch[i])), finished |-> FALSE, taken |-> Len(X[i])]

\* A new chain carries nothing.
LEMMA CarriesNothing ==
  ASSUME NEW ch \in AnyChains, NEW X, X = [i \in 0..Len(ch) |-> <<>>]
  PROVE  Carries(ch, NewChain(ch), X)
<1>. DEFINE n == Len(ch)
            es == NewChain(ch)
<1>1. n \in Nat /\ \A i \in 1..n : ch[i] \in AllMethods /\ Full(ch[i]) \in Nat \ {0}
  BY ChainIs, FullPositive
<1>2. es = [i \in 1..n |-> NewEncoder]
  BY DEF NewChain
<1>3. ASSUME NEW i \in 1..n PROVE NewEncoder \in Encs(ch[i])
  BY <1>1 DEF NewEncoder, Encs
<1>4. es \in ChainEncs(ch)
  <2>. HIDE DEF es
  <2>1. \A i \in 1..n : es[i] \in UNION {Encs(m) : m \in AllMethods} /\ es[i] \in Encs(ch[i])
    BY <1>1, <1>2, <1>3
  <2>2. es \in Seq(UNION {Encs(m) : m \in AllMethods}) /\ Len(es) = n
    BY <1>1, <1>2, <2>1
  <2>. QED BY <2>1, <2>2 DEF ChainEncs
<1>. HIDE DEF es
<1>5. ASSUME NEW i \in 1..n
      PROVE  /\ X[i] \in Seq(Plain)
             /\ X[i - 1] = Coded(ch[i], Groups(X[i], Full(ch[i])))
             /\ es[i] = [held |-> Rest(X[i], Full(ch[i])), finished |-> FALSE, taken |-> Len(X[i])]
  <2>1. X[i] = <<>> /\ X[i - 1] = <<>>
    BY <1>1
  <2>2. <<>> \in Seq(Plain) /\ Len(<<>>) = 0
    OBVIOUS
  <2>. DEFINE z == <<>>
              k == Full(ch[i])
  <2>3. Groups(z, k) = <<>> /\ Rest(z, k) = <<>>
    <3>1. z \in Seq(Plain) /\ Len(z) < k /\ k \in Nat \ {0} /\ z = <<>>
      BY <1>1, <2>2
    <3>. HIDE DEF z, k
    <3>. QED BY <3>1, GroupsOfFew
  <2>4. Coded(ch[i], <<>>) = <<>>
    BY CodedEmpty
  <2>5. es[i] = NewEncoder
    BY <1>2
  <2>. QED BY <2>1, <2>2, <2>3, <2>4, <2>5 DEF NewEncoder
<1>. QED BY <1>4, <1>5 DEF Carries, es

\* What Carries says of one encoder.
LEMMA CarriesIs ==
  ASSUME NEW ch \in AnyChains, NEW es, NEW X, NEW i \in 1..Len(ch), Carries(ch, es, X)
  PROVE  /\ es \in ChainEncs(ch)
         /\ X[i] \in Seq(Plain)
         /\ X[i - 1] = Coded(ch[i], Groups(X[i], Full(ch[i])))
         /\ es[i].held = Rest(X[i], Full(ch[i])) /\ es[i].finished = FALSE
         /\ es[i].taken = Len(X[i])
         /\ ch[i] \in AllMethods /\ es[i] \in Encs(ch[i])
<1>1. ch[i] \in AllMethods
  BY ChainIs
<1>2. es \in ChainEncs(ch) /\ es[i] \in Encs(ch[i])
  BY DEF Carries, ChainEncs
<1>3. /\ X[i] \in Seq(Plain)
      /\ X[i - 1] = Coded(ch[i], Groups(X[i], Full(ch[i])))
      /\ es[i] = [held |-> Rest(X[i], Full(ch[i])), finished |-> FALSE, taken |-> Len(X[i])]
  BY DEF Carries
<1>. QED BY <1>1, <1>2, <1>3

\* One encoder goes on where it stopped.
LEMMA EncoderCarries ==
  ASSUME NEW m \in AllMethods, NEW e \in Encs(m), NEW x \in Seq(Plain), NEW cs \in Seq(DataCalls(Plain)),
         e.held = Rest(x, Full(m)), e.finished = FALSE, e.taken = Len(x)
  PROVE  /\ Feed(m, e, cs).calls \in Seq(DataCalls(OutOf(m)))
         /\ Coded(m, Groups(x \o Bytes(cs), Full(m))) =
              Coded(m, Groups(x, Full(m))) \o Bytes(Feed(m, e, cs).calls)
         /\ x \o Bytes(cs) \in Seq(Plain)
         /\ Feed(m, e, cs).enc.held = Rest(x \o Bytes(cs), Full(m))
         /\ Feed(m, e, cs).enc.finished = FALSE
         /\ Feed(m, e, cs).enc.taken = Len(x \o Bytes(cs))
         /\ Feed(m, e, cs).enc \in Encs(m)
<1>. DEFINE n == Full(m)
            b == Bytes(cs)
            r == Feed(m, e, cs)
<1>1. n \in Nat \ {0}
  BY FullPositive
<1>2. cs \in Seq(AnyCalls(Plain))
  <2>1. DataCalls(Plain) \subseteq AnyCalls(Plain)
    BY CallKinds
  <2>. QED BY <2>1, SeqMonotonic
<1>3. b \in Seq(Plain)
  BY <1>2, BytesIn
<1>4. r.enc \in Encs(m) /\ r.enc.taken = e.taken + Len(b)
  BY <1>2, FeedTypes
<1>5. ~e.finished
  OBVIOUS
<1>6. r.enc.held = Rest(e.held \o b, n) /\ ~r.enc.finished
  BY <1>5, FeedData
<1>7. r.calls \in Seq(DataCalls(OutOf(m)))
  BY <1>5, FeedData
<1>8. Bytes(r.calls) = Coded(m, Groups(e.held \o b, n))
  BY <1>5, FeedData
<1>9. r.enc.finished = FALSE
  BY <1>4, <1>6 DEF Encs
<1>. HIDE DEF n, b, r
<1>10. e.held = Rest(x, n)
  BY DEF n
<1>11. Groups(x \o b, n) = Groups(x, n) \o Groups(Rest(x, n) \o b, n)
  BY <1>1, <1>3, GroupsConcat
<1>12. Rest(x \o b, n) = Rest(Rest(x, n) \o b, n)
  BY <1>1, <1>3, GroupsConcat
<1>13. x \o b \in Seq(Plain) /\ Len(x \o b) = Len(x) + Len(b)
  BY <1>3, ConcatProperties
<1>14. Rest(x, n) \in Seq(Plain)
  BY <1>1, GroupsParts
<1>. DEFINE u == Rest(x, n) \o b
<1>15. u \in Seq(Plain)
  <2>. DEFINE h == Rest(x, n)
  <2>1. h \in Seq(Plain)
    BY <1>14
  <2>. HIDE DEF h
  <2>2. h \o b \in Seq(Plain)
    BY <1>3, <2>1, ConcatProperties
  <2>. QED BY <2>2 DEF h
<1>. HIDE DEF u
<1>16. Coded(m, Groups(x, n) \o Groups(u, n)) = Coded(m, Groups(x, n)) \o Coded(m, Groups(u, n))
  <2>. DEFINE gs == Groups(x, n)
              hs == Groups(u, n)
  <2>1. gs \in Seq(Parts(m)) /\ hs \in Seq(Parts(m))
    BY <1>15, GroupsTaken DEF n
  <2>. HIDE DEF gs, hs
  <2>2. Coded(m, gs \o hs) = Coded(m, gs) \o Coded(m, hs)
    BY <2>1, CodedConcat
  <2>. QED BY <2>2 DEF gs, hs
<1>17. Coded(m, Groups(x \o b, n)) = Coded(m, Groups(x, n)) \o Bytes(r.calls)
  BY <1>8, <1>10, <1>11, <1>16 DEF u
<1>18. r.enc.held = Rest(x \o b, n)
  BY <1>6, <1>10, <1>12
<1>19. r.enc.taken = Len(x \o b)
  BY <1>4, <1>13
<1>. QED BY <1>4, <1>7, <1>9, <1>13, <1>17, <1>18, <1>19 DEF n, b, r

\* So does a chain.
LEMMA CarriesMore ==
  ASSUME NEW ch \in AnyChains, NEW es, NEW X, NEW cs \in Seq(DataCalls(Plain)),
         Len(ch) > 0, Carries(ch, es, X)
  PROVE  \E Y : /\ Carries(ch, RunChain(ch, es, cs).encs, Y)
                /\ Y[Len(ch)] = X[Len(ch)] \o Bytes(cs)
                /\ Y[0] = X[0] \o RunChain(ch, es, cs).units
                /\ RunChain(ch, es, cs).units \in Seq(StreamOf(ch, 0))
<1>. DEFINE n == Len(ch)
            In(i) == CallsOn(ch, es, cs, i)
            r == RunChain(ch, es, cs)
            Y == [i \in 0..n |-> X[i] \o Bytes(In(i))]
            T == {i \in 0..n : CallsOn(ch, es, cs, i) \in Seq(DataCalls(StreamOf(ch, i)))}
<1>1. n \in Nat /\ n > 0 /\ \A i \in 1..n : ch[i] \in AllMethods /\ StreamOf(ch, i) = Plain
                                          /\ OutOf(ch[i]) = StreamOf(ch, i - 1)
  BY ChainIs
<1>2. es \in ChainEncs(ch)
  BY DEF Carries
<1>3. cs \in Seq(AnyCalls(Plain))
  <2>1. DataCalls(Plain) \subseteq AnyCalls(Plain)
    BY CallKinds
  <2>. QED BY <2>1, SeqMonotonic
<1>4. n \in T
  <2>1. n \in 0..n /\ n \in 1..n
    BY <1>1
  <2>2. CallsOn(ch, es, cs, n) = cs
    BY <1>1, CallsOnTop
  <2>. HIDE DEF n
  <2>. QED BY <1>1, <2>1, <2>2
<1>5. ASSUME NEW i \in 1..n
      PROVE  In(i - 1) = Feed(ch[i], es[i], In(i)).calls
  BY <1>1, CallsOnNext
<1>6. ASSUME NEW i \in 1..n, i \in T
      PROVE  LET d == Feed(ch[i], es[i], In(i))
             IN  /\ In(i - 1) \in Seq(DataCalls(StreamOf(ch, i - 1)))
                 /\ Coded(ch[i], Groups(X[i] \o Bytes(In(i)), Full(ch[i]))) = X[i - 1] \o Bytes(In(i - 1))
                 /\ X[i] \o Bytes(In(i)) \in Seq(Plain)
                 /\ d.enc = [held |-> Rest(X[i] \o Bytes(In(i)), Full(ch[i])), finished |-> FALSE,
                             taken |-> Len(X[i] \o Bytes(In(i)))]
  <2>. DEFINE m == ch[i]
              e == es[i]
              x == X[i]
              ds == In(i)
              d == Feed(m, e, ds)
  <2>1. m \in AllMethods /\ e \in Encs(m) /\ x \in Seq(Plain)
    BY CarriesIs
  <2>2. e.held = Rest(x, Full(m)) /\ e.finished = FALSE /\ e.taken = Len(x)
    BY CarriesIs
  <2>3. X[i - 1] = Coded(m, Groups(x, Full(m)))
    BY CarriesIs
  <2>4. ds \in Seq(DataCalls(Plain))
    BY <1>1, <1>6
  <2>5. In(i - 1) = d.calls /\ OutOf(m) = StreamOf(ch, i - 1)
    BY <1>1, <1>5
  <2>. DEFINE j == i - 1
  <2>. HIDE DEF m, e, x, ds, j
  <2>6. d.calls \in Seq(DataCalls(OutOf(m)))
    BY <2>1, <2>2, <2>4, EncoderCarries
  <2>7. Coded(m, Groups(x \o Bytes(ds), Full(m))) = Coded(m, Groups(x, Full(m))) \o Bytes(d.calls)
    BY <2>1, <2>2, <2>4, EncoderCarries
  <2>8. x \o Bytes(ds) \in Seq(Plain)
    BY <2>1, <2>2, <2>4, EncoderCarries
  <2>9. d.enc.held = Rest(x \o Bytes(ds), Full(m)) /\ d.enc.finished = FALSE
        /\ d.enc.taken = Len(x \o Bytes(ds))
    BY <2>1, <2>2, <2>4, EncoderCarries
  <2>10. d.enc \in Encs(m)
    BY <2>1, <2>2, <2>4, EncoderCarries
  <2>11. d.enc = [held |-> Rest(x \o Bytes(ds), Full(m)), finished |-> FALSE, taken |-> Len(x \o Bytes(ds))]
    <3>. DEFINE a == Rest(x \o Bytes(ds), Full(m))
                b == Len(x \o Bytes(ds))
                f == d.enc
    <3>1. f \in [held : Seq(Plain), finished : BOOLEAN, taken : Nat]
      BY <2>10 DEF Encs
    <3>2. f.held = a /\ f.finished = FALSE /\ f.taken = b
      BY <2>9
    <3>. HIDE DEF a, b, f
    <3>3. f = [held |-> a, finished |-> FALSE, taken |-> b]
      BY <3>1, <3>2
    <3>. QED BY <3>3 DEF a, b, f
  <2>. HIDE DEF d
  <2>12. Coded(m, Groups(x \o Bytes(ds), Full(m))) = X[j] \o Bytes(In(j))
    BY <2>3, <2>5, <2>7 DEF j
  <2>13. In(j) \in Seq(DataCalls(StreamOf(ch, j)))
    BY <2>5, <2>6 DEF j
  <2>. QED BY <2>8, <2>11, <2>12, <2>13 DEF m, e, x, ds, d, j
<1>7. ASSUME NEW i \in 1..n, i \in T PROVE i - 1 \in T
  <2>1. In(i - 1) \in Seq(DataCalls(StreamOf(ch, i - 1)))
    BY <1>6, <1>7
  <2>2. i - 1 \in 0..n
    BY <1>1
  <2>. QED BY <2>1, <2>2
<1>8. \A i \in 0..n : i \in T
  <2>. HIDE DEF T, n
  <2>. QED BY <1>1, <1>4, <1>7, DownInduction
<1>9. r.encs \in ChainEncs(ch) /\ r.units \in Seq(StreamOf(ch, 0))
  BY <1>2, <1>3, RunTypes
<1>10. r.encs = [i \in 1..n |-> Feed(ch[i], es[i], In(i)).enc]
  BY <1>1, RunIs
<1>11. r.units = Bytes(In(0))
  BY <1>1, RunIs
<1>. HIDE DEF r
<1>12. ASSUME NEW i \in 1..n
       PROVE  /\ Y[i] \in Seq(Plain)
              /\ Y[i - 1] = Coded(ch[i], Groups(Y[i], Full(ch[i])))
              /\ r.encs[i] = [held |-> Rest(Y[i], Full(ch[i])), finished |-> FALSE, taken |-> Len(Y[i])]
  <2>1. i \in 0..n /\ i - 1 \in 0..n /\ i \in T
    BY <1>1, <1>8
  <2>2. Y[i] = X[i] \o Bytes(In(i)) /\ Y[i - 1] = X[i - 1] \o Bytes(In(i - 1))
    BY <2>1
  <2>3. r.encs[i] = Feed(ch[i], es[i], In(i)).enc
    BY <1>10
  <2>4. /\ Coded(ch[i], Groups(X[i] \o Bytes(In(i)), Full(ch[i]))) = X[i - 1] \o Bytes(In(i - 1))
        /\ X[i] \o Bytes(In(i)) \in Seq(Plain)
        /\ Feed(ch[i], es[i], In(i)).enc =
             [held |-> Rest(X[i] \o Bytes(In(i)), Full(ch[i])), finished |-> FALSE,
              taken |-> Len(X[i] \o Bytes(In(i)))]
    BY <1>6, <2>1
  <2>. HIDE DEF Y, In
  <2>. QED BY <2>2, <2>3, <2>4
<1>13. Carries(ch, r.encs, Y)
  <2>. HIDE DEF Y
  <2>. QED BY <1>9, <1>12 DEF Carries
<1>14. Y[n] = X[n] \o Bytes(cs) /\ Y[0] = X[0] \o r.units
  <2>1. n \in 0..n /\ 0 \in 0..n
    BY <1>1
  <2>2. In(n) = cs
    BY <1>1, CallsOnTop
  <2>3. Y[n] = X[n] \o Bytes(In(n)) /\ Y[0] = X[0] \o Bytes(In(0))
    BY <2>1
  <2>. HIDE DEF Y, In, n
  <2>. QED BY <1>11, <2>2, <2>3
<1>. HIDE DEF Y
<1>. QED BY <1>9, <1>13, <1>14 DEF r

\* What a chain carries is given by what was written to it.
LEMMA CarriesUnique ==
  ASSUME NEW ch \in AnyChains, NEW es, NEW X, NEW fs, NEW Y,
         Carries(ch, es, X), Carries(ch, fs, Y), X[Len(ch)] = Y[Len(ch)]
  PROVE  es = fs /\ \A i \in 0..Len(ch) : X[i] = Y[i]
<1>. DEFINE n == Len(ch)
            T == {i \in 0..n : X[i] = Y[i]}
<1>1. n \in Nat
  BY ChainIs
<1>2. n \in T
  BY <1>1
<1>3. ASSUME NEW i \in 1..n, i \in T PROVE i - 1 \in T
  <2>1. X[i - 1] = Coded(ch[i], Groups(X[i], Full(ch[i])))
    BY CarriesIs
  <2>2. Y[i - 1] = Coded(ch[i], Groups(Y[i], Full(ch[i])))
    BY CarriesIs
  <2>3. X[i] = Y[i] /\ i - 1 \in 0..n
    BY <1>1, <1>3
  <2>. QED BY <2>1, <2>2, <2>3
<1>4. \A i \in 0..n : i \in T
  <2>. HIDE DEF T, n
  <2>. QED BY <1>1, <1>2, <1>3, DownInduction
<1>5. \A i \in 1..n : es[i] = fs[i]
  <2>1. ASSUME NEW i \in 1..n PROVE es[i] = fs[i]
    <3>1. es[i] = [held |-> Rest(X[i], Full(ch[i])), finished |-> FALSE, taken |-> Len(X[i])]
      BY DEF Carries
    <3>2. fs[i] = [held |-> Rest(Y[i], Full(ch[i])), finished |-> FALSE, taken |-> Len(Y[i])]
      BY DEF Carries
    <3>3. i \in 0..n
      BY <1>1
    <3>4. X[i] = Y[i]
      BY <1>4, <3>3
    <3>. QED BY <3>1, <3>2, <3>4
  <2>. QED BY <2>1
<1>6. es = fs
  <2>. DEFINE E == UNION {Encs(m) : m \in AllMethods}
  <2>1. es \in Seq(E) /\ fs \in Seq(E) /\ Len(es) = n /\ Len(fs) = n
    BY DEF Carries, ChainEncs
  <2>. HIDE DEF E, n
  <2>. QED BY <1>5, <2>1, SeqEqual
<1>. QED BY <1>4, <1>6

\* Calls in two rows, on a chain.
LEMMA CallsConcat ==
  ASSUME NEW ch \in AnyChains, NEW es \in ChainEncs(ch),
         NEW cs \in Seq(AnyCalls(Plain)), NEW ds \in Seq(AnyCalls(Plain)), Len(ch) > 0
  PROVE  \A i \in 0..Len(ch) :
           CallsOn(ch, es, cs \o ds, i) =
             CallsOn(ch, es, cs, i) \o CallsOn(ch, RunChain(ch, es, cs).encs, ds, i)
<1>. DEFINE n == Len(ch)
            fs == RunChain(ch, es, cs).encs
            all == cs \o ds
            T == {i \in 0..n : CallsOn(ch, es, all, i) = CallsOn(ch, es, cs, i) \o CallsOn(ch, fs, ds, i)}
<1>1. n \in Nat /\ n > 0 /\ \A i \in 1..n : ch[i] \in AllMethods /\ StreamOf(ch, i) = Plain
  BY ChainIs
<1>2. fs \in ChainEncs(ch)
  BY RunTypes
<1>. HIDE DEF all
<1>3. n \in T
  <2>1. n \in 0..n
    BY <1>1
  <2>2. CallsOn(ch, es, cs, n) = cs /\ CallsOn(ch, fs, ds, n) = ds /\ CallsOn(ch, es, all, n) = all
    BY <1>1, CallsOnTop
  <2>. QED BY <2>1, <2>2 DEF all
<1>4. ASSUME NEW i \in 1..n, i \in T PROVE i - 1 \in T
  <2>. DEFINE m == ch[i]
              e == es[i]
              a == CallsOn(ch, es, cs, i)
              b == CallsOn(ch, fs, ds, i)
  <2>1. m \in AllMethods /\ e \in Encs(m)
    BY <1>1 DEF ChainEncs
  <2>2. i \in 0..n /\ i - 1 \in 0..n
    BY <1>1
  <2>3. \A j \in 0..n : CallsOn(ch, es, cs, j) \in Seq(AnyCalls(StreamOf(ch, j)))
    BY CallsTypes
  <2>4. \A j \in 0..n : CallsOn(ch, fs, ds, j) \in Seq(AnyCalls(StreamOf(ch, j)))
    BY <1>2, CallsTypes
  <2>5. a \in Seq(AnyCalls(Plain)) /\ b \in Seq(AnyCalls(Plain))
    BY <1>1, <2>2, <2>3, <2>4
  <2>6. CallsOn(ch, es, cs, i - 1) = Feed(m, e, a).calls
    BY <1>1, CallsOnNext
  <2>7. CallsOn(ch, fs, ds, i - 1) = Feed(m, fs[i], b).calls
    BY <1>1, CallsOnNext
  <2>8. CallsOn(ch, es, all, i - 1) = Feed(m, e, CallsOn(ch, es, all, i)).calls
    BY <1>1, CallsOnNext
  <2>9. fs[i] = Feed(m, e, a).enc
    <3>1. fs = [k \in 1..n |-> Feed(ch[k], es[k], CallsOn(ch, es, cs, k)).enc]
      BY <1>1, RunIs
    <3>. HIDE DEF fs
    <3>. QED BY <3>1
  <2>10. CallsOn(ch, es, all, i) = a \o b
    BY <1>4
  <2>. HIDE DEF a, b, fs, m, e
  <2>11. Feed(m, e, a \o b).calls = Feed(m, e, a).calls \o Feed(m, Feed(m, e, a).enc, b).calls
    BY <2>1, <2>5, FeedConcat
  <2>12. CallsOn(ch, es, all, i - 1) = CallsOn(ch, es, cs, i - 1) \o CallsOn(ch, fs, ds, i - 1)
    BY <2>6, <2>7, <2>8, <2>9, <2>10, <2>11
  <2>. QED BY <2>2, <2>12
<1>5. \A i \in 0..n : i \in T
  <2>. HIDE DEF T, n, fs
  <2>. QED BY <1>1, <1>3, <1>4, DownInduction
<1>. QED BY <1>5 DEF all

\* Units of two rows of calls.
LEMMA UnitsConcat ==
  ASSUME NEW ch \in AnyChains, NEW es \in ChainEncs(ch),
         NEW cs \in Seq(AnyCalls(Plain)), NEW ds \in Seq(AnyCalls(Plain)), Len(ch) > 0
  PROVE  RunChain(ch, es, cs \o ds).units =
           RunChain(ch, es, cs).units \o RunChain(ch, RunChain(ch, es, cs).encs, ds).units
<1>. DEFINE fs == RunChain(ch, es, cs).encs
            U == StreamOf(ch, 0)
            a == CallsOn(ch, es, cs, 0)
            b == CallsOn(ch, fs, ds, 0)
            all == cs \o ds
<1>1. Len(ch) \in Nat /\ 0 \in 0..Len(ch)
  BY ChainIs
<1>2. fs \in ChainEncs(ch)
  BY RunTypes
<1>3. a \in Seq(AnyCalls(U))
  BY <1>1, CallsTypes
<1>4. b \in Seq(AnyCalls(U))
  BY <1>1, <1>2, CallsTypes
<1>5. CallsOn(ch, es, all, 0) = a \o b
  BY <1>1, CallsConcat
<1>6. RunChain(ch, es, cs).units = Bytes(a)
  BY <1>1, RunIs
<1>. HIDE DEF fs, all
<1>7. RunChain(ch, fs, ds).units = Bytes(b) /\ RunChain(ch, es, all).units = Bytes(CallsOn(ch, es, all, 0))
  BY <1>1, RunIs
<1>. HIDE DEF a, b, U
<1>8. Bytes(a \o b) = Bytes(a) \o Bytes(b)
  BY <1>3, <1>4, BytesConcat
<1>9. RunChain(ch, es, all).units = RunChain(ch, es, cs).units \o RunChain(ch, fs, ds).units
  BY <1>5, <1>6, <1>7, <1>8
<1>. QED BY <1>9 DEF fs, all

EndOfPush == <<Flush, Finish>>
AtOnce(data) == IF data = <<>> THEN <<>> ELSE <<Write(data)>>

\* The flush and the empty write at the end of a push.
LEMMA EndCallsIn == EndOfPush \in Seq(AnyCalls(Plain))
<1>1. Flush \in AnyCalls(Plain) /\ Finish \in AnyCalls(Plain)
  BY CallKinds
<1>. DEFINE C == AnyCalls(Plain)
<1>. HIDE DEF C
<1>2. Flush \in C /\ Finish \in C
  BY <1>1 DEF C
<1>3. <<Flush, Finish>> \in Seq(C)
  BY <1>2
<1>. QED BY <1>3 DEF C, EndOfPush

\* One write of everything.
LEMMA AtOnceIs ==
  ASSUME NEW data \in Seq(Plain)
  PROVE  /\ AtOnce(data) \in Seq(DataCalls(Plain))
         /\ AtOnce(data) \in Seq(AnyCalls(Plain))
         /\ Bytes(AtOnce(data)) = data
<1>. DEFINE C == DataCalls(Plain)
<1>1. CASE data = <<>>
  <2>1. AtOnce(data) = <<>>
    BY <1>1 DEF AtOnce
  <2>2. <<>> \in Seq(C) /\ <<>> \in Seq(AnyCalls(Plain))
    OBVIOUS
  <2>. QED BY <1>1, <2>1, <2>2, BytesEmpty
<1>2. CASE data # <<>>
  <2>. DEFINE w == Write(data)
  <2>1. AtOnce(data) = <<w>>
    BY <1>2 DEF AtOnce
  <2>2. w \in C /\ w.buf = data
    BY <1>2, CallKinds
  <2>3. C \subseteq AnyCalls(Plain)
    BY CallKinds
  <2>. HIDE DEF w, C
  <2>4. <<w>> \in Seq(C)
    BY <2>2
  <2>5. <<w>> \in Seq(AnyCalls(Plain)) /\ Bytes(<<w>>) = w.buf
    BY <2>2, <2>3, BytesOne
  <2>. QED BY <2>1, <2>2, <2>4, <2>5 DEF C
<1>. QED BY <1>1, <1>2

\* What was written in pieces is packed as what is written at once.
LEMMA PackedIs ==
  ASSUME NEW ch \in AnyChains, NEW es, NEW X, NEW data \in Seq(Plain),
         Len(ch) > 0, Carries(ch, es, X), X[Len(ch)] = data
  PROVE  PackedAtOnce(ch, data) = X[0] \o RunChain(ch, es, EndOfPush).units
<1>. DEFINE n == Len(ch)
            new == NewChain(ch)
            r == RunChain(ch, new, AtOnce(data))
<1>1. PICK Z : Z = [i \in 0..n |-> <<>>]
  OBVIOUS
<1>2. Carries(ch, new, Z) /\ new \in ChainEncs(ch)
  <2>1. Carries(ch, new, Z)
    BY <1>1, CarriesNothing
  <2>. QED BY <2>1 DEF Carries
<1>3. AtOnce(data) \in Seq(DataCalls(Plain)) /\ AtOnce(data) \in Seq(AnyCalls(Plain))
      /\ Bytes(AtOnce(data)) = data
  BY AtOnceIs
<1>4. n \in Nat /\ Z[n] = <<>> /\ Z[0] = <<>>
  BY <1>1, ChainIs
<1>. DEFINE cs == AtOnce(data)
<1>. HIDE DEF new, cs
<1>5. PICK Y : /\ Carries(ch, RunChain(ch, new, cs).encs, Y)
               /\ Y[n] = Z[n] \o Bytes(cs)
               /\ Y[0] = Z[0] \o RunChain(ch, new, cs).units
               /\ RunChain(ch, new, cs).units \in Seq(StreamOf(ch, 0))
  BY <1>2, <1>3, CarriesMore DEF cs
<1>6. Y[n] = data
  <2>1. <<>> \o data = data
    BY ConcatEmptySeq
  <2>. QED BY <1>3, <1>4, <1>5, <2>1 DEF cs
<1>7. Y[0] = RunChain(ch, new, cs).units
  <2>. DEFINE u == RunChain(ch, new, cs).units
              U == StreamOf(ch, 0)
  <2>1. u \in Seq(U) /\ Y[0] = <<>> \o u
    BY <1>4, <1>5
  <2>. HIDE DEF u, U
  <2>2. <<>> \o u = u
    BY <2>1, ConcatEmptySeq
  <2>. QED BY <2>1, <2>2 DEF u
<1>8. RunChain(ch, new, cs).encs = es /\ X[0] = Y[0]
  <2>. DEFINE fs == RunChain(ch, new, cs).encs
  <2>1. Carries(ch, fs, Y) /\ X[n] = Y[n]
    BY <1>5, <1>6
  <2>. HIDE DEF fs
  <2>2. es = fs /\ \A i \in 0..n : X[i] = Y[i]
    BY <2>1, CarriesUnique
  <2>3. 0 \in 0..n
    BY <1>4
  <2>. QED BY <2>2, <2>3 DEF fs
<1>9. RunChain(ch, new, cs \o EndOfPush).units =
        RunChain(ch, new, cs).units \o RunChain(ch, RunChain(ch, new, cs).encs, EndOfPush).units
  <2>1. EndOfPush \in Seq(AnyCalls(Plain)) /\ cs \in Seq(AnyCalls(Plain))
    BY <1>3, EndCallsIn DEF cs
  <2>. QED BY <1>2, <2>1, UnitsConcat
<1>10. PackedAtOnce(ch, data) = RunChain(ch, new, cs \o EndOfPush).units
  BY Zenon DEF PackedAtOnce, new, cs, AtOnce, EndOfPush
<1>. QED BY <1>7, <1>8, <1>9, <1>10

\* The upper part of a chain.
LEMMA UpperIs ==
  ASSUME NEW S, NEW s \in Seq(S), NEW k \in 0..Len(s)
  PROVE  /\ From(s, k) \in Seq(S) /\ Len(From(s, k)) = Len(s) - k
         /\ \A i \in 1..(Len(s) - k) : From(s, k)[i] = s[i + k]
<1>. DEFINE n == Len(s)
<1>1. n \in Nat /\ \A i \in (k + 1)..n : s[i] \in S
  OBVIOUS
<1>2. n - (k + 1) + 1 = n - k
  BY <1>1
<1>3. From(s, k) = SubSeq(s, k + 1, n)
  BY DEF From
<1>. HIDE DEF n
<1>4. /\ SubSeq(s, k + 1, n) \in Seq(S)
      /\ Len(SubSeq(s, k + 1, n)) = IF k + 1 <= n THEN n - (k + 1) + 1 ELSE 0
      /\ \A i \in 1..(n - (k + 1) + 1) : SubSeq(s, k + 1, n)[i] = s[(k + 1) + i - 1]
  <2>1. k + 1 \in Int /\ n \in Int
    BY <1>1
  <2>. QED BY <1>1, <2>1, SubSeqProperties
<1>5. k \in Nat /\ k <= n
  BY <1>1 DEF n
<1>6. \A i \in 1..(n - k) : (k + 1) + i - 1 = i + k
  BY <1>1, <1>5
<1>. DEFINE f == SubSeq(s, k + 1, n)
<1>7. f \in Seq(S) /\ Len(f) = n - k
  BY <1>1, <1>4, <1>5
<1>8. \A i \in 1..(n - k) : f[i] = s[i + k]
  BY <1>1, <1>2, <1>4, <1>5, <1>6
<1>. HIDE DEF f
<1>. QED BY <1>3, <1>7, <1>8 DEF f, n

\* The chain above an encoder, its encoders and what they carry.
LEMMA UpperChain ==
  ASSUME NEW ch \in AnyChains, NEW k \in 0..Len(ch)
  PROVE  /\ From(ch, k) \in AnyChains /\ Len(From(ch, k)) = Len(ch) - k /\ Len(ch) \in Nat
         /\ \A i \in 1..(Len(ch) - k) : From(ch, k)[i] = ch[i + k]
<1>. DEFINE n == Len(ch)
            f == From(ch, k)
<1>1. ch \in Seq(AllMethods) /\ n \in Nat /\ \A i \in 2..n : ch[i] # "AES"
  BY DEF AnyChains
<1>2. f \in Seq(AllMethods) /\ Len(f) = n - k /\ \A i \in 1..(n - k) : f[i] = ch[i + k]
  BY <1>1, UpperIs
<1>. HIDE DEF f
<1>3. \A i \in 2..(n - k) : i \in 1..(n - k) /\ i + k \in 2..n
  BY <1>1
<1>4. \A i \in 2..Len(f) : f[i] # "AES"
  BY <1>1, <1>2, <1>3
<1>. QED BY <1>1, <1>2, <1>4 DEF AnyChains, f

\* Its encoders.
LEMMA UpperEncs ==
  ASSUME NEW ch \in AnyChains, NEW es \in ChainEncs(ch), NEW k \in 0..Len(ch)
  PROVE  /\ From(es, k) \in ChainEncs(From(ch, k))
         /\ \A i \in 1..(Len(ch) - k) : From(es, k)[i] = es[i + k]
<1>. DEFINE n == Len(ch)
            f == From(ch, k)
            E == UNION {Encs(m) : m \in AllMethods}
            g == From(es, k)
<1>1. n \in Nat /\ Len(f) = n - k /\ \A i \in 1..(n - k) : f[i] = ch[i + k]
  BY UpperChain
<1>2. es \in Seq(E) /\ Len(es) = n /\ \A i \in 1..n : es[i] \in Encs(ch[i])
  BY DEF ChainEncs
<1>. HIDE DEF E
<1>3. g \in Seq(E) /\ Len(g) = n - k /\ \A i \in 1..(n - k) : g[i] = es[i + k]
  BY <1>2, UpperIs
<1>4. \A i \in 1..(n - k) : i + k \in 1..n
  BY <1>1
<1>. HIDE DEF f, g
<1>5. \A i \in 1..Len(f) : g[i] \in Encs(f[i])
  BY <1>1, <1>2, <1>3, <1>4
<1>6. g \in ChainEncs(f)
  BY <1>1, <1>3, <1>5 DEF ChainEncs, E
<1>. QED BY <1>3, <1>6 DEF f, g

\* What they carry.
LEMMA UpperCarries ==
  ASSUME NEW ch \in AnyChains, NEW es, NEW X, NEW k \in 0..Len(ch), NEW Z,
         Carries(ch, es, X), Z = [i \in 0..(Len(ch) - k) |-> X[i + k]]
  PROVE  Carries(From(ch, k), From(es, k), Z)
<1>. DEFINE n == Len(ch)
            f == From(ch, k)
            g == From(es, k)
<1>1. n \in Nat /\ Len(f) = n - k /\ \A i \in 1..(n - k) : f[i] = ch[i + k]
  BY UpperChain
<1>2. es \in ChainEncs(ch)
  BY DEF Carries
<1>3. g \in ChainEncs(f) /\ \A i \in 1..(n - k) : g[i] = es[i + k]
  BY <1>2, UpperEncs
<1>. HIDE DEF f, g
<1>4. ASSUME NEW i \in 1..(n - k)
      PROVE  /\ Z[i] \in Seq(Plain)
             /\ Z[i - 1] = Coded(f[i], Groups(Z[i], Full(f[i])))
             /\ g[i] = [held |-> Rest(Z[i], Full(f[i])), finished |-> FALSE, taken |-> Len(Z[i])]
  <2>. DEFINE j == i + k
  <2>1. j \in 1..n /\ i \in 0..(n - k) /\ i - 1 \in 0..(n - k) /\ (i - 1) + k = j - 1
    BY <1>1
  <2>2. Z[i] = X[j] /\ Z[i - 1] = X[j - 1]
    BY <2>1
  <2>3. f[i] = ch[j] /\ g[i] = es[j]
    BY <1>1, <1>3
  <2>. HIDE DEF j
  <2>4. /\ X[j] \in Seq(Plain)
        /\ X[j - 1] = Coded(ch[j], Groups(X[j], Full(ch[j])))
        /\ es[j] = [held |-> Rest(X[j], Full(ch[j])), finished |-> FALSE, taken |-> Len(X[j])]
    BY <2>1 DEF Carries
  <2>. QED BY <2>2, <2>3, <2>4
<1>5. \A i \in 1..Len(f) : i \in 1..(n - k)
  BY <1>1
<1>. QED BY <1>3, <1>4, <1>5 DEF Carries, f, g

\* Calls reach an encoder of the upper part as they do in the whole chain.
LEMMA UpperCalls ==
  ASSUME NEW ch \in AnyChains, NEW es \in ChainEncs(ch), NEW k \in 0..Len(ch), NEW cs
  PROVE  \A i \in 0..(Len(ch) - k) :
           CallsOn(From(ch, k), From(es, k), cs, i) = CallsOn(ch, es, cs, i + k)
<1>. DEFINE n == Len(ch)
            f == From(ch, k)
            g == From(es, k)
            p == n - k
            T == {i \in 0..p : CallsOn(f, g, cs, i) = CallsOn(ch, es, cs, i + k)}
<1>1. n \in Nat /\ p \in Nat /\ Len(f) = p /\ \A i \in 1..p : f[i] = ch[i + k]
  BY UpperChain
<1>2. g \in ChainEncs(f) /\ \A i \in 1..p : g[i] = es[i + k]
  BY UpperEncs
<1>3. p \in T
  <2>. HIDE DEF f, g
  <2>1. p + k = n /\ p \in 0..p
    BY <1>1
  <2>2. CallsOn(f, g, cs, p) = cs /\ CallsOn(ch, es, cs, n) = cs
    BY <1>1, CallsOnTop
  <2>. HIDE DEF n, p
  <2>. QED BY <2>1, <2>2
<1>. HIDE DEF f, g
<1>4. ASSUME NEW i \in 1..p, i \in T PROVE i - 1 \in T
  <2>. DEFINE j == i + k
  <2>1. j \in 1..n /\ (i - 1) + k = j - 1 /\ i - 1 \in 0..p /\ i \in 1..Len(f)
    BY <1>1
  <2>2. CallsOn(f, g, cs, i - 1) = Feed(f[i], g[i], CallsOn(f, g, cs, i)).calls
    BY <1>1, <2>1, CallsOnNext
  <2>3. CallsOn(f, g, cs, i) = CallsOn(ch, es, cs, j) /\ f[i] = ch[j] /\ g[i] = es[j]
    BY <1>1, <1>2, <1>4
  <2>. HIDE DEF j
  <2>4. CallsOn(ch, es, cs, j - 1) = Feed(ch[j], es[j], CallsOn(ch, es, cs, j)).calls
    BY <1>1, <2>1, CallsOnNext
  <2>. QED BY <2>1, <2>2, <2>3, <2>4
<1>5. \A i \in 0..p : i \in T
  <2>. HIDE DEF T, p
  <2>. QED BY <1>1, <1>3, <1>4, DownInduction
<1>. QED BY <1>5 DEF f, g

\* What a CountingWriter counted is what the chain above it packs.
LEMMA SizesAre ==
  ASSUME NEW ch \in AnyChains, NEW es, NEW X, NEW data \in Seq(Plain), NEW k \in 1..(Len(ch) - 1),
         Carries(ch, es, X), X[Len(ch)] = data
  PROVE  RunChain(ch, es, EndOfPush).encs[k].taken = Len(PackedAtOnce(From(ch, k), data))
<1>. DEFINE n == Len(ch)
            f == From(ch, k)
            g == From(es, k)
            b == Bytes(CallsOn(ch, es, EndOfPush, k))
<1>1. n \in Nat /\ \A i \in 1..n : ch[i] \in AllMethods /\ StreamOf(ch, i) = Plain
  BY ChainIs
<1>2. k \in 0..n /\ k \in 1..n /\ n - k > 0 /\ n > 0 /\ k + 0 = k /\ 0 + k = k /\ (n - k) + k = n
      /\ 0 \in 0..(n - k) /\ n - k \in 0..(n - k)
  BY <1>1
<1>3. f \in AnyChains /\ Len(f) = n - k
  BY <1>2, UpperChain
<1>4. es \in ChainEncs(ch) /\ EndOfPush \in Seq(AnyCalls(Plain))
  BY EndCallsIn DEF Carries
<1>5. PICK Z : Z = [i \in 0..(n - k) |-> X[i + k]]
  OBVIOUS
<1>6. Carries(f, g, Z)
  BY <1>2, <1>5, UpperCarries
<1>7. Z[n - k] = data /\ Z[0] = X[k]
  BY <1>2, <1>5
<1>8. CallsOn(f, g, EndOfPush, 0) = CallsOn(ch, es, EndOfPush, k)
  BY <1>2, <1>4, UpperCalls
<1>. HIDE DEF f, g
<1>9. PackedAtOnce(f, data) = Z[0] \o RunChain(f, g, EndOfPush).units
  BY <1>2, <1>3, <1>6, <1>7, PackedIs
<1>10. RunChain(f, g, EndOfPush).units = Bytes(CallsOn(f, g, EndOfPush, 0))
  <2>1. Len(f) \in Nat
    BY <1>3, ChainIs
  <2>. QED BY <2>1, RunIs
<1>11. PackedAtOnce(f, data) = X[k] \o b
  BY <1>7, <1>8, <1>9, <1>10
<1>12. X[k] \in Seq(Plain) /\ es[k].taken = Len(X[k])
  <2>1. k \in 1..Len(ch)
    BY <1>2
  <2>. QED BY <2>1, CarriesIs, Zenon
<1>13. b \in Seq(Plain)
  <2>. DEFINE ds == CallsOn(ch, es, EndOfPush, k)
  <2>1. ds \in Seq(AnyCalls(StreamOf(ch, k)))
    BY <1>2, <1>4, CallsTypes
  <2>2. ds \in Seq(AnyCalls(Plain))
    BY <1>1, <1>2, <2>1
  <2>. HIDE DEF ds
  <2>3. Bytes(ds) \in Seq(Plain)
    BY <2>2, BytesIn
  <2>. QED BY <2>3 DEF ds
<1>14. RunChain(ch, es, EndOfPush).encs[k].taken = es[k].taken + Len(b)
  BY <1>2, <1>4, RunTypes
<1>15. Len(X[k] \o b) = Len(X[k]) + Len(b)
  <2>. DEFINE x == X[k]
  <2>. HIDE DEF x, b
  <2>1. x \in Seq(Plain) /\ b \in Seq(Plain)
    BY <1>12, <1>13 DEF x
  <2>2. Len(x \o b) = Len(x) + Len(b)
    BY <2>1, ConcatProperties
  <2>. QED BY <2>2 DEF x
<1>. QED BY <1>11, <1>12, <1>14, <1>15 DEF f

-----------------------------------------------------------------------------
(* The push *)

\* What set_content_methods makes are chains in the sense above.
LEMMA ChainsIs ==
  ASSUME NEW ch \in Chains
  PROVE  ch \in AnyChains /\ Len(ch) > 0 /\ Len(ch) \in Nat /\ DOMAIN ch = 1..Len(ch)
<1>1. PICK n \in 1..MaxChain : ch \in [1..n -> Methods] /\ \A i \in 2..n : ch[i] # "AES"
  BY DEF Chains
<1>2. n \in Nat /\ n > 0
  BY <1>1, ChainAssumption
<1>3. ch \in [1..n -> AllMethods]
  BY <1>1, ChainAssumption DEF AllMethods
<1>4. ch \in Seq(AllMethods) /\ Len(ch) = n /\ DOMAIN ch = 1..n
  BY <1>2, <1>3
<1>. QED BY <1>1, <1>2, <1>4 DEF AnyChains

\* The bytes of the entry so far, and the next ones.
LEMMA DataIs ==
  ASSUME NEW w \in Nat, NEW n \in Nat
  PROVE  /\ Data(w) \in Seq(Plain) /\ Len(Data(w)) = w
         /\ Data(w + n) = Data(w) \o From(Data(w + n), w)
         /\ From(Data(w + n), w) \in Seq(Plain) /\ Len(From(Data(w + n), w)) = n
<1>1. \A k \in Nat : Data(k) \in Seq(Plain) /\ Len(Data(k)) = k /\ \A i \in 1..k : Data(k)[i] = DataByte(i)
  BY PlainUnits DEF Data
<1>. DEFINE d == Data(w + n)
            f == From(d, w)
            c == Data(w)
<1>2. d \in Seq(Plain) /\ Len(d) = w + n /\ w + n \in Nat /\ \A i \in 1..(w + n) : d[i] = DataByte(i)
  BY <1>1
<1>3. w \in 0..Len(d) /\ Len(d) - w = n
  BY <1>2
<1>. HIDE DEF d
<1>4. f \in Seq(Plain) /\ Len(f) = Len(d) - w /\ \A i \in 1..(Len(d) - w) : f[i] = d[i + w]
  BY <1>2, <1>3, UpperIs
<1>5. c \in Seq(Plain) /\ Len(c) = w /\ \A i \in 1..w : c[i] = DataByte(i)
  BY <1>1
<1>. HIDE DEF f, c
<1>6. c \o f \in Seq(Plain) /\ Len(c \o f) = w + n
      /\ \A i \in 1..(w + n) : (c \o f)[i] = IF i <= w THEN c[i] ELSE f[i - w]
  BY <1>3, <1>4, <1>5, ConcatProperties
<1>7. \A i \in 1..(w + n) : (c \o f)[i] = d[i]
  <2>1. ASSUME NEW i \in 1..(w + n) PROVE (c \o f)[i] = d[i]
    <3>1. CASE i <= w
      BY <1>2, <1>5, <1>6, <3>1
    <3>2. CASE ~(i <= w)
      <4>1. i - w \in 1..n /\ (i - w) + w = i
        BY <3>2
      <4>2. f[i - w] = d[i]
        BY <1>3, <1>4, <4>1
      <4>. QED BY <1>6, <3>2, <4>2
    <3>. QED BY <3>1, <3>2
  <2>. QED BY <2>1
<1>8. c \o f = d
  <2>. DEFINE g == c \o f
  <2>1. g \in Seq(Plain) /\ Len(g) = Len(d) /\ \A i \in 1..Len(g) : g[i] = d[i]
    BY <1>2, <1>6, <1>7
  <2>. HIDE DEF g
  <2>2. g = d
    BY <1>2, <2>1, SeqEqual
  <2>. QED BY <2>2 DEF g
<1>. QED BY <1>3, <1>4, <1>5, <1>8 DEF d, f, c

\* What the encoders have in a push; what is packed, after it.
PushInv ==
  /\ chain \in Chains
  /\ phase \in {"push", "packed", "read", "end", "error"}
  /\ written \in 0..MaxData
  /\ encs \in ChainEncs(chain)
  /\ phase = "push" => \E X : /\ Carries(chain, encs, X)
                              /\ X[Len(chain)] = Data(written) /\ X[0] = packed
  /\ CutsDoNotShow

\* A new chain carries nothing.
LEMMA PushInit ==
  ASSUME Init
  PROVE  PushInv
<1>. DEFINE X == [i \in 0..Len(chain) |-> <<>>]
<1>1. chain \in Chains /\ phase = "push" /\ written = 0 /\ encs = NewChain(chain) /\ packed = <<>>
  BY DEF Init
<1>2. chain \in AnyChains /\ Len(chain) \in Nat
  BY <1>1, ChainsIs
<1>3. Carries(chain, encs, X)
  BY <1>1, <1>2, CarriesNothing
<1>4. X[Len(chain)] = <<>> /\ X[0] = <<>>
  BY <1>2
<1>5. Data(0) = <<>>
  BY DEF Data
<1>6. encs \in ChainEncs(chain)
  BY <1>3 DEF Carries
<1>7. \E Y : Carries(chain, encs, Y) /\ Y[Len(chain)] = Data(written) /\ Y[0] = packed
  <2>. HIDE DEF X
  <2>. QED BY <1>1, <1>3, <1>4, <1>5
<1>8. written \in 0..MaxData
  BY <1>1, ChainAssumption
<1>9. CutsDoNotShow
  BY <1>1 DEF CutsDoNotShow
<1>. QED BY <1>1, <1>6, <1>7, <1>8, <1>9 DEF PushInv

\* A write carries what the encoders held on.
LEMMA PushBytesStep ==
  ASSUME PushInv, NEW n \in ReadSizes, PushBytes(n)
  PROVE  PushInv'
<1>. DEFINE w == written
            buf == From(Data(w + n), w)
            c == Write(buf)
            cs == <<c>>
            r == RunChain(chain, encs, cs)
<1>1. chain \in Chains /\ phase = "push" /\ w \in 0..MaxData
  BY DEF PushInv, PushBytes
<1>2. n \in Nat /\ n > 0 /\ MaxData \in Nat /\ w \in Nat
  BY <1>1, ChainAssumption
<1>3. chain \in AnyChains /\ Len(chain) > 0 /\ Len(chain) \in Nat
  BY <1>1, ChainsIs
<1>4. encs' = r.encs /\ packed' = packed \o r.units /\ written' = w + n /\ w + n <= MaxData
      /\ chain' = chain /\ phase' = phase
  BY DEF PushBytes
<1>5. PICK X : Carries(chain, encs, X) /\ X[Len(chain)] = Data(w) /\ X[0] = packed
  BY <1>1 DEF PushInv
<1>6. buf \in Seq(Plain) /\ Len(buf) = n /\ Data(w + n) = Data(w) \o buf
  BY <1>2, DataIs
<1>7. buf # <<>>
  BY <1>2, <1>6
<1>8. c \in DataCalls(Plain) /\ c.buf = buf /\ c \in AnyCalls(Plain)
  <2>. HIDE DEF buf
  <2>. QED BY <1>6, <1>7, CallKinds
<1>. HIDE DEF c, r
<1>9. cs \in Seq(DataCalls(Plain)) /\ Bytes(cs) = buf
  <2>1. Bytes(<<c>>) = c.buf
    BY <1>8, BytesOne
  <2>2. cs \in Seq(DataCalls(Plain))
    BY <1>8
  <2>. QED BY <1>8, <2>1, <2>2
<1>. HIDE DEF buf, cs
<1>10. PICK Y : /\ Carries(chain, RunChain(chain, encs, cs).encs, Y)
                /\ Y[Len(chain)] = X[Len(chain)] \o Bytes(cs)
                /\ Y[0] = X[0] \o RunChain(chain, encs, cs).units
  BY <1>3, <1>5, <1>9, CarriesMore
<1>11. /\ Carries(chain, r.encs, Y) /\ Y[Len(chain)] = Data(w + n) /\ Y[0] = packed \o r.units
  BY <1>5, <1>6, <1>9, <1>10 DEF r
<1>12. r.encs \in ChainEncs(chain)
  BY <1>11 DEF Carries
<1>13. (\E Z : Carries(chain, encs, Z) /\ Z[Len(chain)] = Data(written) /\ Z[0] = packed)'
  BY <1>4, <1>11
<1>14. written' \in 0..MaxData
  BY <1>2, <1>4
<1>15. CutsDoNotShow'
  BY <1>1, <1>4 DEF CutsDoNotShow
<1>. QED BY <1>1, <1>4, <1>12, <1>13, <1>14, <1>15 DEF PushInv

\* The flush and the empty write complete the stream of one write (flush and
\* write(&[]) of push_archive_entry).
LEMMA FinishPushStep ==
  ASSUME PushInv, FinishPush
  PROVE  PushInv'
<1>. DEFINE r == RunChain(chain, encs, EndOfPush)
            n == Len(chain)
<1>1. chain \in Chains /\ phase = "push" /\ written \in 0..MaxData /\ written \in Nat
  BY ChainAssumption DEF PushInv, FinishPush
<1>2. chain \in AnyChains /\ n > 0 /\ n \in Nat /\ DOMAIN chain = 1..n
  BY <1>1, ChainsIs
<1>3. /\ encs' = r.encs /\ packed' = packed \o r.units
      /\ block' = write_block(chain, collect_sizes(r.encs, written))
      /\ chain' = chain /\ phase' = "packed" /\ written' = written
  BY DEF FinishPush, EndOfPush
<1>4. PICK X : Carries(chain, encs, X) /\ X[n] = Data(written) /\ X[0] = packed
  BY <1>1 DEF PushInv
<1>5. Data(written) \in Seq(Plain)
  BY <1>1, DataIs
<1>. HIDE DEF r
<1>6. r.encs \in ChainEncs(chain)
  <2>1. encs \in ChainEncs(chain) /\ EndOfPush \in Seq(AnyCalls(Plain))
    BY <1>4, EndCallsIn DEF Carries
  <2>. QED BY <1>2, <2>1, RunTypes DEF r
<1>7. packed' = PackedAtOnce(chain, Data(written))
  <2>1. PackedAtOnce(chain, Data(written)) = X[0] \o RunChain(chain, encs, EndOfPush).units
    BY <1>2, <1>4, <1>5, PackedIs
  <2>. QED BY <1>3, <1>4, <2>1 DEF r
<1>8. ASSUME NEW i \in 1..n
      PROVE  block'.unpack_sizes[i] =
               IF i = n THEN written ELSE Len(PackedAtOnce(From(chain, i), Data(written)))
  <2>1. DOMAIN r.encs = 1..n /\ Len(r.encs) = n
    BY <1>2, <1>6 DEF ChainEncs
  <2>2. block'.unpack_sizes = collect_sizes(r.encs, written)
    BY <1>3 DEF write_block
  <2>3. collect_sizes(r.encs, written)[i] = IF i < n THEN r.encs[i].taken ELSE written
    BY <2>1 DEF collect_sizes
  <2>4. CASE i = n
    BY <1>2, <2>2, <2>3, <2>4
  <2>5. CASE i # n
    <3>1. i \in 1..(n - 1) /\ i < n
      <4>1. n \in Nat /\ i \in 1..n /\ i # n
        BY <1>2, <2>5
      <4>. HIDE DEF n
      <4>. QED BY <4>1
    <3>2. RunChain(chain, encs, EndOfPush).encs[i].taken = Len(PackedAtOnce(From(chain, i), Data(written)))
      BY <1>2, <1>4, <1>5, <3>1, SizesAre
    <3>. QED BY <2>2, <2>3, <2>5, <3>1, <3>2 DEF r
  <2>. QED BY <2>4, <2>5
<1>9. CutsDoNotShow'
  <2>1. \A i \in DOMAIN chain' : block'.unpack_sizes[i] =
          IF i = Len(chain') THEN written' ELSE Len(PackedAtOnce(From(chain', i), Data(written')))
    BY <1>2, <1>3, <1>8
  <2>2. packed' = PackedAtOnce(chain', Data(written'))
    BY <1>3, <1>7
  <2>. QED BY <2>1, <2>2 DEF CutsDoNotShow, Data
<1>10. phase' # "push" /\ phase' \in {"push", "packed", "read", "end", "error"}
  BY <1>3
<1>. QED BY <1>1, <1>3, <1>6, <1>9, <1>10 DEF PushInv

\* Behind the push, nothing of it changes.
LEMMA PushKept ==
  ASSUME PushInv, UNCHANGED <<chain, written, encs, packed, block>>,
         phase' = phase \/ (phase # "push" /\ phase' \in {"packed", "read", "end", "error"})
  PROVE  PushInv'
<1>1. CASE phase' = phase
  BY <1>1 DEF PushInv, CutsDoNotShow, Data
<1>2. CASE phase # "push" /\ phase' \in {"packed", "read", "end", "error"}
  <2>1. phase' # "push" /\ phase' \in {"push", "packed", "read", "end", "error"}
    BY <1>2
  <2>2. CutsDoNotShow /\ phase # "push"
    BY <1>2 DEF PushInv
  <2>3. CutsDoNotShow'
    BY <2>2 DEF CutsDoNotShow, Data
  <2>. QED BY <2>1, <2>3 DEF PushInv
<1>. QED BY <1>1, <1>2

\* Every step keeps what the push is known by.
LEMMA PushStep ==
  ASSUME PushInv, [Next]_vars
  PROVE  PushInv'
<1>1. CASE \E n \in ReadSizes : PushBytes(n)
  BY <1>1, PushBytesStep
<1>2. CASE FinishPush
  BY <1>2, FinishPushStep
<1>3. CASE OpenBlock
  <2>1. UNCHANGED <<chain, written, encs, packed, block>> /\ phase # "push" /\ phase' \in {"packed", "read", "end", "error"}
    BY <1>3, Zenon DEF OpenBlock
  <2>. QED BY <2>1, PushKept
<1>4. ASSUME NEW n \in ReadSizes, ReadEntry(n) PROVE PushInv'
  <2>1. UNCHANGED <<chain, written, encs, packed, block>> /\ phase # "push" /\ phase' \in {"packed", "read", "end", "error"}
    BY <1>4, Zenon DEF ReadEntry, Answered
  <2>. QED BY <2>1, PushKept
<1>5. CASE UNCHANGED vars
  BY <1>5, PushKept DEF vars
<1>. QED BY <1>1, <1>2, <1>3, <1>4, <1>5 DEF Next

\* In a push each encoder holds what its whole groups leave of the stream above
\* it, whatever the sizes of the writes (ArchiveWriter::push_archive_entry).
THEOREM PushInvariant == Spec => []PushInv
<1>1. Init => PushInv
  BY PushInit
<1>2. PushInv /\ [Next]_vars => PushInv'
  BY PushStep
<1>. QED BY <1>1, <1>2, PTL DEF Spec

\* How the source was cut into writes shows neither in the packed stream nor in
\* the sizes of the coders (push_archive_entry, CountingWriter, collect_sizes).
THEOREM CutsHidden == Spec => []CutsDoNotShow
<1>1. PushInv => CutsDoNotShow
  BY DEF PushInv
<1>. QED BY <1>1, PushInvariant, PTL

\* What Fill has after so many rounds.
FillUpTo(read, s, size) ==
  CHOOSE f : f = [k \in 0..size |-> IF k = 0 THEN Before(s, <<>>) ELSE FillRound(read, f[k - 1], size)]

\* The recursion has a solution.
LEMMA FillUpToDef ==
  ASSUME NEW read, NEW s, NEW size, size \in Nat
  PROVE  FillUpTo(read, s, size) = [k \in 0..size |-> IF k = 0 THEN Before(s, <<>>) ELSE FillRound(read, FillUpTo(read, s, size)[k - 1], size)]
<1>. DEFINE Base == Before(s, <<>>)
            Solves(f, n) == f = [k \in 0..n |-> IF k = 0 THEN Base ELSE FillRound(read, f[k - 1], size)]
            Solved == {n \in Nat : \E f : Solves(f, n)}
<1>1. 0 \in Solved
  <2>1. Solves([k \in 0..0 |-> Base], 0)
    <3>. HIDE DEF Base
    <3>. QED OBVIOUS
  <2>. QED BY <2>1
<1>2. ASSUME NEW n \in Nat, n \in Solved PROVE n + 1 \in Solved
  <2>1. PICK f : Solves(f, n)
    BY <1>2
  <2>. DEFINE last == FillRound(read, f[n], size)
              g == [k \in 0..(n + 1) |-> IF k <= n THEN f[k] ELSE last]
  <2>2. ASSUME NEW k \in 0..(n + 1)
        PROVE  g[k] = IF k = 0 THEN Base ELSE FillRound(read, g[k - 1], size)
    <3>1. CASE k <= n
      <4>1. k \in 0..n /\ g[k] = f[k] /\ (k # 0 => g[k - 1] = f[k - 1])
        <5>. HIDE DEF Base, Solves, last
        <5>. QED BY <3>1
      <4>2. f[k] = IF k = 0 THEN Base ELSE FillRound(read, f[k - 1], size)
        <5>. HIDE DEF Base, g, last
        <5>. QED BY <2>1, <4>1, Zenon
      <4>. HIDE DEF g, Base, last
      <4>. QED BY <4>1, <4>2, Zenon
    <3>2. CASE k = n + 1
      <4>1. g[k] = last /\ k # 0 /\ k - 1 = n /\ g[k - 1] = f[n]
        <5>. HIDE DEF Base, Solves, last
        <5>. QED BY <3>2
      <4>. HIDE DEF g, Base
      <4>. QED BY <3>2, <4>1
    <3>3. k <= n \/ k = n + 1
      OBVIOUS
    <3>. QED BY <3>1, <3>2, <3>3
  <2>3. Solves(g, n + 1)
    <3>. HIDE DEF Base
    <3>. QED BY <2>2, Zenon
  <2>4. n + 1 \in Nat
    OBVIOUS
  <2>. HIDE DEF Solves, g
  <2>. QED BY <2>3, <2>4
<1>3. \E f : Solves(f, size)
  <2>. HIDE DEF Solves
  <2>. QED BY <1>1, <1>2, SetInduction
<1>4. Solves(CHOOSE f : Solves(f, size), size)
  <2>. HIDE DEF Solves
  <2>. QED BY <1>3, Zenon
<1>. QED
  <2>1. Solves(FillUpTo(read, s, size), size)
    BY <1>4, Zenon DEF FillUpTo
  <2>. QED BY <2>1

\* What SwapUnits has after so many rounds.
SwapUpTo(read, start, i, size) ==
  CHOOSE f : f = [k \in 0..size |-> IF k = 0 THEN start ELSE SwapRound(read, f[k - 1], i, size)]

\* The recursion has a solution.
LEMMA SwapUpToDef ==
  ASSUME NEW read, NEW start, NEW i, NEW size, size \in Nat
  PROVE  SwapUpTo(read, start, i, size) = [k \in 0..size |-> IF k = 0 THEN start ELSE SwapRound(read, SwapUpTo(read, start, i, size)[k - 1], i, size)]
<1>. DEFINE Base == start
            Solves(f, n) == f = [k \in 0..n |-> IF k = 0 THEN Base ELSE SwapRound(read, f[k - 1], i, size)]
            Solved == {n \in Nat : \E f : Solves(f, n)}
<1>1. 0 \in Solved
  <2>1. Solves([k \in 0..0 |-> Base], 0)
    <3>. HIDE DEF Base
    <3>. QED OBVIOUS
  <2>. QED BY <2>1
<1>2. ASSUME NEW n \in Nat, n \in Solved PROVE n + 1 \in Solved
  <2>1. PICK f : Solves(f, n)
    BY <1>2
  <2>. DEFINE last == SwapRound(read, f[n], i, size)
              g == [k \in 0..(n + 1) |-> IF k <= n THEN f[k] ELSE last]
  <2>2. ASSUME NEW k \in 0..(n + 1)
        PROVE  g[k] = IF k = 0 THEN Base ELSE SwapRound(read, g[k - 1], i, size)
    <3>1. CASE k <= n
      <4>1. k \in 0..n /\ g[k] = f[k] /\ (k # 0 => g[k - 1] = f[k - 1])
        <5>. HIDE DEF Base, Solves, last
        <5>. QED BY <3>1
      <4>2. f[k] = IF k = 0 THEN Base ELSE SwapRound(read, f[k - 1], i, size)
        <5>. HIDE DEF Base, g, last
        <5>. QED BY <2>1, <4>1, Zenon
      <4>. HIDE DEF g, Base, last
      <4>. QED BY <4>1, <4>2, Zenon
    <3>2. CASE k = n + 1
      <4>1. g[k] = last /\ k # 0 /\ k - 1 = n /\ g[k - 1] = f[n]
        <5>. HIDE DEF Base, Solves, last
        <5>. QED BY <3>2
      <4>. HIDE DEF g, Base
      <4>. QED BY <3>2, <4>1
    <3>3. k <= n \/ k = n + 1
      OBVIOUS
    <3>. QED BY <3>1, <3>2, <3>3
  <2>3. Solves(g, n + 1)
    <3>. HIDE DEF Base
    <3>. QED BY <2>2, Zenon
  <2>4. n + 1 \in Nat
    OBVIOUS
  <2>. HIDE DEF Solves, g
  <2>. QED BY <2>3, <2>4
<1>3. \E f : Solves(f, size)
  <2>. HIDE DEF Solves
  <2>. QED BY <1>1, <1>2, SetInduction
<1>4. Solves(CHOOSE f : Solves(f, size), size)
  <2>. HIDE DEF Solves
  <2>. QED BY <1>3, Zenon
<1>. QED
  <2>1. Solves(SwapUpTo(read, start, i, size), size)
    BY <1>4, Zenon DEF SwapUpTo
  <2>. QED BY <2>1

\* What build_decode_stack has after so many coders.
StackUpTo(blk, start, coder, count) ==
  CHOOSE f : f = [k \in 0..count |-> IF k = 0 THEN start ELSE add_coder(blk, f[k - 1], coder[k])]

\* The recursion has a solution.
LEMMA StackUpToDef ==
  ASSUME NEW blk, NEW start, NEW coder, NEW count, count \in Nat
  PROVE  StackUpTo(blk, start, coder, count) = [k \in 0..count |-> IF k = 0 THEN start ELSE add_coder(blk, StackUpTo(blk, start, coder, count)[k - 1], coder[k])]
<1>. DEFINE Base == start
            Solves(f, n) == f = [k \in 0..n |-> IF k = 0 THEN Base ELSE add_coder(blk, f[k - 1], coder[k])]
            Solved == {n \in Nat : \E f : Solves(f, n)}
<1>1. 0 \in Solved
  <2>1. Solves([k \in 0..0 |-> Base], 0)
    <3>. HIDE DEF Base
    <3>. QED OBVIOUS
  <2>. QED BY <2>1
<1>2. ASSUME NEW n \in Nat, n \in Solved PROVE n + 1 \in Solved
  <2>1. PICK f : Solves(f, n)
    BY <1>2
  <2>. DEFINE last == add_coder(blk, f[n], coder[(n + 1)])
              g == [k \in 0..(n + 1) |-> IF k <= n THEN f[k] ELSE last]
  <2>2. ASSUME NEW k \in 0..(n + 1)
        PROVE  g[k] = IF k = 0 THEN Base ELSE add_coder(blk, g[k - 1], coder[k])
    <3>1. CASE k <= n
      <4>1. k \in 0..n /\ g[k] = f[k] /\ (k # 0 => g[k - 1] = f[k - 1])
        <5>. HIDE DEF Base, Solves, last
        <5>. QED BY <3>1
      <4>2. f[k] = IF k = 0 THEN Base ELSE add_coder(blk, f[k - 1], coder[k])
        <5>. HIDE DEF Base, g, last
        <5>. QED BY <2>1, <4>1, Zenon
      <4>. HIDE DEF g, Base, last
      <4>. QED BY <4>1, <4>2, Zenon
    <3>2. CASE k = n + 1
      <4>1. g[k] = last /\ k # 0 /\ k - 1 = n /\ g[k - 1] = f[n]
        <5>. HIDE DEF Base, Solves, last
        <5>. QED BY <3>2
      <4>. HIDE DEF g, Base
      <4>. QED BY <3>2, <4>1
    <3>3. k <= n \/ k = n + 1
      OBVIOUS
    <3>. QED BY <3>1, <3>2, <3>3
  <2>3. Solves(g, n + 1)
    <3>. HIDE DEF Base
    <3>. QED BY <2>2, Zenon
  <2>4. n + 1 \in Nat
    OBVIOUS
  <2>. HIDE DEF Solves, g
  <2>. QED BY <2>3, <2>4
<1>3. \E f : Solves(f, count)
  <2>. HIDE DEF Solves
  <2>. QED BY <1>1, <1>2, SetInduction
<1>4. Solves(CHOOSE f : Solves(f, count), count)
  <2>. HIDE DEF Solves
  <2>. QED BY <1>3, Zenon
<1>. QED
  <2>1. Solves(StackUpTo(blk, start, coder, count), count)
    BY <1>4, Zenon DEF StackUpTo
  <2>. QED BY <2>1

\* The readers up to one.
ReadersUp(count) ==
  CHOOSE f : f = [k \in 1..count |-> IF k = 1 THEN Source ELSE ReaderOver(f[k - 1], k)]

\* The recursion has a solution.
LEMMA ReadersUpDef ==
  ASSUME NEW count, count \in Nat
  PROVE  ReadersUp(count) = [k \in 1..count |-> IF k = 1 THEN Source ELSE ReaderOver(ReadersUp(count)[k - 1], k)]
<1>. DEFINE Base == Source
            Solves(f, n) == f = [k \in 1..n |-> IF k = 1 THEN Base ELSE ReaderOver(f[k - 1], k)]
            Solved == {n \in Nat : \E f : Solves(f, n)}
<1>1. 0 \in Solved
  <2>1. Solves(<<>>, 0)
    <3>. HIDE DEF Base
    <3>. QED OBVIOUS
  <2>. QED BY <2>1
<1>2. ASSUME NEW n \in Nat, n \in Solved PROVE n + 1 \in Solved
  <2>1. PICK f : Solves(f, n)
    BY <1>2
  <2>. DEFINE last == ReaderOver(f[n], (n + 1))
              g == [k \in 1..(n + 1) |-> IF k <= n THEN f[k] ELSE IF n = 0 THEN Base ELSE last]
  <2>2. ASSUME NEW k \in 1..(n + 1)
        PROVE  g[k] = IF k = 1 THEN Base ELSE ReaderOver(g[k - 1], k)
    <3>1. CASE k <= n
      <4>1. k \in 1..n /\ g[k] = f[k] /\ (k # 1 => g[k - 1] = f[k - 1])
        <5>. HIDE DEF Base, Solves, last
        <5>. QED BY <3>1
      <4>2. f[k] = IF k = 1 THEN Base ELSE ReaderOver(f[k - 1], k)
        <5>. HIDE DEF Base, g, last
        <5>. QED BY <2>1, <4>1, Zenon
      <4>. HIDE DEF g, Base, last
      <4>. QED BY <4>1, <4>2, Zenon
    <3>2. CASE k = n + 1
      <4>1. /\ g[k] = (IF n = 0 THEN Base ELSE last) /\ (k = 1 <=> n = 0)
            /\ (n # 0 => k - 1 = n /\ g[k - 1] = f[n])
        <5>. HIDE DEF Base, Solves, last
        <5>. QED BY <3>2
      <4>2. CASE n = 0
        <5>. HIDE DEF g, Base
        <5>. QED BY <4>1, <4>2
      <4>3. CASE n # 0
        <5>. HIDE DEF g, Base
        <5>. QED BY <3>2, <4>1, <4>3
      <4>. QED BY <4>2, <4>3
    <3>3. k <= n \/ k = n + 1
      OBVIOUS
    <3>. QED BY <3>1, <3>2, <3>3
  <2>3. Solves(g, n + 1)
    <3>. HIDE DEF Base
    <3>. QED BY <2>2, Zenon
  <2>4. n + 1 \in Nat
    OBVIOUS
  <2>. HIDE DEF Solves, g
  <2>. QED BY <2>3, <2>4
<1>3. \E f : Solves(f, count)
  <2>. HIDE DEF Solves
  <2>. QED BY <1>1, <1>2, SetInduction
<1>4. Solves(CHOOSE f : Solves(f, count), count)
  <2>. HIDE DEF Solves
  <2>. QED BY <1>3, Zenon
<1>. QED
  <2>1. Solves(ReadersUp(count), count)
    BY <1>4, Zenon DEF ReadersUp
  <2>. QED BY <2>1

\* The coders up to one.
OrderUp(blk, count) ==
  CHOOSE f : f = [k \in 1..count |-> IF k = 1 THEN packed_stream(blk) ELSE (IF f[k - 1] = 0 THEN 0 ELSE CoderAfter(blk, f[k - 1]))]

\* The recursion has a solution.
LEMMA OrderUpDef ==
  ASSUME NEW blk, NEW count, count \in Nat
  PROVE  OrderUp(blk, count) = [k \in 1..count |-> IF k = 1 THEN packed_stream(blk) ELSE (IF OrderUp(blk, count)[k - 1] = 0 THEN 0 ELSE CoderAfter(blk, OrderUp(blk, count)[k - 1]))]
<1>. DEFINE Base == packed_stream(blk)
            Solves(f, n) == f = [k \in 1..n |-> IF k = 1 THEN Base ELSE (IF f[k - 1] = 0 THEN 0 ELSE CoderAfter(blk, f[k - 1]))]
            Solved == {n \in Nat : \E f : Solves(f, n)}
<1>1. 0 \in Solved
  <2>1. Solves(<<>>, 0)
    <3>. HIDE DEF Base
    <3>. QED OBVIOUS
  <2>. QED BY <2>1
<1>2. ASSUME NEW n \in Nat, n \in Solved PROVE n + 1 \in Solved
  <2>1. PICK f : Solves(f, n)
    BY <1>2
  <2>. DEFINE last == (IF f[n] = 0 THEN 0 ELSE CoderAfter(blk, f[n]))
              g == [k \in 1..(n + 1) |-> IF k <= n THEN f[k] ELSE IF n = 0 THEN Base ELSE last]
  <2>2. ASSUME NEW k \in 1..(n + 1)
        PROVE  g[k] = IF k = 1 THEN Base ELSE (IF g[k - 1] = 0 THEN 0 ELSE CoderAfter(blk, g[k - 1]))
    <3>1. CASE k <= n
      <4>1. k \in 1..n /\ g[k] = f[k] /\ (k # 1 => g[k - 1] = f[k - 1])
        <5>. HIDE DEF Base, Solves, last
        <5>. QED BY <3>1
      <4>2. f[k] = IF k = 1 THEN Base ELSE (IF f[k - 1] = 0 THEN 0 ELSE CoderAfter(blk, f[k - 1]))
        <5>. HIDE DEF Base, g, last
        <5>. QED BY <2>1, <4>1, Zenon
      <4>. HIDE DEF g, Base, last
      <4>. QED BY <4>1, <4>2, Zenon
    <3>2. CASE k = n + 1
      <4>1. /\ g[k] = (IF n = 0 THEN Base ELSE last) /\ (k = 1 <=> n = 0)
            /\ (n # 0 => k - 1 = n /\ g[k - 1] = f[n])
        <5>. HIDE DEF Base, Solves, last
        <5>. QED BY <3>2
      <4>2. CASE n = 0
        <5>. HIDE DEF g, Base
        <5>. QED BY <4>1, <4>2
      <4>3. CASE n # 0
        <5>. HIDE DEF g, Base
        <5>. QED BY <3>2, <4>1, <4>3
      <4>. QED BY <4>2, <4>3
    <3>3. k <= n \/ k = n + 1
      OBVIOUS
    <3>. QED BY <3>1, <3>2, <3>3
  <2>3. Solves(g, n + 1)
    <3>. HIDE DEF Base
    <3>. QED BY <2>2, Zenon
  <2>4. n + 1 \in Nat
    OBVIOUS
  <2>. HIDE DEF Solves, g
  <2>. QED BY <2>3, <2>4
<1>3. \E f : Solves(f, count)
  <2>. HIDE DEF Solves
  <2>. QED BY <1>1, <1>2, SetInduction
<1>4. Solves(CHOOSE f : Solves(f, count), count)
  <2>. HIDE DEF Solves
  <2>. QED BY <1>3, Zenon
<1>. QED
  <2>1. Solves(OrderUp(blk, count), count)
    BY <1>4, Zenon DEF OrderUp
  <2>. QED BY <2>1

\* The operators are their recursions.
LEMMA FillIs ==
  ASSUME NEW read, NEW s, NEW k
  PROVE  Fill(read, s, k) = Returned(FillUpTo(read, s, k)[k])
BY Zenon DEF Fill, FillUpTo

\* A read of a swap reader is its recursion.
LEMMA SwapUnitsIs ==
  ASSUME NEW read, NEW start, NEW i, NEW k
  PROVE  SwapUnits(read, start, i, k) = Returned(SwapUpTo(read, start, i, k)[k])
BY Zenon DEF SwapUnits, SwapUpTo

\* So are the readers of a stack,
LEMMA ReadersAre ==
  ASSUME NEW n
  PROVE  Readers(n) = ReadersUp(n)
BY Zenon DEF Readers, ReadersUp

\* the coders in order,
LEMMA OrderIs ==
  ASSUME NEW blk, NEW n, CoderNumbers(blk) = 1..n
  PROVE  ordered_coder_iter(blk) = OrderUp(blk, n)
BY Zenon DEF ordered_coder_iter, OrderUp

\* and the stack build_decode_stack makes.
LEMMA StackIs ==
  ASSUME NEW blk, NEW input
  PROVE  build_decode_stack(blk, input) =
           StackUpTo(blk, Result(<<PackedSource(input)>>, <<>>, packed_stream(blk) # 0),
                     ordered_coder_iter(blk), Len(blk.coders))[Len(blk.coders)]
BY Zenon DEF build_decode_stack, StackUpTo

\* The pair of each coder but the last is found under its own number.
LEMMA PairsFound ==
  ASSUME NEW S, NEW methods \in Seq(S), NEW sizes, NEW i \in Nat
  PROVE  LET blk == write_block(methods, sizes)
         IN  /\ find_bind_pair_for_out_stream(blk, i)
                  = IF i \in 1..(Len(methods) - 1) THEN {i} ELSE {}
             /\ find_bind_pair_for_in_stream(blk, i)
                  = IF i \in 2..Len(methods) THEN {i - 1} ELSE {}
<1>. DEFINE n == Len(methods)
            blk == write_block(methods, sizes)
<1>1. n \in Nat
  OBVIOUS
<1>2. /\ DOMAIN blk.bind_pairs = 1..(n - 1)
      /\ \A k \in 1..(n - 1) : blk.bind_pairs[k].in_index = k + 1
                               /\ blk.bind_pairs[k].out_index = k
  BY DEF write_block
<1>. HIDE DEF blk, n
<1>3. find_bind_pair_for_out_stream(blk, i) = {k \in 1..(n - 1) : k = i}
  BY <1>2 DEF find_bind_pair_for_out_stream
<1>4. find_bind_pair_for_in_stream(blk, i) = {k \in 1..(n - 1) : k + 1 = i}
  BY <1>2 DEF find_bind_pair_for_in_stream
<1>5. {k \in 1..(n - 1) : k = i} = IF i \in 1..(n - 1) THEN {i} ELSE {}
  BY <1>1
<1>6. {k \in 1..(n - 1) : k + 1 = i} = IF i \in 2..n THEN {i - 1} ELSE {}
  <2>1. CASE i \in 2..n
    BY <1>1, <2>1
  <2>2. CASE i \notin 2..n
    BY <1>1, <2>2
  <2>. QED BY <2>1, <2>2
<1>. QED BY <1>3, <1>4, <1>5, <1>6 DEF blk, n

\* The reader finds the packed stream at the first coder, which was next to the
\* output; goes from each coder to the one that was written to before it, up to the
\* last; and takes the size that was counted in front of that one for the size of the
\* blk (BlockInfo::write_to against read_block, OrderedCoderIter and
\* get_unpack_size).
THEOREM CodersComeBackInOrder ==
  ASSUME NEW S, NEW methods \in Seq(S), methods # <<>>, NEW sizes
  PROVE  LET blk == write_block(methods, sizes)
             n     == Len(methods)
         IN  /\ packed_stream(blk) = 1
             /\ \A i \in 1..(n - 1) : CoderAfter(blk, i) = i + 1
             /\ CoderAfter(blk, n) = 0
             /\ get_unpack_size(blk) = sizes[n]
             /\ \A i \in 1..n : ordered_coder_iter(blk)[i] = i
<1>. DEFINE n == Len(methods)
            blk == write_block(methods, sizes)
<1>1. n \in Nat \ {0}
  OBVIOUS
<1>2. /\ \A k \in 1..(n - 1) : blk.bind_pairs[k].in_index = k + 1
      /\ CoderNumbers(blk) = 1..n /\ blk.unpack_sizes = sizes
  BY DEF write_block, CoderNumbers
<1>3. \A i \in Nat :
        /\ find_bind_pair_for_out_stream(blk, i) = IF i \in 1..(n - 1) THEN {i} ELSE {}
        /\ find_bind_pair_for_in_stream(blk, i) = IF i \in 2..n THEN {i - 1} ELSE {}
  BY PairsFound
<1>. HIDE DEF blk, n
<1>4. packed_stream(blk) = 1
  <2>1. {i \in CoderNumbers(blk) : find_bind_pair_for_in_stream(blk, i) = {}} = {1}
    <3>1. \A i \in 1..n : find_bind_pair_for_in_stream(blk, i) = {} <=> i = 1
      <4>. SUFFICES ASSUME NEW i \in 1..n
                    PROVE  find_bind_pair_for_in_stream(blk, i) = {} <=> i = 1
        OBVIOUS
      <4>1. i \in Nat /\ (i \in 2..n <=> i # 1)
        BY <1>1
      <4>2. find_bind_pair_for_in_stream(blk, i) = IF i \in 2..n THEN {i - 1} ELSE {}
        BY <1>3, <4>1
      <4>. QED BY <4>1, <4>2
    <3>. QED BY <1>1, <1>2, <3>1
  <2>2. (CHOOSE i \in {1} : \A j \in {1} : i <= j) = 1
    OBVIOUS
  <2>. QED BY <2>1, <2>2 DEF packed_stream
<1>5. \A i \in 1..(n - 1) : CoderAfter(blk, i) = i + 1
  <2>. SUFFICES ASSUME NEW i \in 1..(n - 1) PROVE CoderAfter(blk, i) = i + 1
    OBVIOUS
  <2>1. i \in Nat /\ find_bind_pair_for_out_stream(blk, i) = {i}
    BY <1>1, <1>3
  <2>2. (CHOOSE k \in {i} : \A l \in {i} : k <= l) = i
    BY <2>1
  <2>3. CoderAfter(blk, i) = blk.bind_pairs[i].in_index
    BY <2>1, <2>2 DEF CoderAfter
  <2>. QED BY <1>2, <2>3
<1>6. CoderAfter(blk, n) = 0
  <2>1. find_bind_pair_for_out_stream(blk, n) = {}
    BY <1>1, <1>3
  <2>. QED BY <2>1 DEF CoderAfter
<1>7. get_unpack_size(blk) = sizes[n]
  <2>1. {i \in CoderNumbers(blk) : find_bind_pair_for_out_stream(blk, i) = {}} = {n}
    <3>1. \A i \in 1..n : find_bind_pair_for_out_stream(blk, i) = {} <=> i = n
      <4>. SUFFICES ASSUME NEW i \in 1..n
                    PROVE  find_bind_pair_for_out_stream(blk, i) = {} <=> i = n
        OBVIOUS
      <4>1. i \in Nat /\ (i \in 1..(n - 1) <=> i # n)
        BY <1>1
      <4>2. find_bind_pair_for_out_stream(blk, i) = IF i \in 1..(n - 1) THEN {i} ELSE {}
        BY <1>3, <4>1
      <4>. QED BY <4>1, <4>2
    <3>. QED BY <1>1, <1>2, <3>1
  <2>2. (CHOOSE i \in {n} : \A j \in {n} : j <= i) = n
    BY <1>1
  <2>. QED BY <1>2, <2>1, <2>2 DEF get_unpack_size
<1>8. \A i \in 1..n : ordered_coder_iter(blk)[i] = i
  <2>. DEFINE at == OrderUp(blk, n)
              In == {i \in Nat : i \in 1..n => at[i] = i}
  <2>1. ordered_coder_iter(blk) = at
    BY <1>2, OrderIs
  <2>2. \A i \in 1..n : at[i] = IF i = 1 THEN 1 ELSE IF at[i - 1] = 0 THEN 0 ELSE CoderAfter(blk, at[i - 1])
    <3>1. at = [k \in 1..n |-> IF k = 1 THEN packed_stream(blk)
                                ELSE (IF at[k - 1] = 0 THEN 0 ELSE CoderAfter(blk, at[k - 1]))]
      <4>1. n \in Nat
        BY <1>1
      <4>. QED BY <4>1, OrderUpDef DEF at
    <3>. HIDE DEF at
    <3>. QED BY <1>4, <3>1
  <2>. HIDE DEF at
  <2>3. 0 \in In
    BY <1>1
  <2>4. ASSUME NEW i \in Nat, i \in In PROVE i + 1 \in In
    <3>. SUFFICES ASSUME i + 1 \in 1..n PROVE at[i + 1] = i + 1
      OBVIOUS
    <3>1. CASE i = 0
      BY <2>2, <3>1
    <3>2. CASE i # 0
      <4>1. i \in 1..(n - 1) /\ at[i] = i /\ (i + 1) - 1 = i /\ i + 1 # 1
        BY <1>1, <2>4, <3>2
      <4>2. at[i + 1] = CoderAfter(blk, i)
        <5>. DEFINE j == i + 1
        <5>1. j \in 1..n /\ j # 1 /\ j - 1 = i
          BY <4>1
        <5>. HIDE DEF j
        <5>2. at[j] = CoderAfter(blk, at[i])
          BY <2>2, <4>1, <5>1, <3>2
        <5>. QED BY <4>1, <5>2 DEF j
      <4>. QED BY <1>5, <4>1, <4>2
    <3>. QED BY <3>1, <3>2
  <2>5. Nat \subseteq In
    <3>. HIDE DEF In
    <3>. QED BY <2>3, <2>4, SetInduction
  <2>. QED BY <2>1, <2>5
<1>. QED BY <1>4, <1>5, <1>6, <1>7, <1>8 DEF blk, n

-----------------------------------------------------------------------------
(* Stacks of decoders *)

With(s, i, d) == [s EXCEPT ![i] = d]

\* A stack whose readers find what they take out of their fields: pending is within
\* its array, and the AES decoder is next to a source of cipher blocks.
Sounds ==
  {s \in Stacks : \A i \in 1..Len(s) :
     /\ s[i].pending_len <= Len(s[i].held)
     /\ s[i].method = "SOURCE" => i = 1
     /\ s[i].method = "AES" => i = 2 /\ s[1].ready \in Seq(Cipher) /\ s[2].held \in Seq(Cipher)
                            /\ s[i].pending_len = 0}

\* t is s after reads from reader i: it has the same readers, and those above i are
\* as they were.
Kept(s, t, i) ==
  /\ t \in Sounds /\ Len(t) = Len(s)
  /\ \A j \in 1..Len(s) : t[j].method = s[j].method /\ (j > i => t[j] = s[j])

\* What a sound stack says of one reader.
LEMMA SoundIs ==
  ASSUME NEW s \in Sounds, NEW i \in 1..Len(s)
  PROVE  /\ s \in Stacks /\ Len(s) \in Nat /\ DOMAIN s = 1..Len(s) /\ s[i] \in Decoders
         /\ s[i].ready \in Seq(Units) /\ s[i].held \in Seq(Units) /\ s[i].pending_len \in Nat
         /\ s[i].remaining \in Nat /\ s[i].ended \in BOOLEAN
         /\ s[i].method \in {"SOURCE", "COPY", "SWAP2", "SWAP4", "AES", "LZ4", "BROTLI"}
         /\ s[i].pending_len <= Len(s[i].held)
         /\ s[i].method = "SOURCE" => i = 1
         /\ s[i].method = "AES" => i = 2 /\ s[1].ready \in Seq(Cipher) /\ s[2].held \in Seq(Cipher)
                                /\ s[i].pending_len = 0
<1>1. s \in Seq(Decoders) /\ s \in Stacks
  BY DEF Sounds, Stacks
<1>2. Len(s) \in Nat /\ DOMAIN s = 1..Len(s) /\ s[i] \in Decoders
  BY <1>1
<1>3. /\ s[i].ready \in Seq(Units) /\ s[i].held \in Seq(Units) /\ s[i].pending_len \in Nat
      /\ s[i].remaining \in Nat /\ s[i].ended \in BOOLEAN
      /\ s[i].method \in {"SOURCE", "COPY", "SWAP2", "SWAP4", "AES", "LZ4", "BROTLI"}
  BY <1>2 DEF Decoders
<1>. QED BY <1>1, <1>2, <1>3 DEF Sounds

\* One reader of a stack changed.
LEMMA WithIs ==
  ASSUME NEW s \in Sounds, NEW i \in 1..Len(s), NEW d \in Decoders
  PROVE  /\ With(s, i, d) \in Stacks /\ Len(With(s, i, d)) = Len(s)
         /\ With(s, i, d)[i] = d
         /\ \A j \in 1..Len(s) : j # i => With(s, i, d)[j] = s[j]
<1>1. s \in Seq(Decoders) /\ Len(s) \in Nat
  BY DEF Sounds, Stacks
<1>. QED BY <1>1 DEF With, Stacks

\* A reader that changed no more than its own fields.
LEMMA KeptWith ==
  ASSUME NEW s \in Sounds, NEW i \in 1..Len(s), NEW d \in Decoders,
         d.method = s[i].method, d.pending_len <= Len(d.held),
         i = 1 /\ s[1].ready \in Seq(Cipher) => d.ready \in Seq(Cipher),
         d.method = "AES" => d.held \in Seq(Cipher) /\ d.pending_len = 0
  PROVE  Kept(s, With(s, i, d), i)
<1>. DEFINE t == With(s, i, d)
<1>1. t \in Stacks /\ Len(t) = Len(s) /\ t[i] = d /\ \A j \in 1..Len(s) : j # i => t[j] = s[j]
  BY WithIs
<1>. HIDE DEF t
<1>2. ASSUME NEW j \in 1..Len(s)
      PROVE  /\ t[j].pending_len <= Len(t[j].held)
             /\ t[j].method = "SOURCE" => j = 1
             /\ t[j].method = "AES" => j = 2 /\ t[1].ready \in Seq(Cipher) /\ t[2].held \in Seq(Cipher)
                                    /\ t[j].pending_len = 0
             /\ t[j].method = s[j].method
  <2>1. /\ s[j].pending_len <= Len(s[j].held)
        /\ s[j].method = "SOURCE" => j = 1
        /\ s[j].method = "AES" => j = 2 /\ s[1].ready \in Seq(Cipher) /\ s[2].held \in Seq(Cipher)
                                /\ s[j].pending_len = 0
    BY SoundIs
  <2>2. t[j].method = s[j].method /\ t[j].pending_len <= Len(t[j].held)
    BY <1>1, <2>1
  <2>3. ASSUME t[j].method = "AES" PROVE t[1].ready \in Seq(Cipher) /\ t[2].held \in Seq(Cipher) /\ t[j].pending_len = 0
    <3>1. j = 2 /\ s[j].pending_len = 0 /\ s[1].ready \in Seq(Cipher) /\ s[2].held \in Seq(Cipher) /\ 1 \in 1..Len(s)
      BY <2>1, <2>2, <2>3
    <3>2. CASE i = 1
      BY <1>1, <3>1, <3>2
    <3>3. CASE i = 2
      BY <1>1, <2>3, <3>1, <3>3
    <3>4. CASE i # 1 /\ i # 2
      BY <1>1, <3>1, <3>4
    <3>. QED BY <3>2, <3>3, <3>4
  <2>. QED BY <2>1, <2>2, <2>3
<1>3. \A j \in 1..Len(s) : j > i => t[j] = s[j]
  BY <1>1
<1>4. t \in Sounds
  BY <1>1, <1>2 DEF Sounds
<1>. QED BY <1>1, <1>2, <1>3, <1>4 DEF Kept, t

\* Kept is reflexive, transitive, and inherited from a reader below.
LEMMA KeptSame ==
  ASSUME NEW s \in Sounds, NEW i
  PROVE  Kept(s, s, i)
BY DEF Kept

\* Two reads, one after the other.
LEMMA KeptTrans ==
  ASSUME NEW s \in Sounds, NEW t, NEW u, NEW i, Kept(s, t, i), Kept(t, u, i)
  PROVE  Kept(s, u, i)
BY DEF Kept

\* A read from the reader below.
LEMMA KeptBelow ==
  ASSUME NEW s \in Sounds, NEW t, NEW i \in 1..Len(s), Kept(s, t, i - 1)
  PROVE  /\ Kept(s, t, i) /\ t[i] = s[i] /\ t \in Sounds /\ Len(t) = Len(s)
         /\ i \in 1..Len(t) /\ (\A j \in 1..Len(s) : t[j].method = s[j].method)
<1>1. Len(s) \in Nat
  BY SoundIs
<1>. QED BY <1>1 DEF Kept

\* What Kept says.
LEMMA KeptIs ==
  ASSUME NEW s, NEW t, NEW i, Kept(s, t, i)
  PROVE  /\ t \in Sounds /\ Len(t) = Len(s)
         /\ (\A j \in 1..Len(s) : t[j].method = s[j].method)
         /\ (\A j \in 1..Len(s) : j > i => t[j] = s[j])
BY DEF Kept

\* A decoder with other fields.
SetReady(d, units) == [d EXCEPT !.ready = units]
SetPending(d, n) == [d EXCEPT !.pending_len = n]
SetRemaining(d, n) == [d EXCEPT !.remaining = n]
SetEnded(d) == [d EXCEPT !.ended = TRUE]
Loaded(d, units) == [d EXCEPT !.remaining = 0, !.ready = units]
Decrypted(d, units, held) == [d EXCEPT !.ready = units, !.held = held]

\* The updates of the readers are these.
LEMMA EditsAre ==
  ASSUME NEW s, NEW i, NEW x, NEW y
  PROVE  /\ [s EXCEPT ![i].ready = x] = With(s, i, SetReady(s[i], x))
         /\ [s EXCEPT ![i].pending_len = x] = With(s, i, SetPending(s[i], x))
         /\ [s EXCEPT ![i].remaining = x] = With(s, i, SetRemaining(s[i], x))
         /\ [s EXCEPT ![i].ended = TRUE] = With(s, i, SetEnded(s[i]))
         /\ i \in DOMAIN s => /\ [s EXCEPT ![i].remaining = 0, ![i].ready = x] = With(s, i, Loaded(s[i], x))
                              /\ [s EXCEPT ![i].ready = x, ![i].held = y] = With(s, i, Decrypted(s[i], x, y))
<1>1. /\ [s EXCEPT ![i].ready = x] = With(s, i, SetReady(s[i], x))
      /\ [s EXCEPT ![i].pending_len = x] = With(s, i, SetPending(s[i], x))
      /\ [s EXCEPT ![i].remaining = x] = With(s, i, SetRemaining(s[i], x))
      /\ [s EXCEPT ![i].ended = TRUE] = With(s, i, SetEnded(s[i]))
  BY DEF With, SetReady, SetPending, SetRemaining, SetEnded
<1>2. i \in DOMAIN s => [s EXCEPT ![i].remaining = 0, ![i].ready = x] = With(s, i, Loaded(s[i], x))
  BY DEF With, Loaded
<1>3. i \in DOMAIN s => [s EXCEPT ![i].ready = x, ![i].held = y] = With(s, i, Decrypted(s[i], x, y))
  BY DEF With, Decrypted
<1>. QED BY <1>1, <1>2, <1>3

\* The fields of a decoder after them.
LEMMA FieldsAre ==
  ASSUME NEW d \in Decoders, NEW x \in Seq(Units), NEW y \in Seq(Units), NEW n \in Nat
  PROVE  /\ SetReady(d, x) \in Decoders /\ SetReady(d, x).ready = x
         /\ SetReady(d, x).method = d.method /\ SetReady(d, x).held = d.held
         /\ SetReady(d, x).pending_len = d.pending_len /\ SetReady(d, x).remaining = d.remaining
         /\ SetReady(d, x).ended = d.ended
         /\ SetPending(d, n) \in Decoders /\ SetPending(d, n).pending_len = n
         /\ SetPending(d, n).method = d.method /\ SetPending(d, n).held = d.held
         /\ SetRemaining(d, n) \in Decoders /\ SetRemaining(d, n).remaining = n
         /\ SetRemaining(d, n).method = d.method /\ SetRemaining(d, n).held = d.held
         /\ SetRemaining(d, n).pending_len = d.pending_len /\ SetRemaining(d, n).ready = d.ready
         /\ SetRemaining(d, n).ended = d.ended
BY DEF Decoders, SetReady, SetPending, SetRemaining

\* More of them.
LEMMA MoreFieldsAre ==
  ASSUME NEW d \in Decoders, NEW x \in Seq(Units), NEW y \in Seq(Units)
  PROVE  /\ SetEnded(d) \in Decoders /\ SetEnded(d).ended = TRUE
         /\ SetEnded(d).method = d.method /\ SetEnded(d).held = d.held
         /\ SetEnded(d).pending_len = d.pending_len /\ SetEnded(d).ready = d.ready
         /\ Loaded(d, x) \in Decoders /\ Loaded(d, x).ready = x /\ Loaded(d, x).remaining = 0
         /\ Loaded(d, x).method = d.method /\ Loaded(d, x).held = d.held
         /\ Loaded(d, x).pending_len = d.pending_len /\ Loaded(d, x).ended = d.ended
         /\ Decrypted(d, x, y) \in Decoders /\ Decrypted(d, x, y).ready = x
         /\ Decrypted(d, x, y).held = y /\ Decrypted(d, x, y).method = d.method
         /\ Decrypted(d, x, y).pending_len = d.pending_len /\ Decrypted(d, x, y).ended = d.ended
BY DEF Decoders, SetEnded, Loaded, Decrypted

\* The first units of a sequence, and the others.
LEMMA CutIs ==
  ASSUME NEW S, NEW s \in Seq(S), NEW n \in 0..Len(s)
  PROVE  /\ First(s, n) \in Seq(S) /\ Len(First(s, n)) = n
         /\ From(s, n) \in Seq(S) /\ Len(From(s, n)) = Len(s) - n
         /\ First(s, n) \o From(s, n) = s
         /\ \A j \in 1..n : First(s, n)[j] = s[j]
         /\ \A j \in 1..(Len(s) - n) : From(s, n)[j] = s[j + n]
<1>1. Len(s) \in Nat
  OBVIOUS
<1>2. First(s, n) \in Seq(S) /\ Len(First(s, n)) = n /\ \A j \in 1..n : First(s, n)[j] = s[j]
  BY <1>1 DEF First
<1>3. From(s, n) \in Seq(S) /\ Len(From(s, n)) = Len(s) - n /\ \A j \in 1..(Len(s) - n) : From(s, n)[j] = s[j + n]
  BY <1>1, UpperIs
<1>4. First(s, n) \o From(s, n) = s
  <2>. DEFINE a == First(s, n)
              b == From(s, n)
              m == Len(s)
  <2>1. a \in Seq(S) /\ b \in Seq(S) /\ Len(a) = n /\ Len(b) = m - n /\ m \in Nat /\ n \in 0..m
        /\ (\A j \in 1..n : a[j] = s[j]) /\ \A j \in 1..(m - n) : b[j] = s[j + n]
    BY <1>1, <1>2, <1>3
  <2>. HIDE DEF a, b
  <2>2. a \o b \in Seq(S) /\ Len(a \o b) = m
        /\ \A j \in 1..m : (a \o b)[j] = IF j <= n THEN a[j] ELSE b[j - n]
    <3>. HIDE DEF m
    <3>1. Len(a) + Len(b) = m
      BY <2>1
    <3>2. a \o b \in Seq(S) /\ Len(a \o b) = Len(a) + Len(b)
          /\ \A j \in 1..(Len(a) + Len(b)) : (a \o b)[j] = IF j <= Len(a) THEN a[j] ELSE b[j - Len(a)]
      <4>1. a \in Seq(S) /\ b \in Seq(S)
        BY <2>1
      <4>. QED BY <4>1, ConcatProperties
    <3>. QED BY <2>1, <3>1, <3>2
  <2>3. ASSUME NEW j \in 1..m PROVE (a \o b)[j] = s[j]
    <3>. HIDE DEF m
    <3>1. j <= n => j \in 1..n
      BY <2>1
    <3>2. ~(j <= n) => j - n \in 1..(m - n) /\ (j - n) + n = j
      BY <2>1
    <3>. QED BY <2>1, <2>2, <3>1, <3>2
  <2>. QED BY <2>2, <2>3, SeqEqual DEF a, b
<1>. QED BY <1>2, <1>3, <1>4

\* A sequence is cut in one way at a length.
LEMMA CutUnique ==
  ASSUME NEW S, NEW a \in Seq(S), NEW b \in Seq(S)
  PROVE  /\ a \o b \in Seq(S) /\ Len(a \o b) = Len(a) + Len(b)
         /\ First(a \o b, Len(a)) = a /\ From(a \o b, Len(a)) = b
<1>0. PICK s : s = a \o b
  OBVIOUS
<1>. DEFINE n == Len(a)
            m == Len(b)
<1>1. n \in Nat /\ m \in Nat
  OBVIOUS
<1>2. s \in Seq(S) /\ Len(s) = n + m
      /\ \A j \in 1..(n + m) : s[j] = IF j <= n THEN a[j] ELSE b[j - n]
  BY <1>0, ConcatProperties
<1>. HIDE DEF n, m
<1>3. n \in 0..Len(s)
  BY <1>1, <1>2
<1>4. /\ First(s, n) \in Seq(S) /\ Len(First(s, n)) = n /\ From(s, n) \in Seq(S) /\ Len(From(s, n)) = m
  <2>1. Len(s) - n = m
    BY <1>1, <1>2
  <2>. QED BY <1>2, <1>3, <2>1, CutIs
<1>5. \A j \in 1..n : First(s, n)[j] = s[j]
  BY <1>2, <1>3, CutIs
<1>6. \A j \in 1..m : From(s, n)[j] = s[j + n]
  <2>1. Len(s) - n = m
    BY <1>1, <1>2
  <2>2. \A j \in 1..(Len(s) - n) : From(s, n)[j] = s[j + n]
    BY <1>2, <1>3, CutIs
  <2>. QED BY <2>1, <2>2
<1>7. \A j \in 1..n : First(s, n)[j] = a[j]
  <2>1. \A j \in 1..n : j \in 1..(n + m) /\ j <= n
    BY <1>1
  <2>. QED BY <1>2, <1>5, <2>1
<1>8. \A j \in 1..m : From(s, n)[j] = b[j]
  <2>1. \A j \in 1..m : j + n \in 1..(n + m) /\ ~(j + n <= n) /\ (j + n) - n = j
    BY <1>1
  <2>. QED BY <1>2, <1>6, <2>1
<1>9. First(s, n) = a
  BY <1>4, <1>7, SeqEqual DEF n
<1>10. From(s, n) = b
  BY <1>4, <1>8, SeqEqual DEF m
<1>. QED BY <1>0, <1>2, <1>9, <1>10 DEF n, m

\* Two cuts at the same length are one.
LEMMA SameCut ==
  ASSUME NEW S, NEW a \in Seq(S), NEW b \in Seq(S), NEW c \in Seq(S), NEW d \in Seq(S),
         a \o b = c \o d, Len(a) = Len(c)
  PROVE  a = c /\ b = d
<1>1. First(a \o b, Len(a)) = a /\ From(a \o b, Len(a)) = b
  BY CutUnique
<1>2. First(c \o d, Len(c)) = c /\ From(c \o d, Len(c)) = d
  BY CutUnique
<1>. QED BY <1>1, <1>2

\* What a read of k units from reader i of s returns; a reader that always does.
Sane(r, s, i, k) == Kept(s, r.stack, i) /\ r.got \in Seq(Units) /\ Len(r.got) <= k
SaneReader(read, i) ==
  \A s \in Sounds : \A k \in Nat \ {0} : i \in 1..Len(s) => Sane(read[s][k], s, i, k)

\* Fields of results.
LEMMA ResultIs ==
  ASSUME NEW s, NEW got, NEW ok, NEW over
  PROVE  /\ Result(s, got, ok).stack = s /\ Result(s, got, ok).got = got /\ Result(s, got, ok).ok = ok
         /\ Round(s, got, ok, over).stack = s /\ Round(s, got, ok, over).got = got
         /\ Round(s, got, ok, over).ok = ok /\ Round(s, got, ok, over).over = over
BY DEF Result, Round

\* What a loop of reads returns.
LEMMA ReturnedIs ==
  ASSUME NEW acc
  PROVE  Returned(acc).stack = acc.stack /\ Returned(acc).got = acc.got /\ Returned(acc).ok = acc.ok
BY DEF Returned, Result

\* The smaller of two.
LEMMA AtMostIs ==
  ASSUME NEW k \in Nat, NEW n \in Nat
  PROVE  AtMost(k, n) \in 0..n /\ AtMost(k, n) <= k /\ (AtMost(k, n) = k \/ AtMost(k, n) = n)
BY DEF AtMost

\* Take hands out the first of the ready units.
LEMMA TakeIs ==
  ASSUME NEW s \in Sounds, NEW i \in 1..Len(s), NEW k \in Nat
  PROVE  LET n == AtMost(k, Len(s[i].ready))
         IN  /\ Take(s, i, k).got = First(s[i].ready, n) /\ Take(s, i, k).ok = TRUE
             /\ Take(s, i, k).stack = With(s, i, SetReady(s[i], From(s[i].ready, n)))
             /\ n \in 0..Len(s[i].ready) /\ s[i].ready \in Seq(Units)
<1>. DEFINE n == AtMost(k, Len(s[i].ready))
<1>1. s[i].ready \in Seq(Units) /\ Len(s[i].ready) \in Nat
  <2>1. s[i].ready \in Seq(Units)
    BY SoundIs
  <2>. QED BY <2>1, LenProperties
<1>2. n \in 0..Len(s[i].ready)
  BY <1>1, AtMostIs
<1>3. Take(s, i, k) = Result([s EXCEPT ![i].ready = From(@, n)], First(s[i].ready, n), TRUE)
  BY Zenon DEF Take
<1>4. i \in DOMAIN s
  BY SoundIs
<1>5. [s EXCEPT ![i].ready = From(@, n)] = With(s, i, SetReady(s[i], From(s[i].ready, n)))
  BY <1>4 DEF With, SetReady
<1>. HIDE DEF n
<1>. QED BY <1>1, <1>2, <1>3, <1>5 DEF n, Result

\* ... and no more than was asked for.
LEMMA TakeSane ==
  ASSUME NEW s \in Sounds, NEW i \in 1..Len(s), NEW k \in Nat
  PROVE  /\ Sane(Take(s, i, k), s, i, k)
         /\ s[i].ready \in Seq(Cipher) => Take(s, i, k).got \in Seq(Cipher)
<1>. DEFINE q == s[i].ready
            n == AtMost(k, Len(q))
            d == SetReady(s[i], From(q, n))
<1>1. /\ Take(s, i, k).got = First(q, n) /\ Take(s, i, k).stack = With(s, i, d)
      /\ n \in 0..Len(q) /\ q \in Seq(Units)
  BY TakeIs
<1>. HIDE DEF n
<1>2. First(q, n) \in Seq(Units) /\ Len(First(q, n)) = n /\ From(q, n) \in Seq(Units)
  <2>. HIDE DEF q
  <2>. QED BY <1>1, CutIs
<1>3. q \in Seq(Cipher) => First(q, n) \in Seq(Cipher) /\ From(q, n) \in Seq(Cipher)
  <2>. HIDE DEF q
  <2>. QED BY <1>1, CutIs
<1>4. n <= k
  <2>1. Len(q) \in Nat
    BY <1>1, LenProperties
  <2>. QED BY <2>1, AtMostIs DEF n
<1>5. /\ s[i] \in Decoders /\ s[i].pending_len <= Len(s[i].held)
      /\ (s[i].method = "AES" => i = 2 /\ s[2].held \in Seq(Cipher) /\ s[i].pending_len = 0)
  BY SoundIs
<1>6. /\ d \in Decoders /\ d.ready = From(q, n) /\ d.method = s[i].method /\ d.held = s[i].held
      /\ d.pending_len = s[i].pending_len
  <2>. HIDE DEF q
  <2>. QED BY <1>2, <1>5, FieldsAre
<1>. HIDE DEF d
<1>7. Kept(s, With(s, i, d), i)
  <2>1. d.pending_len <= Len(d.held)
    BY <1>5, <1>6
  <2>2. i = 1 /\ s[1].ready \in Seq(Cipher) => d.ready \in Seq(Cipher)
    BY <1>3, <1>6
  <2>3. d.method = "AES" => d.held \in Seq(Cipher) /\ d.pending_len = 0
    BY <1>5, <1>6
  <2>. QED BY <1>6, <2>1, <2>2, <2>3, KeptWith
<1>. QED BY <1>1, <1>2, <1>3, <1>4, <1>7 DEF Sane

\* A read from a sane reader.
LEMMA SaneRead ==
  ASSUME NEW read, NEW i, NEW s \in Sounds, NEW k \in Nat \ {0}, SaneReader(read, i), i \in 1..Len(s)
  PROVE  /\ Kept(s, read[s][k].stack, i) /\ read[s][k].got \in Seq(Units) /\ Len(read[s][k].got) <= k
BY DEF SaneReader, Sane

\* A round of Fill.
LEMMA FillRoundIs ==
  ASSUME NEW read, NEW acc, NEW k, NEW r, r = read[acc.stack][k - Len(acc.got)]
  PROVE  /\ acc.over \/ Len(acc.got) = k => FillRound(read, acc, k) = acc
         /\ ~(acc.over \/ Len(acc.got) = k) =>
              FillRound(read, acc, k) = Round(r.stack, acc.got \o r.got, r.ok, ~r.ok \/ r.got = <<>>)
BY Zenon DEF FillRound

\* The rounds of a loop of reads are sane,
LEMMA FillRoundsSane ==
  ASSUME NEW read, NEW i, NEW s \in Sounds, NEW k \in Nat, SaneReader(read, i), i \in 1..Len(s)
  PROVE  \A j \in 0..k : Sane(FillUpTo(read, s, k)[j], s, i, k)
<1>. DEFINE f == FillUpTo(read, s, k)
            In == {j \in Nat : j \in 0..k => Sane(f[j], s, i, k)}
<1>1. f = [j \in 0..k |-> IF j = 0 THEN Before(s, <<>>) ELSE FillRound(read, f[j - 1], k)]
  <2>. HIDE DEF In
  <2>1. k \in Nat => FillUpTo(read, s, k) = [j \in 0..k |-> IF j = 0 THEN Before(s, <<>>) ELSE FillRound(read, FillUpTo(read, s, k)[j - 1], k)]
    BY FillUpToDef
  <2>. QED BY <2>1 DEF f
<1>. HIDE DEF f
<1>2. 0 \in In
  <2>1. f[0] = Before(s, <<>>)
    BY <1>1
  <2>2. f[0].stack = s /\ f[0].got = <<>>
    BY <2>1 DEF Round, Before
  <2>3. <<>> \in Seq(Units) /\ Len(<<>>) <= k
    OBVIOUS
  <2>. QED BY <2>2, <2>3, KeptSame DEF Sane
<1>3. ASSUME NEW j \in Nat, j \in In PROVE j + 1 \in In
  <2>. SUFFICES ASSUME j + 1 \in 0..k PROVE Sane(f[j + 1], s, i, k)
    OBVIOUS
  <2>. DEFINE acc == f[j]
              r == read[acc.stack][k - Len(acc.got)]
  <2>1. f[j + 1] = FillRound(read, acc, k)
    <3>1. j + 1 # 0 /\ (j + 1) - 1 = j
      OBVIOUS
    <3>. QED BY <1>1, <3>1
  <2>2. Kept(s, acc.stack, i) /\ acc.got \in Seq(Units) /\ Len(acc.got) <= k /\ Len(acc.got) \in Nat
    <3>1. Sane(acc, s, i, k)
      BY <1>3
    <3>2. acc.got \in Seq(Units)
      BY <3>1 DEF Sane
    <3>. QED BY <3>1, <3>2, LenProperties DEF Sane
  <2>. HIDE DEF acc
  <2>3. CASE acc.over \/ Len(acc.got) = k
    BY <2>1, <2>2, <2>3, FillRoundIs DEF Sane
  <2>4. CASE ~(acc.over \/ Len(acc.got) = k)
    <3>1. FillRound(read, acc, k) = Round(r.stack, acc.got \o r.got, r.ok, ~r.ok \/ r.got = <<>>)
      BY <2>4, FillRoundIs
    <3>2. k - Len(acc.got) \in Nat \ {0}
      BY <2>2, <2>4
    <3>3. acc.stack \in Sounds /\ i \in 1..Len(acc.stack)
      BY <2>2, KeptIs
    <3>4. Kept(acc.stack, r.stack, i) /\ r.got \in Seq(Units) /\ Len(r.got) <= k - Len(acc.got)
      BY <3>2, <3>3, SaneRead
    <3>. HIDE DEF r
    <3>5. Kept(s, r.stack, i)
      BY <2>2, <3>4, KeptTrans
    <3>. DEFINE a == acc.got
                b == r.got
    <3>6. a \o b \in Seq(Units) /\ Len(a \o b) <= k
      <4>1. a \in Seq(Units) /\ b \in Seq(Units)
        BY <2>2, <3>4
      <4>2. Len(a) \in Nat /\ Len(b) \in Nat /\ Len(b) <= k - Len(a)
        BY <2>2, <3>4, <4>1, LenProperties
      <4>. HIDE DEF a, b
      <4>3. a \o b \in Seq(Units) /\ Len(a \o b) = Len(a) + Len(b)
        BY <4>1, ConcatProperties
      <4>. QED BY <4>2, <4>3
    <3>. HIDE DEF a, b
    <3>7. f[j + 1].stack = r.stack /\ f[j + 1].got = a \o b
      <4>1. f[j + 1] = Round(r.stack, a \o b, r.ok, ~r.ok \/ r.got = <<>>)
        BY <2>1, <3>1 DEF a, b
      <4>. QED BY <4>1 DEF Round
    <3>. QED BY <3>5, <3>6, <3>7 DEF Sane
  <2>. QED BY <2>3, <2>4
<1>4. Nat \subseteq In
  <2>. HIDE DEF In
  <2>. QED BY <1>2, <1>3, SetInduction
<1>. QED BY <1>4 DEF f

\* read_exact and the loops like it return no more than they were asked for.
LEMMA FillSane ==
  ASSUME NEW read, NEW i, NEW s \in Sounds, NEW k \in Nat, SaneReader(read, i), i \in 1..Len(s)
  PROVE  Sane(Fill(read, s, k), s, i, k)
<1>1. k \in 0..k
  OBVIOUS
<1>2. Sane(FillUpTo(read, s, k)[k], s, i, k)
  BY <1>1, FillRoundsSane
<1>. QED BY <1>2, FillIs, ReturnedIs DEF Sane

-----------------------------------------------------------------------------
(* The swap readers *)

\* The pending units of a swap reader: stored, and taken.
LEMMA KeepIs ==
  ASSUME NEW d \in Decoders, NEW u \in Seq(Units)
  PROVE  /\ Keep(d, u) \in Decoders /\ Keep(d, u).method = d.method
         /\ Keep(d, u).pending_len = Len(u) /\ Keep(d, u).held = u \o From(d.held, Len(u))
         /\ From(d.held, Len(u)) \in Seq(Units)
         /\ Keep(d, u).pending_len <= Len(Keep(d, u).held)
<1>. DEFINE b == From(d.held, Len(u))
<1>1. d.held \in Seq(Units) /\ Len(u) \in Nat /\ Len(d.held) \in Nat
  BY DEF Decoders
<1>2. b \in Seq(Units)
  <2>1. CASE Len(u) <= Len(d.held)
    <3>1. Len(u) \in 0..Len(d.held)
      BY <1>1, <2>1
    <3>. QED BY <1>1, <3>1, CutIs
  <2>2. CASE Len(u) > Len(d.held)
    <3>1. b = <<>>
      BY <1>1, <2>2 DEF From
    <3>. QED BY <3>1
  <2>. QED BY <1>1, <2>1, <2>2
<1>. HIDE DEF b
<1>3. u \o b \in Seq(Units) /\ Len(u \o b) = Len(u) + Len(b) /\ Len(b) \in Nat
  BY <1>2, ConcatProperties, LenProperties
<1>. DEFINE h == u \o b
            n == Len(u)
<1>4. h \in Seq(Units) /\ n <= Len(h) /\ n \in Nat
  <2>1. h \in Seq(Units) /\ Len(h) = n + Len(b)
    BY <1>3
  <2>. HIDE DEF h, n
  <2>2. n \in Nat /\ Len(b) \in Nat
    BY <1>1, <1>3 DEF n
  <2>. QED BY <2>1, <2>2
<1>5. Keep(d, u) = [d EXCEPT !.held = h, !.pending_len = n]
  BY DEF Keep, b
<1>. HIDE DEF h, n
<1>6. /\ Keep(d, u) \in Decoders /\ Keep(d, u).method = d.method
      /\ Keep(d, u).pending_len = n /\ Keep(d, u).held = h
  BY <1>4, <1>5 DEF Decoders
<1>. QED BY <1>2, <1>4, <1>6 DEF h, n, b

\* ... and taken.
LEMMA EmitIs ==
  ASSUME NEW d \in Decoders, d.pending_len <= Len(d.held), NEW n \in 0..d.pending_len
  PROVE  Emit(d, n) \in Seq(Units) /\ Len(Emit(d, n)) = n
<1>1. d.held \in Seq(Units) /\ d.pending_len \in Nat
  BY DEF Decoders
<1>. DEFINE h == d.held
            p == d.pending_len
<1>2. h \in Seq(Units) /\ p \in Nat /\ Len(h) \in Nat /\ p <= Len(h) /\ n \in 0..p
  BY <1>1, LenProperties
<1>3. Emit(d, n) = [j \in 1..n |-> h[Len(h) - p + j]]
  BY DEF Emit
<1>. HIDE DEF h, p
<1>4. \A j \in 1..n : Len(h) - p + j \in 1..Len(h)
  BY <1>2
<1>5. \A j \in 1..n : h[Len(h) - p + j] \in Units
  BY <1>2, <1>4
<1>. QED BY <1>2, <1>3, <1>5

\* A unit has two or four bytes.
LEMMA UnitIs ==
  ASSUME NEW m \in Swaps
  PROVE  Unit(m) \in Nat \ {0}
BY DEF Unit, Swaps

\* A unit is read in a sane way.
LEMMA UnitRead ==
  ASSUME NEW read, NEW i, NEW s \in Sounds, SaneReader(read, i - 1), i \in 2..Len(s), s[i].method \in Swaps,
         NEW r, r = Fill(read, s, Unit(s[i].method))
  PROVE  /\ Kept(s, r.stack, i - 1) /\ r.got \in Seq(Units)
         /\ Reverse(r.got) \in Seq(Units) /\ Len(Reverse(r.got)) = Len(r.got)
<1>1. i - 1 \in 1..Len(s)
  BY SoundIs
<1>2. Unit(s[i].method) \in Nat
  BY UnitIs
<1>3. Sane(r, s, i - 1, Unit(s[i].method))
  BY <1>1, <1>2, FillSane
<1>4. Kept(s, r.stack, i - 1) /\ r.got \in Seq(Units)
  BY <1>3 DEF Sane
<1>. QED BY <1>4, Reversed

\* A unit of Swap2Reader and Swap4Reader: what does not fit the buffer fits
\* pending.
LEMMA SwapRoundSane ==
  ASSUME NEW read, NEW i, NEW s \in Sounds, NEW k \in Nat, NEW acc,
         SaneReader(read, i - 1), i \in 2..Len(s), s[i].method \in Swaps,
         Sane(acc, s, i, k)
  PROVE  Sane(SwapRound(read, acc, i, k), s, i, k)
<1>. DEFINE r == Fill(read, acc.stack, Unit(acc.stack[i].method))
            unit == Reverse(r.got)
            n == AtMost(k - Len(acc.got), Len(unit))
            kept == From(unit, n)
            d == Keep(r.stack[i], kept)
            g == First(unit, n)
<1>1. Kept(s, acc.stack, i) /\ acc.got \in Seq(Units) /\ Len(acc.got) <= k /\ Len(acc.got) \in Nat
  <2>1. acc.got \in Seq(Units)
    BY DEF Sane
  <2>. QED BY <2>1, LenProperties DEF Sane
<1>2. CASE acc.over \/ Len(acc.got) = k
  <2>1. SwapRound(read, acc, i, k) = acc
    BY <1>2, Zenon DEF SwapRound, HandOut
  <2>. QED BY <2>1
<1>3. CASE ~(acc.over \/ Len(acc.got) = k)
  <2>1. /\ acc.stack \in Sounds /\ i \in 2..Len(acc.stack) /\ acc.stack[i].method \in Swaps
        /\ i \in 1..Len(s) /\ i # 1 /\ i \in 1..Len(acc.stack)
    <3>1. i \in 1..Len(s) /\ i # 1
      BY SoundIs
    <3>. QED BY <1>1, <3>1, KeptIs
  <2>2. /\ Kept(acc.stack, r.stack, i - 1) /\ r.got \in Seq(Units)
        /\ unit \in Seq(Units) /\ Len(unit) = Len(r.got)
    BY <2>1, UnitRead
  <2>3. Kept(acc.stack, r.stack, i) /\ r.stack \in Sounds /\ i \in 1..Len(r.stack)
        /\ r.stack[i].method = acc.stack[i].method /\ acc.stack[i].method \in Swaps
    BY <2>1, <2>2, KeptBelow
  <2>4. CASE ~r.ok
    <3>. HIDE DEF r
    <3>1. SwapRound(read, acc, i, k) = Round(r.stack, acc.got, FALSE, TRUE)
      BY <1>3, <2>4, Zenon DEF r, SwapRound, HandOut
    <3>2. SwapRound(read, acc, i, k).stack = r.stack /\ SwapRound(read, acc, i, k).got = acc.got
      BY <3>1 DEF Round
    <3>3. Kept(s, r.stack, i)
      BY <1>1, <2>3, KeptTrans
    <3>. QED BY <1>1, <3>2, <3>3 DEF Sane
  <2>5. CASE r.ok
    <3>1. SwapRound(read, acc, i, k) =
            Round([r.stack EXCEPT ![i] = Keep(@, kept)], acc.got \o g, TRUE, Len(unit) < Unit(acc.stack[i].method))
      BY <1>3, <2>5, Zenon DEF SwapRound, HandOut
    <3>. HIDE DEF r
    <3>2. n \in 0..Len(unit) /\ n <= k - Len(acc.got)
      <4>1. Len(unit) \in Nat /\ k - Len(acc.got) \in Nat
        BY <1>1, <2>2, LenProperties
      <4>. QED BY <4>1, AtMostIs
    <3>. HIDE DEF n, unit
    <3>3. g \in Seq(Units) /\ Len(g) = n /\ kept \in Seq(Units)
      BY <2>2, <3>2, CutIs
    <3>. HIDE DEF g, kept
    <3>4. [r.stack EXCEPT ![i] = Keep(@, kept)] = With(r.stack, i, d)
      <4>1. i \in DOMAIN r.stack
        BY <2>3, SoundIs
      <4>. QED BY <4>1 DEF With
    <3>5. d \in Decoders /\ d.method = r.stack[i].method /\ d.pending_len <= Len(d.held)
      <4>1. r.stack[i] \in Decoders
        BY <2>3, SoundIs
      <4>. QED BY <3>3, <4>1, KeepIs
    <3>6. Kept(r.stack, With(r.stack, i, d), i)
      <4>1. d.method # "AES"
        BY <2>3, <3>5 DEF Swaps
      <4>. HIDE DEF d
      <4>. QED BY <2>1, <2>3, <3>5, <4>1, KeptWith
    <3>. HIDE DEF d
    <3>7. Kept(s, With(r.stack, i, d), i)
      <4>1. Kept(s, r.stack, i)
        BY <1>1, <2>3, KeptTrans
      <4>. QED BY <3>6, <4>1, KeptTrans
    <3>. DEFINE a == acc.got
    <3>8. a \o g \in Seq(Units) /\ Len(a \o g) <= k
      <4>1. a \in Seq(Units) /\ Len(a) \in Nat
        BY <1>1
      <4>2. Len(g) \in Nat /\ Len(g) <= k - Len(a)
        BY <3>2, <3>3, LenProperties
      <4>. HIDE DEF a
      <4>3. a \o g \in Seq(Units) /\ Len(a \o g) = Len(a) + Len(g)
        BY <3>3, <4>1, ConcatProperties
      <4>. QED BY <4>1, <4>2, <4>3
    <3>. HIDE DEF a
    <3>9. SwapRound(read, acc, i, k).stack = With(r.stack, i, d) /\ SwapRound(read, acc, i, k).got = a \o g
      BY <3>1, <3>4 DEF a, Round
    <3>. QED BY <3>7, <3>8, <3>9 DEF Sane
  <2>. QED BY <2>4, <2>5
<1>. QED BY <1>2, <1>3

\* The rounds of a swap reader are sane,
LEMMA SwapRoundsSane ==
  ASSUME NEW read, NEW i, NEW s \in Sounds, NEW k \in Nat, NEW start,
         SaneReader(read, i - 1), i \in 2..Len(s), s[i].method \in Swaps,
         Sane(start, s, i, k)
  PROVE  \A j \in 0..k : Sane(SwapUpTo(read, start, i, k)[j], s, i, k)
<1>. DEFINE f == SwapUpTo(read, start, i, k)
            In == {j \in Nat : j \in 0..k => Sane(f[j], s, i, k)}
<1>1. f = [j \in 0..k |-> IF j = 0 THEN start ELSE SwapRound(read, f[j - 1], i, k)]
  BY SwapUpToDef
<1>. HIDE DEF f
<1>2. 0 \in In
  <2>1. f[0] = start
    BY <1>1
  <2>. QED BY <2>1
<1>3. ASSUME NEW j \in Nat, j \in In PROVE j + 1 \in In
  <2>. SUFFICES ASSUME j + 1 \in 0..k PROVE Sane(f[j + 1], s, i, k)
    OBVIOUS
  <2>1. f[j + 1] = SwapRound(read, f[j], i, k)
    <3>1. j + 1 # 0 /\ (j + 1) - 1 = j
      OBVIOUS
    <3>. QED BY <1>1, <3>1
  <2>2. Sane(f[j], s, i, k)
    BY <1>3
  <2>3. Sane(SwapRound(read, f[j], i, k), s, i, k)
    BY <2>2, SwapRoundSane
  <2>. QED BY <2>1, <2>3
<1>4. Nat \subseteq In
  <2>. HIDE DEF In
  <2>. QED BY <1>2, <1>3, SetInduction
<1>. QED BY <1>4 DEF f

\* The units of one read.
LEMMA SwapUnitsSane ==
  ASSUME NEW read, NEW i, NEW s \in Sounds, NEW k \in Nat, NEW start,
         SaneReader(read, i - 1), i \in 2..Len(s), s[i].method \in Swaps,
         Sane(start, s, i, k)
  PROVE  Sane(SwapUnits(read, start, i, k), s, i, k)
<1>1. k \in 0..k
  OBVIOUS
<1>2. Sane(SwapUpTo(read, start, i, k)[k], s, i, k)
  BY <1>1, SwapRoundsSane
<1>. QED BY <1>2, SwapUnitsIs, ReturnedIs DEF Sane

\* Where a read of a swap reader starts: with what it takes from pending.
FromPending(s, i, k) == AtMost(k, s[i].pending_len)
SwapStart(s, i, k) ==
  LET n == FromPending(s, i, k)
  IN  Before(With(s, i, SetPending(s[i], s[i].pending_len - n)), Emit(s[i], n))

\* A read of a swap reader starts with what is pending.
LEMMA SwapReadIs ==
  ASSUME NEW read, NEW i, NEW s \in Sounds, NEW k, i \in 1..Len(s)
  PROVE  SwapRead(read, s, i, k) = SwapUnits(read, SwapStart(s, i, k), i, k)
<1>. DEFINE n == AtMost(k, s[i].pending_len)
<1>1. i \in DOMAIN s
  BY SoundIs
<1>2. SwapRead(read, s, i, k) =
        SwapUnits(read, Before([s EXCEPT ![i].pending_len = @ - n], Emit(s[i], n)), i, k)
  BY Zenon DEF SwapRead
<1>. HIDE DEF n
<1>3. [s EXCEPT ![i].pending_len = @ - n] = With(s, i, SetPending(s[i], s[i].pending_len - n))
  BY <1>1 DEF With, SetPending
<1>. QED BY <1>2, <1>3 DEF SwapStart, FromPending, n

\* What it takes from pending.
LEMMA SwapStartIs ==
  ASSUME NEW i, NEW s \in Sounds, NEW k \in Nat, i \in 2..Len(s), s[i].method \in Swaps
  PROVE  LET n == FromPending(s, i, k) IN
         /\ n \in 0..s[i].pending_len /\ n <= k /\ s[i].pending_len - n \in Nat
         /\ SwapStart(s, i, k).stack = With(s, i, SetPending(s[i], s[i].pending_len - n))
         /\ SwapStart(s, i, k).got = Emit(s[i], n)
         /\ SwapStart(s, i, k).ok = TRUE /\ SwapStart(s, i, k).over = FALSE
         /\ Kept(s, With(s, i, SetPending(s[i], s[i].pending_len - n)), i)
         /\ Emit(s[i], n) \in Seq(Units) /\ Len(Emit(s[i], n)) = n
<1>. DEFINE p == s[i].pending_len
            n == FromPending(s, i, k)
            d == SetPending(s[i], p - n)
<1>1. i \in 1..Len(s) /\ s[i] \in Decoders /\ p \in Nat /\ p <= Len(s[i].held)
  BY SoundIs
<1>2. n \in 0..p /\ n <= k /\ p - n \in Nat
  <2>1. n = AtMost(k, p)
    BY DEF FromPending
  <2>. HIDE DEF n, p
  <2>2. n \in 0..p /\ n <= k
    BY <1>1, <2>1, AtMostIs
  <2>. QED BY <1>1, <2>2
<1>3. /\ SwapStart(s, i, k).stack = With(s, i, d)
      /\ SwapStart(s, i, k).got = Emit(s[i], n)
      /\ SwapStart(s, i, k).ok = TRUE /\ SwapStart(s, i, k).over = FALSE
  BY DEF SwapStart, Before, Round
<1>4. Emit(s[i], n) \in Seq(Units) /\ Len(Emit(s[i], n)) = n
  BY <1>1, <1>2, EmitIs
<1>5. d \in Decoders /\ d.method = s[i].method /\ d.held = s[i].held /\ d.pending_len = p - n
  <2>1. <<>> \in Seq(Units)
    OBVIOUS
  <2>. QED BY <1>1, <1>2, <2>1, FieldsAre
<1>6. d.pending_len <= Len(d.held)
  <2>. DEFINE h == Len(s[i].held)
  <2>1. h \in Nat
    BY <1>1 DEF Decoders
  <2>. HIDE DEF h, d
  <2>2. p - n <= h
    BY <1>1, <1>2, <2>1 DEF h
  <2>. QED BY <1>5, <2>2 DEF h
<1>7. d.method # "AES" /\ i # 1
  BY <1>1, <1>5 DEF Swaps
<1>8. Kept(s, With(s, i, d), i)
  <2>. HIDE DEF d
  <2>. QED BY <1>1, <1>5, <1>6, <1>7, KeptWith
<1>. QED BY <1>2, <1>3, <1>4, <1>8

\* Swap2Reader::read and Swap4Reader::read stay within pending and buf.
LEMMA SwapReadSane ==
  ASSUME NEW read, NEW i, NEW s \in Sounds, NEW k \in Nat,
         SaneReader(read, i - 1), i \in 2..Len(s), s[i].method \in Swaps
  PROVE  Sane(SwapRead(read, s, i, k), s, i, k)
<1>1. i \in 1..Len(s)
  BY SoundIs
<1>2. Sane(SwapStart(s, i, k), s, i, k)
  <2>. DEFINE n == FromPending(s, i, k)
  <2>1. /\ SwapStart(s, i, k).stack = With(s, i, SetPending(s[i], s[i].pending_len - n))
        /\ SwapStart(s, i, k).got = Emit(s[i], n) /\ n <= k
        /\ Kept(s, With(s, i, SetPending(s[i], s[i].pending_len - n)), i)
        /\ Emit(s[i], n) \in Seq(Units) /\ Len(Emit(s[i], n)) = n
    BY SwapStartIs
  <2>. HIDE DEF n
  <2>. QED BY <2>1 DEF Sane
<1>3. SwapRead(read, s, i, k) = SwapUnits(read, SwapStart(s, i, k), i, k)
  BY <1>1, SwapReadIs
<1>. QED BY <1>2, <1>3, SwapUnitsSane

-----------------------------------------------------------------------------
(* The readers of frames *)

\* A header announces a number of units.
LEMMA HeaderIs ==
  ASSUME NEW units \in Seq(Units), IsHeader(units)
  PROVE  /\ units[1][2] \in Nat /\ units = FrameHeader(units[1][2]) /\ Len(units) = 2
<1>1. Len(units) = 2 /\ units[1][1] = "head" /\ units = FrameHeader(units[1][2])
  BY HeaderSizeIs DEF IsHeader
<1>2. units[1] \in Units
  <2>1. Len(units) = 2
    BY <1>1
  <2>. QED BY <2>1
<1>3. CASE units[1] \in {"head"} \X Nat \X {1, 2}
  BY <1>1, <1>3
<1>4. CASE units[1] \in {"byte"} \X Nat
  BY <1>1, <1>4
<1>5. CASE units[1] \in {"cipher"} \X [1..AesBlock -> Plain] \X (1..AesBlock) \X {0}
  BY <1>1, <1>5
<1>6. CASE units[1] = EndMark \/ units[1] = ZeroByte
  BY <1>1, <1>6 DEF EndMark, ZeroByte
<1>. QED BY <1>1, <1>2, <1>3, <1>4, <1>5, <1>6 DEF Units, Plain

\* The decompressor of a frame reads that frame.
LEMMA FrameReadSane ==
  ASSUME NEW read, NEW i, NEW s \in Sounds, NEW k \in Nat,
         SaneReader(read, i - 1), i \in 2..Len(s), s[i].method \in Framed
  PROVE  Sane(FrameRead(read, s, i, k), s, i, k)
<1>. DEFINE n == s[i].remaining
            r == Fill(read, s, n)
            x == First(r.got, n - 1)
            d == Loaded(s[i], x)
<1>1. i \in 1..Len(s) /\ i # 1 /\ i - 1 \in 1..Len(s) /\ n \in Nat /\ s[i] \in Decoders
      /\ s[i].pending_len <= Len(s[i].held)
  BY SoundIs
<1>2. CASE n = 0
  <2>1. FrameRead(read, s, i, k) = Take(s, i, k)
    BY <1>2, Zenon DEF FrameRead, Decompress
  <2>. QED BY <1>1, <2>1, TakeSane
<1>3. Sane(r, s, i - 1, n)
  BY <1>1, FillSane
<1>4. Kept(s, r.stack, i - 1) /\ r.got \in Seq(Units) /\ Len(r.got) \in Nat
  <2>1. r.got \in Seq(Units)
    BY <1>3 DEF Sane
  <2>. QED BY <1>3, <2>1, LenProperties DEF Sane
<1>5. /\ Kept(s, r.stack, i) /\ r.stack[i] = s[i] /\ r.stack \in Sounds /\ i \in 1..Len(r.stack)
  BY <1>1, <1>4, KeptBelow
<1>6. CASE n # 0 /\ (~r.ok \/ Len(r.got) < n \/ Last(r.got) # EndMark)
  <2>1. FrameRead(read, s, i, k) = Result(r.stack, <<>>, FALSE)
    BY <1>6, Zenon DEF FrameRead, Decompress
  <2>2. <<>> \in Seq(Units) /\ Len(<<>>) <= k
    OBVIOUS
  <2>3. FrameRead(read, s, i, k).stack = r.stack /\ FrameRead(read, s, i, k).got = <<>>
    BY <2>1 DEF Result
  <2>. QED BY <1>5, <2>2, <2>3 DEF Sane
<1>7. CASE n # 0 /\ ~(~r.ok \/ Len(r.got) < n \/ Last(r.got) # EndMark)
  <2>. DEFINE t == [r.stack EXCEPT ![i].remaining = 0, ![i].ready = First(r.got, n - 1)]
  <2>1. FrameRead(read, s, i, k) = Take(t, i, k)
    BY <1>7, Zenon DEF FrameRead, Decompress
  <2>2. n - 1 \in 0..Len(r.got)
    BY <1>1, <1>4, <1>7
  <2>3. x \in Seq(Units)
    <3>. HIDE DEF r, n
    <3>. QED BY <1>4, <2>2, CutIs
  <2>4. t = With(r.stack, i, d)
    <3>1. i \in DOMAIN r.stack
      BY <1>5, SoundIs
    <3>2. t = With(r.stack, i, Loaded(r.stack[i], x))
      <4>. HIDE DEF r, n, x
      <4>. QED BY <3>1 DEF With, Loaded, x
    <3>. QED BY <1>5, <3>2
  <2>. HIDE DEF x, r, n, t
  <2>5. d \in Decoders /\ d.method = s[i].method /\ d.held = s[i].held /\ d.pending_len = s[i].pending_len
    BY <1>1, <2>3, MoreFieldsAre
  <2>6. Kept(r.stack, With(r.stack, i, d), i)
    <3>1. d.method # "AES" /\ d.method = r.stack[i].method /\ d.pending_len <= Len(d.held)
      BY <1>1, <1>5, <2>5 DEF Framed
    <3>. HIDE DEF d
    <3>. QED BY <1>1, <1>5, <2>5, <3>1, KeptWith
  <2>7. Kept(s, t, i)
    BY <1>5, <2>4, <2>6, KeptTrans
  <2>8. t \in Sounds /\ i \in 1..Len(t)
    BY <1>1, <2>7, KeptIs
  <2>9. Sane(Take(t, i, k), t, i, k)
    BY <2>8, TakeSane
  <2>. QED BY <2>1, <2>7, <2>9, KeptTrans DEF Sane
<1>. QED BY <1>2, <1>6, <1>7

\* Lz4Decoder::read and BrotliDecoder::read.
LEMMA FramedReadSane ==
  ASSUME NEW read, NEW i, NEW s \in Sounds, NEW k \in Nat,
         SaneReader(read, i - 1), i \in 2..Len(s), s[i].method \in Framed
  PROVE  Sane(FramedRead(read, s, i, k), s, i, k)
<1>. DEFINE r == FrameRead(read, s, i, k)
            t == r.stack
            h == Fill(read, t, HeaderSize)
            u == h.stack
<1>1. i \in 1..Len(s) /\ i # 1 /\ <<>> \in Seq(Units) /\ Len(<<>>) <= k
  BY SoundIs
<1>2. Sane(r, s, i, k)
  BY FrameReadSane
<1>. HIDE DEF r
<1>3. Kept(s, t, i) /\ t \in Sounds /\ i \in 2..Len(t) /\ i \in 1..Len(t) /\ t[i].method \in Framed
  BY <1>1, <1>2, KeptIs DEF Sane
<1>4. Sane(h, t, i - 1, 2)
  <2>1. i - 1 \in 1..Len(t)
    BY <1>3, SoundIs
  <2>. QED BY <1>3, <2>1, HeaderSizeIs, FillSane
<1>. HIDE DEF h, t
<1>5. Kept(t, u, i - 1) /\ h.got \in Seq(Units) /\ Len(h.got) <= 2
  BY <1>4 DEF Sane
<1>6. Kept(t, u, i) /\ u \in Sounds /\ i \in 1..Len(u) /\ i \in 2..Len(u) /\ u[i].method \in Framed
      /\ u[i] \in Decoders /\ u[i].pending_len <= Len(u[i].held) /\ Kept(s, u, i) /\ u[i] = t[i]
  <2>1. Kept(t, u, i) /\ u \in Sounds /\ i \in 1..Len(u) /\ u[i] = t[i] /\ Len(u) = Len(t)
    BY <1>3, <1>5, KeptBelow
  <2>2. u[i] \in Decoders /\ u[i].pending_len <= Len(u[i].held)
    BY <2>1, SoundIs
  <2>3. Kept(s, u, i)
    BY <1>3, <2>1, KeptTrans
  <2>. QED BY <1>3, <2>1, <2>2, <2>3
<1>. HIDE DEF u
<1>7. CASE s[i].ended
  <2>1. FramedRead(read, s, i, k) = Result(s, <<>>, TRUE)
    BY <1>7, Zenon DEF FramedRead, NextFrame, read_next_frame_header
  <2>2. FramedRead(read, s, i, k).stack = s /\ FramedRead(read, s, i, k).got = <<>>
    BY <2>1 DEF Result
  <2>. QED BY <1>1, <2>2, KeptSame DEF Sane
<1>8. CASE ~s[i].ended /\ (~r.ok \/ r.got # <<>>)
  <2>1. FramedRead(read, s, i, k) = r
    BY <1>8, Zenon DEF FramedRead, NextFrame, read_next_frame_header, r
  <2>. QED BY <1>2, <2>1
<1>. DEFINE rest == ~s[i].ended /\ ~(~r.ok \/ r.got # <<>>)
<1>9. CASE rest /\ ~h.ok
  <2>1. FramedRead(read, s, i, k) = Result(u, <<>>, FALSE)
    BY <1>9, Zenon DEF FramedRead, NextFrame, read_next_frame_header, r, h, t, u
  <2>2. FramedRead(read, s, i, k).stack = u /\ FramedRead(read, s, i, k).got = <<>>
    BY <2>1 DEF Result
  <2>. QED BY <1>1, <1>6, <2>2 DEF Sane
<1>10. CASE rest /\ h.ok /\ IsHeader(h.got)
  <2>. DEFINE v == [u EXCEPT ![i].remaining = h.got[1][2]]
              d == SetRemaining(u[i], h.got[1][2])
  <2>1. FramedRead(read, s, i, k) = FrameRead(read, v, i, k)
    BY <1>10, Zenon DEF FramedRead, NextFrame, read_next_frame_header, r, h, t, u
  <2>2. h.got[1][2] \in Nat
    BY <1>5, <1>10, HeaderIs
  <2>3. v = With(u, i, d)
    <3>. DEFINE x == h.got[1][2]
    <3>. HIDE DEF x
    <3>1. [u EXCEPT ![i].remaining = x] = With(u, i, SetRemaining(u[i], x))
      BY DEF With, SetRemaining
    <3>. QED BY <3>1 DEF x
  <2>4. d \in Decoders /\ d.method = u[i].method /\ d.pending_len = u[i].pending_len /\ d.held = u[i].held
    BY <1>1, <1>6, <2>2, FieldsAre
  <2>. HIDE DEF d, v
  <2>5. Kept(u, v, i)
    <3>1. d.method # "AES" /\ d.pending_len <= Len(d.held)
      BY <1>6, <2>4 DEF Framed
    <3>. QED BY <1>1, <1>6, <2>3, <2>4, <3>1, KeptWith
  <2>6. Kept(s, v, i) /\ v \in Sounds /\ i \in 2..Len(v) /\ v[i].method \in Framed
    <3>1. Kept(s, v, i)
      BY <1>6, <2>5, KeptTrans
    <3>. QED BY <1>1, <3>1, KeptIs
  <2>7. Sane(FrameRead(read, v, i, k), v, i, k)
    BY <2>6, FrameReadSane
  <2>. QED BY <2>1, <2>6, <2>7, KeptTrans DEF Sane
<1>11. CASE rest /\ h.ok /\ ~IsHeader(h.got)
  <2>. DEFINE v == [u EXCEPT ![i].ended = TRUE]
              d == SetEnded(u[i])
              ok == h.got = <<>> \/ h.got[1][1] # "head"
  <2>1. FramedRead(read, s, i, k) = Result(v, <<>>, ok)
    BY <1>11, Zenon DEF FramedRead, NextFrame, read_next_frame_header, r, h, t, u
  <2>2. v = With(u, i, d)
    BY EditsAre
  <2>3. d \in Decoders /\ d.method = u[i].method /\ d.pending_len = u[i].pending_len /\ d.held = u[i].held
    BY <1>1, <1>6, MoreFieldsAre
  <2>. HIDE DEF d, v, ok
  <2>4. Kept(u, v, i)
    <3>1. d.method # "AES" /\ d.pending_len <= Len(d.held)
      BY <1>6, <2>3 DEF Framed
    <3>. QED BY <1>1, <1>6, <2>2, <2>3, <3>1, KeptWith
  <2>5. Kept(s, v, i)
    BY <1>6, <2>4, KeptTrans
  <2>6. FramedRead(read, s, i, k).stack = v /\ FramedRead(read, s, i, k).got = <<>>
    BY <2>1 DEF Result
  <2>. QED BY <1>1, <2>5, <2>6 DEF Sane
<1>. QED BY <1>7, <1>8, <1>9, <1>10, <1>11

-----------------------------------------------------------------------------
(* The AES reader *)

\* A reader that hands out cipher blocks when its source holds them.
GivesCipher(read) ==
  \A s \in Sounds : \A k \in Nat \ {0} :
    1 \in 1..Len(s) /\ s[1].ready \in Seq(Cipher) => read[s][k].got \in Seq(Cipher)

\* A block of cipher units says what it was encrypted from.
LEMMA DecryptIn ==
  ASSUME NEW bs \in Seq(Blocks(AesBlock, Cipher))
  PROVE  Decrypt(bs) \in Seq(Plain)
<1>. DEFINE x == [g \in DOMAIN bs |-> bs[g][1][2]]
<1>1. AesBlock \in Nat \ {0}
  BY EncoderAssumption
<1>2. \A b \in Blocks(AesBlock, Cipher) : b[1] \in Cipher
  BY <1>1 DEF Blocks
<1>3. \A c \in Cipher : c[2] \in [1..AesBlock -> Plain]
  BY DEF Cipher
<1>4. \A p \in [1..AesBlock -> Plain] : p \in Seq(Plain)
  BY <1>1
<1>5. \A g \in DOMAIN bs : bs[g] \in Blocks(AesBlock, Cipher)
  OBVIOUS
<1>6. \A g \in DOMAIN bs : bs[g][1][2] \in Seq(Plain)
  BY <1>2, <1>3, <1>4, <1>5
<1>7. x \in Seq(Seq(Plain))
  <2>1. DOMAIN bs = 1..Len(bs) /\ Len(bs) \in Nat
    OBVIOUS
  <2>. QED BY <1>6, <2>1
<1>. HIDE DEF x
<1>8. FlattenSeq(x) \in Seq(Plain)
  BY <1>7, FlattenIn
<1>. QED BY <1>8 DEF Decrypt, x

\* Plain and cipher units are units.
LEMMA UnitsAre ==
  /\ Plain \subseteq Units /\ Cipher \subseteq Units
  /\ Seq(Plain) \subseteq Seq(Units) /\ Seq(Cipher) \subseteq Seq(Units)
<1>1. Plain \subseteq Units /\ Cipher \subseteq Units
  BY DEF Units, Cipher
<1>. QED BY <1>1, SeqMonotonic

\* What get_more_data reads.
MoreIn(read, r) == read[r.stack][InBuffer]

\* get_more_data finds whole cipher blocks in what it holds and what it reads.
LEMMA MoreSane ==
  ASSUME NEW read, NEW i, NEW r, r.stack \in Sounds, SaneReader(read, i - 1), GivesCipher(read),
         i \in 2..Len(r.stack), r.stack[i].method = "AES"
  PROVE  /\ Kept(r.stack, get_more_data(read, r, i).stack, i)
         /\ get_more_data(read, r, i).got = r.got \/ get_more_data(read, r, i).got = <<>>
<1>. DEFINE s == r.stack
            in == MoreIn(read, r)
            t == in.stack
            all == s[i].held \o in.got
            m == get_more_data(read, r, i)
<1>1. i = 2 /\ i \in 1..Len(s) /\ 1 \in 1..Len(s) /\ s \in Sounds /\ s[1].ready \in Seq(Cipher)
      /\ s[i].held \in Seq(Cipher) /\ s[i] \in Decoders /\ s[i].pending_len = 0
  <2>1. i \in 1..Len(s) /\ 1 \in 1..Len(s) /\ s[i].method = "AES"
    BY SoundIs
  <2>. QED BY <2>1, SoundIs
<1>2. InBuffer \in Nat \ {0}
  BY DecoderAssumption
<1>3. Kept(s, t, 1) /\ in.got \in Seq(Units) /\ in.got \in Seq(Cipher)
  <2>1. Kept(s, t, i - 1) /\ in.got \in Seq(Units)
    <3>1. i - 1 \in 1..Len(s)
      BY <1>1
    <3>2. /\ Kept(s, read[s][InBuffer].stack, i - 1) /\ read[s][InBuffer].got \in Seq(Units)
      BY <1>1, <1>2, <3>1, SaneRead
    <3>. QED BY <3>2 DEF MoreIn
  <2>2. in.got \in Seq(Cipher)
    BY <1>1, <1>2 DEF GivesCipher, MoreIn
  <2>. QED BY <1>1, <2>1, <2>2
<1>4. Kept(s, t, i) /\ t[i] = s[i] /\ t \in Sounds /\ i \in 1..Len(t) /\ t[i].method = "AES"
      /\ t[i].pending_len <= Len(t[i].held)
  <2>1. Kept(s, t, i) /\ t[i] = s[i] /\ t \in Sounds /\ i \in 1..Len(t)
    BY <1>1, <1>3, KeptBelow
  <2>. QED BY <2>1, SoundIs
<1>5. CASE s[i].ready # <<>> \/ s[i].ended
  <2>1. m = r
    BY <1>5, Zenon DEF get_more_data
  <2>. QED BY <1>1, <2>1, KeptSame
<1>. DEFINE goes == ~(s[i].ready # <<>> \/ s[i].ended)
            short == ~in.ok \/ (in.got # <<>> /\ s[i].held # <<>> /\ Len(all) < AesBlock)
<1>6. CASE goes /\ short
  <2>1. m = Result(t, <<>>, FALSE)
    BY <1>6, Zenon DEF get_more_data, MoreIn
  <2>2. m.stack = t /\ m.got = <<>>
    BY <2>1 DEF Result
  <2>. QED BY <1>4, <2>2
<1>7. CASE goes /\ ~short /\ in.got = <<>>
  <2>. DEFINE v == [t EXCEPT ![i].ended = TRUE]
              d == SetEnded(t[i])
              ok == s[i].held = <<>>
  <2>1. m = Result(v, <<>>, ok)
    BY <1>7, Zenon DEF get_more_data, MoreIn
  <2>. HIDE DEF ok
  <2>2. m.stack = v /\ m.got = <<>>
    BY <2>1 DEF Result
  <2>. HIDE DEF in, t, m, s
  <2>3. v = With(t, i, d)
    BY DEF With, SetEnded
  <2>4. d \in Decoders /\ d.method = t[i].method /\ d.pending_len = t[i].pending_len /\ d.held = t[i].held
    <3>1. <<>> \in Seq(Units)
      OBVIOUS
    <3>. QED BY <1>1, <1>4, <3>1, MoreFieldsAre
  <2>. HIDE DEF d, v
  <2>5. Kept(t, v, i)
    <3>1. d.pending_len <= Len(d.held) /\ d.held \in Seq(Cipher) /\ d.pending_len = 0
      BY <1>1, <1>4, <2>4
    <3>. QED BY <1>1, <1>4, <2>3, <2>4, <3>1, KeptWith
  <2>6. Kept(s, v, i)
    BY <1>1, <1>4, <2>5, KeptTrans
  <2>. QED BY <2>2, <2>6 DEF s, m
<1>8. CASE goes /\ ~short /\ in.got # <<>>
  <2>. DEFINE x == Decrypt(Groups(all, AesBlock))
              h == Rest(all, AesBlock)
              v == [t EXCEPT ![i].ready = x, ![i].held = h]
              d == Decrypted(t[i], x, h)
  <2>1. m = Result(v, <<>>, TRUE)
    BY <1>8, Zenon DEF get_more_data, MoreIn
  <2>2. m.stack = v /\ m.got = <<>>
    <3>. HIDE DEF v
    <3>. QED BY <2>1 DEF Result
  <2>3. all \in Seq(Cipher)
    <3>. DEFINE a == s[i].held
                b == in.got
    <3>1. a \in Seq(Cipher) /\ b \in Seq(Cipher)
      BY <1>1, <1>3
    <3>. HIDE DEF a, b
    <3>2. a \o b \in Seq(Cipher)
      BY <3>1, ConcatProperties
    <3>. QED BY <3>2 DEF a, b
  <2>. HIDE DEF in, t, m, s, all
  <2>4. x \in Seq(Units) /\ h \in Seq(Units) /\ h \in Seq(Cipher)
    <3>1. AesBlock \in Nat \ {0}
      BY EncoderAssumption
    <3>2. Groups(all, AesBlock) \in Seq(Blocks(AesBlock, Cipher)) /\ h \in Seq(Cipher)
      BY <2>3, <3>1, GroupsParts
    <3>3. x \in Seq(Plain)
      BY <3>2, DecryptIn
    <3>. HIDE DEF x, h
    <3>. QED BY <3>2, <3>3, UnitsAre
  <2>. HIDE DEF x, h
  <2>5. v = With(t, i, d)
    <3>1. i \in DOMAIN t
      BY <1>4, SoundIs
    <3>. QED BY <3>1 DEF With, Decrypted
  <2>6. d \in Decoders /\ d.method = t[i].method /\ d.pending_len = t[i].pending_len /\ d.held = h
    <3>1. t[i] \in Decoders
      BY <1>1, <1>4
    <3>2. \A e \in Decoders : e = t[i] => Decrypted(e, x, h) \in Decoders
            /\ Decrypted(e, x, h).method = e.method /\ Decrypted(e, x, h).pending_len = e.pending_len
            /\ Decrypted(e, x, h).held = h
      BY <2>4 DEF Decoders, Decrypted
    <3>. QED BY <3>1, <3>2
  <2>. HIDE DEF d, v
  <2>7. Kept(t, v, i)
    <3>1. d.pending_len <= Len(d.held) /\ d.pending_len = 0
      BY <1>1, <1>4, <2>4, <2>6
    <3>. QED BY <1>1, <1>4, <2>4, <2>5, <2>6, <3>1, KeptWith
  <2>8. Kept(s, v, i)
    BY <1>1, <1>4, <2>7, KeptTrans
  <2>. QED BY <2>2, <2>8 DEF s, m
<1>. QED BY <1>5, <1>6, <1>7, <1>8

\* Aes256Sha256Decoder::read.
LEMMA AesReadSane ==
  ASSUME NEW read, NEW i, NEW s \in Sounds, NEW k \in Nat, SaneReader(read, i - 1), GivesCipher(read),
         i \in 2..Len(s), s[i].method = "AES"
  PROVE  Sane(AesRead(read, s, i, k), s, i, k)
<1>. DEFINE start  == Result(s, <<>>, TRUE)
            first  == get_more_data(read, start, i)
            second == IF first.ok THEN get_more_data(read, first, i) ELSE first
            t == second.stack
<1>1. start.stack = s /\ start.got = <<>>
  BY DEF Result
<1>. HIDE DEF start
<1>2. Kept(s, first.stack, i) /\ first.got = <<>>
  BY <1>1, MoreSane
<1>. HIDE DEF first
<1>3. Kept(s, t, i) /\ second.got = <<>>
  <2>1. CASE first.ok
    <3>1. first.stack \in Sounds /\ i \in 2..Len(first.stack) /\ first.stack[i].method = "AES"
      <4>1. i \in 1..Len(s)
        BY SoundIs
      <4>. QED BY <1>2, <4>1, KeptIs
    <3>2. Kept(first.stack, t, i) /\ second.got = <<>>
      BY <1>2, <2>1, <3>1, MoreSane
    <3>. QED BY <1>2, <3>2, KeptTrans
  <2>2. CASE ~first.ok
    BY <1>2, <2>2
  <2>. QED BY <2>1, <2>2
<1>4. AesRead(read, s, i, k) = IF second.ok THEN Take(t, i, k) ELSE second
  BY Zenon DEF AesRead, get_more_again, TakeIfOk, first, start
<1>. HIDE DEF second
<1>5. CASE second.ok
  <2>1. t \in Sounds /\ i \in 1..Len(t)
    <3>1. i \in 1..Len(s)
      BY SoundIs
    <3>. QED BY <1>3, <3>1, KeptIs
  <2>2. Sane(Take(t, i, k), t, i, k)
    BY <2>1, TakeSane
  <2>. QED BY <1>3, <1>4, <1>5, <2>2, KeptTrans DEF Sane
<1>6. CASE ~second.ok
  <2>1. <<>> \in Seq(Units) /\ Len(<<>>) <= k
    OBVIOUS
  <2>. QED BY <1>3, <1>4, <1>6, <2>1 DEF Sane
<1>. QED BY <1>5, <1>6

-----------------------------------------------------------------------------
(* The readers of a stack *)

\* The read of each kind of decoder (impl Read for Decoder).
LEMMA DecoderReadIs ==
  ASSUME NEW read, NEW s, NEW i, NEW k
  PROVE  /\ s[i].method = "COPY" => DecoderRead(read, s, i, k) = read[s][k]
         /\ s[i].method \in Swaps => DecoderRead(read, s, i, k) = SwapRead(read, s, i, k)
         /\ s[i].method = "AES" => DecoderRead(read, s, i, k) = AesRead(read, s, i, k)
         /\ s[i].method \in Framed => DecoderRead(read, s, i, k) = FramedRead(read, s, i, k)
<1>. DEFINE m == s[i].method
<1>1. CASE m = "COPY"
  <2>1. m \notin Swaps /\ m \notin Framed /\ m # "AES"
    BY <1>1 DEF Swaps, Framed
  <2>2. DecoderRead(read, s, i, k) = read[s][k]
    BY <1>1, Zenon DEF DecoderRead
  <2>. QED BY <2>1, <2>2
<1>2. CASE m \in Swaps
  <2>1. m # "COPY" /\ m \notin Framed /\ m # "AES" /\ m \in {"SWAP2", "SWAP4"} /\ m \notin {"LZ4", "BROTLI"}
    BY <1>2 DEF Swaps, Framed
  <2>2. DecoderRead(read, s, i, k) = SwapRead(read, s, i, k)
    BY <2>1, Zenon DEF DecoderRead
  <2>. QED BY <2>1, <2>2
<1>3. CASE m = "AES"
  <2>1. m # "COPY" /\ m \notin Framed /\ m \notin Swaps /\ m \notin {"SWAP2", "SWAP4"} /\ m \notin {"LZ4", "BROTLI"}
    BY <1>3 DEF Swaps, Framed
  <2>2. DecoderRead(read, s, i, k) = AesRead(read, s, i, k)
    BY <1>3, <2>1, Zenon DEF DecoderRead
  <2>. QED BY <2>1, <2>2
<1>4. CASE m \in Framed
  <2>1. m # "COPY" /\ m \notin Swaps /\ m # "AES" /\ m \notin {"SWAP2", "SWAP4"} /\ m \in {"LZ4", "BROTLI"}
    BY <1>4 DEF Swaps, Framed
  <2>2. DecoderRead(read, s, i, k) = FramedRead(read, s, i, k)
    BY <2>1, Zenon DEF DecoderRead
  <2>. QED BY <2>1, <2>2
<1>. QED BY <1>1, <1>2, <1>3, <1>4

\* The reader of each decoder, through the one below it.
LEMMA ReadersIs ==
  ASSUME NEW n \in Nat, NEW i \in 1..n, NEW s \in Stacks, NEW k \in Nat \ {0}
  PROVE  Readers(n)[i][s][k] =
           IF i = 1 THEN Take(s, 1, k) ELSE DecoderRead(Readers(n)[i - 1], s, i, k)
<1>. DEFINE f == ReadersUp(n)
<1>1. f = [j \in 1..n |-> IF j = 1 THEN Source ELSE ReaderOver(f[j - 1], j)]
  BY ReadersUpDef
<1>2. Readers(n) = f
  BY ReadersAre
<1>. HIDE DEF f
<1>3. f[i] = IF i = 1 THEN Source ELSE ReaderOver(f[i - 1], i)
  BY <1>1
<1>4. Source[s][k] = Take(s, 1, k) /\ ReaderOver(f[i - 1], i)[s][k] = DecoderRead(f[i - 1], s, i, k)
  BY DEF Source, ReaderOver
<1>. QED BY <1>2, <1>3, <1>4

\* Any read from any reader of a sound stack leaves it sound, changes none of the
\* readers above, and returns no more than was asked for.
LEMMA ReadersSane ==
  ASSUME NEW n \in Nat
  PROVE  \A i \in 1..n : SaneReader(Readers(n)[i], i) /\ (i = 1 => GivesCipher(Readers(n)[i]))
<1>. DEFINE rd == Readers(n)
            Good(i) == SaneReader(rd[i], i) /\ (i = 1 => GivesCipher(rd[i]))
            In == {i \in Nat : i \in 1..n => Good(i)}
<1>1. \A s \in Sounds : s \in Stacks
  BY DEF Sounds
<1>2. ASSUME NEW i \in 1..n, NEW s \in Sounds, NEW k \in Nat \ {0}
      PROVE  rd[i][s][k] = IF i = 1 THEN Take(s, 1, k) ELSE DecoderRead(rd[i - 1], s, i, k)
  BY <1>1, ReadersIs
<1>. HIDE DEF rd
<1>3. 1 \in 1..n => Good(1)
  <2>. SUFFICES ASSUME 1 \in 1..n PROVE Good(1)
    OBVIOUS
  <2>1. ASSUME NEW s \in Sounds, NEW k \in Nat \ {0}, 1 \in 1..Len(s)
        PROVE  Sane(rd[1][s][k], s, 1, k) /\ (s[1].ready \in Seq(Cipher) => rd[1][s][k].got \in Seq(Cipher))
    <3>1. rd[1][s][k] = Take(s, 1, k)
      BY <1>2
    <3>2. k \in Nat
      OBVIOUS
    <3>. QED BY <2>1, <3>1, <3>2, TakeSane
  <2>. QED BY <2>1 DEF SaneReader, GivesCipher
<1>4. 0 \in In
  OBVIOUS
<1>5. ASSUME NEW j \in Nat, j \in In PROVE j + 1 \in In
  <2>. DEFINE i == j + 1
  <2>0. i \in Nat /\ i - 1 = j /\ j \in Nat /\ (i # 1 => j \in 1..i /\ i >= 2)
    OBVIOUS
  <2>. HIDE DEF i
  <2>. SUFFICES ASSUME i \in 1..n PROVE Good(i)
    BY <2>0 DEF i
  <2>1. CASE i = 1
    BY <1>3, <2>1
  <2>2. CASE i # 1
    <3>1. SaneReader(rd[i - 1], i - 1) /\ (i = 2 => GivesCipher(rd[i - 1])) /\ i - 1 \in Nat /\ i >= 2
      BY <1>5, <2>0, <2>2
    <3>2. ASSUME NEW s \in Sounds, NEW k \in Nat \ {0}, i \in 1..Len(s)
          PROVE  Sane(rd[i][s][k], s, i, k)
      <4>1. rd[i][s][k] = DecoderRead(rd[i - 1], s, i, k)
        BY <1>2, <2>2
      <4>2. i \in 2..Len(s) /\ k \in Nat /\ i - 1 \in 1..Len(s) /\ Len(s) \in Nat
        <5>1. Len(s) \in Nat
          BY <3>2, SoundIs
        <5>. QED BY <2>2, <3>2, <5>1
      <4>3. s[i].method \in {"COPY", "SWAP2", "SWAP4", "AES", "LZ4", "BROTLI"} /\ (s[i].method = "AES" => i = 2)
        BY <2>2, <3>2, SoundIs
      <4>4. CASE s[i].method = "COPY"
        <5>1. rd[i][s][k] = rd[i - 1][s][k]
          BY <4>1, <4>4, DecoderReadIs
        <5>2. Sane(rd[i - 1][s][k], s, i - 1, k)
          BY <3>1, <4>2 DEF SaneReader
        <5>. QED BY <3>2, <5>1, <5>2, KeptBelow DEF Sane
      <4>5. CASE s[i].method \in Swaps
        <5>1. rd[i][s][k] = SwapRead(rd[i - 1], s, i, k)
          BY <4>1, <4>5, DecoderReadIs
        <5>2. Sane(SwapRead(rd[i - 1], s, i, k), s, i, k)
          BY <3>1, <4>2, <4>5, SwapReadSane
        <5>. QED BY <5>1, <5>2
      <4>6. CASE s[i].method \in Framed
        <5>1. rd[i][s][k] = FramedRead(rd[i - 1], s, i, k)
          BY <4>1, <4>6, DecoderReadIs
        <5>2. Sane(FramedRead(rd[i - 1], s, i, k), s, i, k)
          BY <3>1, <4>2, <4>6, FramedReadSane
        <5>. QED BY <5>1, <5>2
      <4>7. CASE s[i].method = "AES"
        <5>1. rd[i][s][k] = AesRead(rd[i - 1], s, i, k)
          BY <4>1, <4>7, DecoderReadIs
        <5>2. Sane(AesRead(rd[i - 1], s, i, k), s, i, k)
          BY <3>1, <4>2, <4>3, <4>7, AesReadSane
        <5>. QED BY <5>1, <5>2
      <4>. QED BY <4>3, <4>4, <4>5, <4>6, <4>7 DEF Swaps, Framed
    <3>. QED BY <2>2, <3>2 DEF SaneReader
  <2>. QED BY <2>1, <2>2
<1>6. Nat \subseteq In
  <2>. HIDE DEF In
  <2>. QED BY <1>4, <1>5, SetInduction
<1>. QED BY <1>6 DEF rd

\* A read from the last decoder.
LEMMA ReadSane ==
  ASSUME NEW s \in Sounds, Len(s) > 0, NEW k \in Nat \ {0}
  PROVE  Sane(Read(s, k), s, Len(s), k)
<1>. DEFINE n == Len(s)
<1>1. n \in Nat /\ n \in 1..n
  <2>1. s \in Seq(Decoders)
    BY DEF Sounds, Stacks
  <2>. QED BY <2>1, LenProperties
<1>2. Read(s, k) = Readers(n)[n][s][k]
  BY DEF Read
<1>. HIDE DEF n
<1>3. SaneReader(Readers(n)[n], n)
  BY <1>1, ReadersSane
<1>. QED BY <1>1, <1>2, <1>3 DEF SaneReader, n

\* A new decoder, and the source of packed bytes.
LEMMA NewDecoderIs ==
  ASSUME NEW m \in {"SOURCE", "COPY", "SWAP2", "SWAP4", "AES", "LZ4", "BROTLI"}
  PROVE  /\ NewDecoder(m) \in Decoders /\ NewDecoder(m).method = m
         /\ NewDecoder(m).ready = <<>> /\ NewDecoder(m).pending_len = 0
         /\ NewDecoder(m).remaining = 0 /\ NewDecoder(m).ended = FALSE
         /\ m \notin Swaps => NewDecoder(m).held = <<>>
         /\ m \in Swaps => Len(NewDecoder(m).held) = Unit(m) - 1
<1>. DEFINE h == IF m \in Swaps THEN [j \in 1..(Unit(m) - 1) |-> ZeroByte] ELSE <<>>
<1>1. Unit(m) \in {2, 4}
  BY DEF Unit
<1>2. ZeroByte \in Units
  BY PlainUnits, UnitsAre
<1>3. h \in Seq(Units) /\ (m \in Swaps => Len(h) = Unit(m) - 1) /\ (m \notin Swaps => h = <<>>)
  BY <1>1, <1>2
<1>4. NewDecoder(m) = [method |-> m, ready |-> <<>>, pending_len |-> 0, remaining |-> 0, ended |-> FALSE, held |-> h]
  BY DEF NewDecoder, Swaps
<1>. HIDE DEF h
<1>5. NewDecoder(m) \in Decoders
  BY <1>3, <1>4 DEF Decoders
<1>. QED BY <1>3, <1>4, <1>5

\* The source of packed bytes.
LEMMA PackedSourceIs ==
  ASSUME NEW input \in Seq(Units)
  PROVE  /\ PackedSource(input) \in Decoders /\ PackedSource(input).method = "SOURCE"
         /\ PackedSource(input).ready = input /\ PackedSource(input).held = <<>>
         /\ PackedSource(input).pending_len = 0
<1>. DEFINE d == NewDecoder("SOURCE")
<1>1. /\ d \in Decoders /\ d.method = "SOURCE" /\ d.pending_len = 0 /\ d.held = <<>>
  BY NewDecoderIs DEF Swaps
<1>. HIDE DEF d
<1>2. PackedSource(input) = SetReady(d, input)
  BY DEF PackedSource, SetReady, d
<1>. QED BY <1>1, <1>2, FieldsAre

\* build_decode_stack starts with a sound stack.
LEMMA SourceSound ==
  ASSUME NEW input \in Seq(Units)
  PROVE  <<PackedSource(input)>> \in Sounds
<1>. DEFINE d == PackedSource(input)
            s == <<d>>
<1>1. d \in Decoders /\ d.method = "SOURCE" /\ d.held = <<>> /\ d.pending_len = 0
  BY PackedSourceIs
<1>. HIDE DEF d
<1>2. s \in Seq(Decoders) /\ Len(s) = 1 /\ s[1] = d
  BY <1>1
<1>3. \A i \in 1..Len(s) : i = 1
  BY <1>2
<1>4. d.pending_len <= Len(d.held)
  BY <1>1
<1>. HIDE DEF s
<1>. QED BY <1>1, <1>2, <1>3, <1>4 DEF Sounds, Stacks, s, d

\* A new decoder on a sound stack.
LEMMA SoundAppend ==
  ASSUME NEW s \in Sounds, Len(s) > 0, NEW d \in Decoders, d.method # "SOURCE",
         d.pending_len = 0,
         d.method = "AES" => Len(s) = 1 /\ s[1].ready \in Seq(Cipher) /\ d.held \in Seq(Cipher)
  PROVE  /\ Append(s, d) \in Sounds /\ Len(Append(s, d)) = Len(s) + 1
         /\ Append(s, d)[Len(s) + 1] = d /\ \A i \in 1..Len(s) : Append(s, d)[i] = s[i]
<1>. DEFINE n == Len(s)
            t == Append(s, d)
<1>1. s \in Seq(Decoders) /\ n \in Nat
  BY DEF Sounds, Stacks
<1>2. t \in Stacks /\ Len(t) = n + 1 /\ t[n + 1] = d /\ \A i \in 1..n : t[i] = s[i]
  BY <1>1 DEF Stacks
<1>. HIDE DEF t
<1>3. d.held \in Seq(Units) /\ Len(d.held) \in Nat
  BY DEF Decoders
<1>4. ASSUME NEW i \in 1..(n + 1)
      PROVE  /\ t[i].pending_len <= Len(t[i].held)
             /\ t[i].method = "SOURCE" => i = 1
             /\ t[i].method = "AES" => i = 2 /\ t[1].ready \in Seq(Cipher) /\ t[2].held \in Seq(Cipher)
                                    /\ t[i].pending_len = 0
  <2>1. CASE i = n + 1
    <3>1. t[i] = d /\ d.pending_len <= Len(d.held)
      BY <1>2, <1>3, <2>1
    <3>2. ASSUME d.method = "AES" PROVE i = 2 /\ t[1] = s[1] /\ t[2] = d
      <4>1. n = 1
        BY <3>2
      <4>2. n + 1 = 2 /\ 1 \in 1..n
        BY <4>1
      <4>. QED BY <1>2, <2>1, <4>2
    <3>. QED BY <3>1, <3>2
  <2>2. CASE i # n + 1
    <3>1. i \in 1..n
      BY <1>1, <2>2
    <3>2. t[i] = s[i] /\ /\ s[i].pending_len <= Len(s[i].held)
                         /\ s[i].method = "SOURCE" => i = 1
                         /\ s[i].method = "AES" => i = 2 /\ s[1].ready \in Seq(Cipher) /\ s[2].held \in Seq(Cipher)
                                                /\ s[i].pending_len = 0
      BY <1>2, <3>1, SoundIs
    <3>3. i = 2 => 1 \in 1..n /\ 2 \in 1..n
      BY <1>1, <3>1
    <3>4. i = 2 => t[1] = s[1] /\ t[2] = s[2]
      BY <1>2, <3>3
    <3>. QED BY <3>2, <3>4
  <2>. QED BY <2>1, <2>2
<1>5. t \in Sounds
  BY <1>2, <1>4 DEF Sounds
<1>. QED BY <1>2, <1>5 DEF t

\* What add_decoder reads.
First2(s) == Read(s, HeaderSize)
Announced(got) == IF IsHeader(got) THEN got[1][2] ELSE 0

\* The two ways of add_decoder.
LEMMA AddIs ==
  ASSUME NEW s, NEW m
  PROVE  /\ m \notin Framed => add_decoder(s, m) = Result(Append(s, NewDecoder(m)), <<>>, TRUE)
         /\ m \in Framed => add_decoder(s, m) =
              Result(Append(First2(s).stack, SetRemaining(NewDecoder(m), Announced(First2(s).got))),
                     <<>>, First2(s).ok /\ IsHeader(First2(s).got))
<1>1. CASE m \notin Framed
  BY <1>1, Zenon DEF add_decoder, Framed
<1>2. CASE m \in Framed
  <2>1. m \in {"LZ4", "BROTLI"}
    BY <1>2 DEF Framed
  <2>2. add_decoder(s, m) =
          Result(Append(First2(s).stack, [NewDecoder(m) EXCEPT
                          !.remaining = IF IsHeader(First2(s).got) THEN First2(s).got[1][2] ELSE 0]),
                     <<>>, First2(s).ok /\ IsHeader(First2(s).got))
    BY <2>1, Zenon DEF add_decoder, First2
  <2>. QED BY <1>2, <2>2 DEF SetRemaining, Announced
<1>. QED BY <1>1, <1>2

\* add_decoder leaves a sound stack with one more decoder, of its method.
LEMMA AddSane ==
  ASSUME NEW s \in Sounds, Len(s) > 0, NEW m \in AllMethods,
         m = "AES" => Len(s) = 1 /\ s[1].ready \in Seq(Cipher)
  PROVE  /\ add_decoder(s, m).stack \in Sounds /\ Len(add_decoder(s, m).stack) = Len(s) + 1
         /\ \A i \in 1..Len(s) : add_decoder(s, m).stack[i].method = s[i].method
         /\ add_decoder(s, m).stack[Len(s) + 1].method = m
<1>1. /\ NewDecoder(m) \in Decoders /\ NewDecoder(m).method = m /\ NewDecoder(m).pending_len = 0
      /\ (m = "AES" => NewDecoder(m).held = <<>>) /\ m # "SOURCE"
  BY NewDecoderIs DEF AllMethods, Swaps
<1>2. CASE m \notin Framed
  <2>. DEFINE d == NewDecoder(m)
              t == Append(s, d)
  <2>. HIDE DEF d
  <2>1. d.method = "AES" => Len(s) = 1 /\ s[1].ready \in Seq(Cipher) /\ d.held \in Seq(Cipher)
    <3>1. <<>> \in Seq(Cipher)
      OBVIOUS
    <3>2. d.method = m /\ (m = "AES" => d.held = <<>>)
      BY <1>1 DEF d
    <3>. QED BY <3>1, <3>2
  <2>2. t \in Sounds /\ Len(t) = Len(s) + 1 /\ t[Len(s) + 1] = d /\ \A i \in 1..Len(s) : t[i] = s[i]
    BY <1>1, <2>1, SoundAppend DEF d
  <2>3. add_decoder(s, m).stack = t
    BY <1>2, AddIs DEF Result, d
  <2>. HIDE DEF t
  <2>. QED BY <1>1, <2>2, <2>3 DEF d
<1>3. CASE m \in Framed
  <2>. DEFINE r == First2(s)
              u == r.stack
              x == Announced(r.got)
              d == SetRemaining(NewDecoder(m), x)
              t == Append(u, d)
  <2>1. Kept(s, u, Len(s)) /\ r.got \in Seq(Units)
    <3>1. HeaderSize \in Nat \ {0}
      BY HeaderSizeIs
    <3>. QED BY <3>1, ReadSane DEF First2, Sane
  <2>2. x \in Nat
    <3>. HIDE DEF r
    <3>. QED BY <2>1, HeaderIs DEF Announced
  <2>3. u \in Sounds /\ Len(u) = Len(s) /\ \A i \in 1..Len(s) : u[i].method = s[i].method
    BY <2>1 DEF Kept
  <2>4. add_decoder(s, m).stack = t
    BY <1>3, AddIs DEF Result
  <2>. HIDE DEF r, x
  <2>5. d \in Decoders /\ d.method = m /\ d.pending_len = 0
    <3>1. <<>> \in Seq(Units)
      OBVIOUS
    <3>. QED BY <1>1, <2>2, <3>1, FieldsAre
  <2>6. d.method # "AES" /\ d.method # "SOURCE"
    BY <1>3, <2>5 DEF Framed
  <2>. HIDE DEF d, u
  <2>7. t \in Sounds /\ Len(t) = Len(u) + 1 /\ t[Len(u) + 1] = d /\ \A i \in 1..Len(u) : t[i] = u[i]
    BY <2>3, <2>5, <2>6, SoundAppend
  <2>. HIDE DEF t
  <2>. QED BY <2>3, <2>4, <2>5, <2>7
<1>. QED BY <1>2, <1>3

\* Where build_decode_stack starts, what it has after coder j.
OpenStart(input) == Result(<<PackedSource(input)>>, <<>>, TRUE)
OpenUpTo(ch, sizes, input) ==
  StackUpTo(write_block(ch, sizes), OpenStart(input), ordered_coder_iter(write_block(ch, sizes)), Len(ch))

\* It adds the decoders in the order of the methods.
LEMMA OpenIs ==
  ASSUME NEW ch \in AnyChains, Len(ch) > 0, NEW sizes, NEW input
  PROVE  LET f == OpenUpTo(ch, sizes, input) IN
         /\ build_decode_stack(write_block(ch, sizes), input) = f[Len(ch)]
         /\ f[0] = OpenStart(input)
         /\ \A j \in 1..Len(ch) :
              f[j] = IF f[j - 1].ok THEN add_decoder(f[j - 1].stack, ch[j]) ELSE f[j - 1]
<1>. DEFINE n == Len(ch)
            blk == write_block(ch, sizes)
            it == ordered_coder_iter(blk)
            f == OpenUpTo(ch, sizes, input)
            U == StackUpTo(blk, OpenStart(input), it, n)
<1>1. ch \in Seq(AllMethods) /\ n \in Nat /\ n > 0
  BY DEF AnyChains
<1>2. blk.coders = ch
  BY DEF write_block
<1>3. packed_stream(blk) = 1 /\ \A i \in 1..n : it[i] = i
  <2>1. ch # <<>>
    BY <1>1
  <2>. QED BY <1>1, <2>1, CodersComeBackInOrder
<1>4. U = [j \in 0..n |-> IF j = 0 THEN OpenStart(input) ELSE add_coder(blk, U[j - 1], it[j])]
  <2>. HIDE DEF blk, it
  <2>. QED BY <1>1, StackUpToDef
<1>5. f = U
  BY DEF OpenUpTo
<1>6. build_decode_stack(blk, input) = U[n]
  <2>. HIDE DEF blk, U, it
  <2>1. build_decode_stack(blk, input) = StackUpTo(blk, Result(<<PackedSource(input)>>, <<>>, packed_stream(blk) # 0),
                     ordered_coder_iter(blk), Len(blk.coders))[Len(blk.coders)]
    BY StackIs
  <2>2. Result(<<PackedSource(input)>>, <<>>, packed_stream(blk) # 0) = OpenStart(input)
    <3>1. (packed_stream(blk) # 0) = TRUE
      BY <1>3
    <3>. QED BY <3>1 DEF OpenStart
  <2>. QED BY <1>2, <2>1, <2>2 DEF U, it
<1>. HIDE DEF f, U, blk, it
<1>7. f[0] = OpenStart(input)
  <2>1. 0 \in 0..n
    BY <1>1
  <2>. QED BY <1>4, <1>5, <2>1
<1>8. ASSUME NEW j \in 1..n
      PROVE  f[j] = IF f[j - 1].ok THEN add_decoder(f[j - 1].stack, ch[j]) ELSE f[j - 1]
  <2>1. j \in 0..n /\ j # 0
    BY <1>1
  <2>2. f[j] = add_coder(blk, f[j - 1], it[j])
    BY <1>4, <1>5, <2>1
  <2>3. it[j] = j
    BY <1>3
  <2>. QED BY <1>2, <2>1, <2>2, <2>3, Zenon DEF add_coder
<1>. QED BY <1>5, <1>6, <1>7, <1>8 DEF f, blk, U

\* The stack is sound; if nothing failed, it has the decoders of the chain.
LEMMA OpenSane ==
  ASSUME NEW ch \in AnyChains, Len(ch) > 0, NEW sizes, NEW input \in Seq(StreamOf(ch, 0))
  PROVE  LET r == build_decode_stack(write_block(ch, sizes), input) IN
         /\ r.stack \in Sounds /\ Len(r.stack) > 0
         /\ r.ok => /\ Len(r.stack) = Len(ch) + 1 /\ r.stack[1].method = "SOURCE"
                    /\ \A i \in 1..Len(ch) : r.stack[i + 1].method = ch[i]
<1>. DEFINE n == Len(ch)
            f == OpenUpTo(ch, sizes, input)
            Built(j, r) == /\ r.stack \in Sounds /\ Len(r.stack) > 0
                           /\ r.ok => /\ Len(r.stack) = j + 1 /\ r.stack[1].method = "SOURCE"
                                      /\ (j = 0 => r.stack[1].ready = input)
                                      /\ \A i \in 1..j : r.stack[i + 1].method = ch[i]
            In == {j \in Nat : j \in 0..n => Built(j, f[j])}
<1>1. n \in Nat /\ (\A i \in 1..n : ch[i] \in AllMethods) /\ (\A i \in 2..n : ch[i] # "AES") /\ n > 0
  BY ChainIs DEF AnyChains
<1>2. /\ build_decode_stack(write_block(ch, sizes), input) = f[n]
      /\ f[0] = OpenStart(input)
      /\ \A j \in 1..n : f[j] = IF f[j - 1].ok THEN add_decoder(f[j - 1].stack, ch[j]) ELSE f[j - 1]
  BY OpenIs
<1>3. input \in Seq(Units) /\ (ch[1] = "AES" => input \in Seq(Cipher))
  BY UnitsAre DEF StreamOf, OutOf
<1>. HIDE DEF f
<1>4. 0 \in In
  <2>. DEFINE d == PackedSource(input)
              s == <<d>>
  <2>1. f[0].stack = s /\ f[0].ok = TRUE
    BY <1>2 DEF OpenStart, Result
  <2>2. s \in Sounds /\ d.ready = input /\ d.method = "SOURCE"
    BY <1>3, SourceSound, PackedSourceIs
  <2>. HIDE DEF d
  <2>3. Len(s) = 1 /\ s[1] = d
    OBVIOUS
  <2>. HIDE DEF s
  <2>4. Built(0, f[0])
    BY <2>1, <2>2, <2>3
  <2>. QED BY <2>4
<1>5. ASSUME NEW j \in Nat, j \in In PROVE j + 1 \in In
  <2>. DEFINE i == j + 1
              m == ch[i]
  <2>0. i \in Nat /\ i - 1 = j /\ i > 0
    OBVIOUS
  <2>. HIDE DEF i, Built
  <2>. SUFFICES ASSUME i \in 1..n PROVE Built(i, f[i])
    BY <2>0 DEF i
  <2>1. j \in 0..n
    BY <1>1, <2>0
  <2>2. Built(j, f[j])
    BY <1>5, <2>1
  <2>3. f[i] = IF f[j].ok THEN add_decoder(f[j].stack, m) ELSE f[j]
    BY <1>2, <2>0
  <2>4. CASE ~f[j].ok
    BY <2>2, <2>3, <2>4 DEF Built
  <2>5. CASE f[j].ok
    <3>. DEFINE s == f[j].stack
                r == add_decoder(s, m)
    <3>1. s \in Sounds /\ Len(s) = j + 1 /\ s[1].method = "SOURCE" /\ (j = 0 => s[1].ready = input)
          /\ \A l \in 1..j : s[l + 1].method = ch[l]
      BY <2>2, <2>5 DEF Built
    <3>2. m \in AllMethods /\ (m = "AES" => j = 0)
      <4>1. j # 0 => i \in 2..n
        BY <1>1, <2>0
      <4>. QED BY <1>1, <4>1
    <3>. HIDE DEF s
    <3>3. m = "AES" => Len(s) = 1 /\ s[1].ready \in Seq(Cipher)
      <4>1. j = 0 => i = 1
        BY <2>0
      <4>. QED BY <1>3, <3>1, <3>2, <4>1
    <3>. HIDE DEF m
    <3>4. /\ r.stack \in Sounds /\ Len(r.stack) = Len(s) + 1
          /\ \A l \in 1..Len(s) : r.stack[l].method = s[l].method
          /\ r.stack[Len(s) + 1].method = m
      <4>1. Len(s) > 0
        BY <3>1
      <4>. QED BY <3>1, <3>2, <3>3, <4>1, AddSane
    <3>5. f[i] = r
      BY <2>3, <2>5 DEF s
    <3>. HIDE DEF r
    <3>6. Len(r.stack) = i + 1 /\ Len(s) = i /\ 1 \in 1..Len(s) /\ i # 0
      BY <2>0, <3>1, <3>4
    <3>7. ASSUME NEW l \in 1..i PROVE r.stack[l + 1].method = ch[l]
      <4>1. CASE l = i
        BY <3>4, <3>6, <4>1 DEF m
      <4>2. CASE l # i
        <5>1. l \in 1..j /\ l + 1 \in 1..Len(s)
          BY <2>0, <3>6, <4>2
        <5>. QED BY <3>1, <3>4, <5>1
      <4>. QED BY <4>1, <4>2
    <3>8. r.stack[1].method = "SOURCE" /\ Len(r.stack) > 0
      BY <2>0, <3>1, <3>4, <3>6
    <3>. QED BY <3>4, <3>5, <3>6, <3>7, <3>8 DEF Built
  <2>. QED BY <2>4, <2>5
<1>6. Nat \subseteq In
  <2>. HIDE DEF In
  <2>. QED BY <1>4, <1>5, SetInduction
<1>7. Built(n, f[n])
  <2>1. n \in In /\ n \in 0..n
    BY <1>1, <1>6
  <2>. HIDE DEF Built
  <2>. QED BY <2>1
<1>. QED BY <1>2, <1>7

-----------------------------------------------------------------------------
(* Types *)

\* What the caller has, and the decoders it reads from.
ReadInv ==
  /\ block = write_block(chain, block.unpack_sizes)
  /\ out \in Seq(Units) /\ Len(out) <= written
  /\ phase \in {"push", "packed"} => out = <<>>
  /\ phase = "read" => stack \in Sounds /\ Len(stack) > 0

\* What is packed are cipher blocks when the method next to the output is AES.
LEMMA PackedIn ==
  ASSUME PushInv, phase # "push"
  PROVE  packed \in Seq(StreamOf(chain, 0)) /\ chain \in AnyChains /\ Len(chain) > 0
<1>1. chain \in AnyChains /\ Len(chain) > 0 /\ Len(chain) \in Nat /\ written \in Nat
  BY ChainsIs, ChainAssumption DEF PushInv
<1>. DEFINE data == Data(written)
            new == NewChain(chain)
            cs == AtOnce(data)
            all == cs \o EndOfPush
            Z == [i \in 0..Len(chain) |-> <<>>]
<1>2. data \in Seq(Plain)
  BY <1>1, DataIs
<1>3. new \in ChainEncs(chain)
  BY <1>1, CarriesNothing DEF Carries
<1>4. packed = RunChain(chain, new, all).units
  <2>1. packed = PackedAtOnce(chain, data)
    BY DEF PushInv, CutsDoNotShow
  <2>2. PackedAtOnce(chain, data) = RunChain(chain, new, all).units
    BY Zenon DEF PackedAtOnce, new, all, cs, AtOnce, EndOfPush
  <2>. QED BY <2>1, <2>2
<1>5. all \in Seq(AnyCalls(Plain))
  <2>1. cs \in Seq(AnyCalls(Plain)) /\ EndOfPush \in Seq(AnyCalls(Plain))
    BY <1>2, AtOnceIs, EndCallsIn
  <2>. HIDE DEF cs
  <2>. QED BY <2>1, ConcatProperties
<1>. HIDE DEF new, all
<1>6. RunChain(chain, new, all).units \in Seq(StreamOf(chain, 0))
  BY <1>1, <1>3, <1>5, RunTypes
<1>. QED BY <1>1, <1>4, <1>6

\* build_decode_stack gives a sound stack.
LEMMA OpenBlockSane ==
  ASSUME PushInv, ReadInv, OpenBlock
  PROVE  ReadInv'
<1>. DEFINE r == build_decode_stack(block, packed)
<1>1. phase = "packed" /\ stack' = r.stack /\ phase' = (IF r.ok THEN "read" ELSE "error")
      /\ UNCHANGED <<chain, written, encs, packed, block, out>>
  BY DEF OpenBlock
<1>2. packed \in Seq(StreamOf(chain, 0)) /\ chain \in AnyChains /\ Len(chain) > 0
  BY <1>1, PackedIn
<1>3. r.stack \in Sounds /\ Len(r.stack) > 0
  <2>1. block = write_block(chain, block.unpack_sizes)
    BY DEF ReadInv
  <2>2. build_decode_stack(write_block(chain, block.unpack_sizes), packed).stack \in Sounds
        /\ Len(build_decode_stack(write_block(chain, block.unpack_sizes), packed).stack) > 0
    BY <1>2, OpenSane
  <2>. QED BY <2>1, <2>2
<1>. HIDE DEF r
<1>4. stack' \in Sounds /\ Len(stack') > 0 /\ phase' \in {"read", "error"}
  BY <1>1, <1>3
<1>. QED BY <1>1, <1>4 DEF ReadInv

\* What a read of the entry asks the last decoder for.
Asked(n) == AtMost(n, written - Len(out))

\* A read of the entry leaves a sound stack, and no more than the entry in out.
LEMMA ReadEntrySane ==
  ASSUME PushInv, ReadInv, NEW n \in ReadSizes, ReadEntry(n)
  PROVE  ReadInv'
<1>. DEFINE left == written - Len(out)
            k == Asked(n)
            r == Read(stack, k)
            all == out \o r.got
            ok == r.ok /\ (Len(all) >= get_unpack_size(block) => all = Data(written))
<1>1. phase = "read" /\ stack \in Sounds /\ Len(stack) > 0 /\ out \in Seq(Units)
      /\ Len(out) <= written /\ written \in Nat /\ n \in Nat \ {0} /\ Len(out) \in Nat
  <2>1. phase = "read"
    BY DEF ReadEntry
  <2>2. out \in Seq(Units)
    BY DEF ReadInv
  <2>. QED BY <2>1, <2>2, ChainAssumption, LenProperties DEF ReadInv, PushInv
<1>2. UNCHANGED <<chain, written, encs, packed, block>>
  BY DEF ReadEntry
<1>3. CASE left = 0
  <2>1. phase' = "end" /\ UNCHANGED <<stack, out>>
    BY <1>3 DEF ReadEntry
  <2>. QED BY <1>2, <2>1 DEF ReadInv
<1>4. CASE left # 0
  <2>1. stack' = r.stack /\ out' = (IF ok THEN all ELSE out)
        /\ phase' \in {"read", "end", "error"}
    BY <1>4, Zenon DEF ReadEntry, Answered, Asked
  <2>2. k \in Nat \ {0} /\ k <= left
    BY <1>1, <1>4 DEF Asked, AtMost
  <2>3. Kept(stack, r.stack, Len(stack)) /\ r.got \in Seq(Units) /\ Len(r.got) <= k
    <3>. HIDE DEF k
    <3>. QED BY <1>1, <2>2, ReadSane DEF Sane
  <2>. HIDE DEF r, k
  <2>4. all \in Seq(Units) /\ Len(all) <= written
    <3>. DEFINE a == out
                b == r.got
    <3>1. a \in Seq(Units) /\ b \in Seq(Units)
      BY <1>1, <2>3
    <3>2. Len(b) \in Nat /\ Len(b) <= left
      <4>1. Len(b) \in Nat
        BY <3>1, LenProperties
      <4>2. Len(b) <= k
        BY <2>3
      <4>3. left \in Int
        BY <1>1
      <4>. HIDE DEF b, left
      <4>. QED BY <2>2, <4>1, <4>2, <4>3
    <3>. HIDE DEF b
    <3>3. a \o b \in Seq(Units) /\ Len(a \o b) = Len(a) + Len(b)
      BY <3>1, ConcatProperties
    <3>4. Len(a \o b) <= written
      BY <1>1, <3>2, <3>3
    <3>. QED BY <3>3, <3>4 DEF b
  <2>. HIDE DEF all, ok
  <2>5. out' \in Seq(Units) /\ Len(out') <= written
    BY <1>1, <2>1, <2>4
  <2>6. stack' \in Sounds /\ Len(stack') > 0
    BY <1>1, <2>1, <2>3 DEF Kept
  <2>. QED BY <1>2, <2>1, <2>5, <2>6 DEF ReadInv
<1>. QED BY <1>3, <1>4

\* Every step keeps that.
LEMMA ReadStep ==
  ASSUME PushInv, ReadInv, [Next]_vars
  PROVE  ReadInv'
<1>1. ASSUME NEW n \in ReadSizes, PushBytes(n) PROVE ReadInv'
  <2>1. phase = "push" /\ UNCHANGED <<chain, phase, block, stack, out>> /\ written' = written + n
    BY <1>1 DEF PushBytes
  <2>2. written \in Nat /\ n \in Nat
    BY ChainAssumption DEF PushInv
  <2>3. out = <<>> /\ Len(out) = 0
    BY <2>1 DEF ReadInv
  <2>4. Len(out') <= written'
    BY <2>1, <2>2, <2>3
  <2>. QED BY <2>1, <2>4 DEF ReadInv
<1>2. CASE FinishPush
  <2>1. phase = "push" /\ phase' = "packed" /\ UNCHANGED <<chain, written, stack, out>>
        /\ \E sizes : block' = write_block(chain, sizes)
    BY <1>2 DEF FinishPush
  <2>2. block' = write_block(chain, block'.unpack_sizes)
    BY <2>1 DEF write_block
  <2>. QED BY <2>1, <2>2 DEF ReadInv
<1>3. CASE OpenBlock
  BY <1>3, OpenBlockSane
<1>4. ASSUME NEW n \in ReadSizes, ReadEntry(n) PROVE ReadInv'
  BY <1>4, ReadEntrySane
<1>5. CASE UNCHANGED vars
  BY <1>5 DEF vars, ReadInv
<1>. QED BY <1>1, <1>2, <1>3, <1>4, <1>5 DEF Next

\* It holds at first.
LEMMA ReadInit ==
  ASSUME Init
  PROVE  ReadInv
<1>1. block = write_block(chain, <<>>) /\ out = <<>> /\ phase = "push" /\ written = 0
  BY DEF Init
<1>2. block = write_block(chain, block.unpack_sizes)
  BY <1>1 DEF write_block
<1>3. out \in Seq(Units) /\ Len(out) <= written
  BY <1>1
<1>. QED BY <1>1, <1>2, <1>3 DEF ReadInv

\* The type invariant follows.
LEMMA TypesFollow ==
  ASSUME PushInv, ReadInv
  PROVE  TypeOK
<1>1. chain \in Chains /\ phase \in {"push", "packed", "read", "end", "error"} /\ written \in 0..MaxData
      /\ encs \in ChainEncs(chain) /\ Len(out) <= written
  BY DEF PushInv, ReadInv
<1>2. DOMAIN chain = 1..Len(chain) /\ Len(chain) \in Nat
  BY <1>1, ChainsIs
<1>3. DOMAIN encs = 1..Len(chain) /\ \A i \in 1..Len(chain) : encs[i] \in Encs(chain[i])
  BY <1>1 DEF ChainEncs
<1>4. \A i \in DOMAIN encs : Len(encs[i].held) < Full(chain[i]) /\ encs[i].finished \in BOOLEAN
  BY <1>3 DEF Encs
<1>. QED BY <1>1, <1>2, <1>3, <1>4 DEF TypeOK

\* No encoder holds a full unit, frame or block between two calls (the assertion
\* buffer.len() < 16 of Aes256Sha256Encoder::write among them), no decoder hands
\* out more than it was asked for, and the caller never has more than the entry's
\* size.
THEOREM ChainTypes == Spec => []TypeOK
<1>1. Init => ReadInv
  BY ReadInit
<1>2. PushInv /\ PushInv' /\ ReadInv /\ [Next]_vars => ReadInv'
  BY ReadStep
<1>3. Spec => []ReadInv
  BY <1>1, <1>2, PushInvariant, PTL DEF Spec
<1>4. PushInv /\ ReadInv => TypeOK
  BY TypesFollow
<1>. QED BY <1>3, <1>4, PushInvariant, PTL
=============================================================================
