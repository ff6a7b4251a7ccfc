------------------------ MODULE CodecRoundTrip_proofs ------------------------
(***************************************************************************)
(* What is pushed through a chain of methods comes back through the stack  *)
(* of decoders, for any chain that is not Excepted and any sizes of writes *)
(* and reads, of frames and blocks.                                        *)
(*                                                                         *)
(* Gives(s, i, R) says what reader i has still to give, by the streams     *)
(* below it and what each decoder holds (Level); a read takes its bytes    *)
(* from the front of R and fails for none of them (ReadWell).  From the    *)
(* top down, each encoder leaves calls (Fed) whose units the decoder of    *)
(* its method turns back (CodedAt), so the stack that is opened has all    *)
(* that was pushed to give (OpenWell, PushedDecodes), and out and what the *)
(* stack has to give stay the data (DecodeInv).                            *)
(***************************************************************************)
EXTENDS CodecChain_proofs

-----------------------------------------------------------------------------
(* The streams the decoders of a stack give back *)

\* A sequence that is not empty is its first element and the rest.
LEMMA FrontIs ==
  ASSUME NEW S, NEW s \in Seq(S), s # <<>>
  PROVE  /\ s[1] \in S /\ <<s[1]>> \in Seq(S) /\ From(s, 1) \in Seq(S)
         /\ s = <<s[1]>> \o From(s, 1) /\ Len(From(s, 1)) = Len(s) - 1
         /\ \A i \in 1..(Len(s) - 1) : From(s, 1)[i] = s[i + 1]
<1>1. Len(s) \in Nat /\ Len(s) > 0
  OBVIOUS
<1>2. 1 \in 0..Len(s) /\ s[1] \in S
  BY <1>1
<1>3. /\ First(s, 1) \in Seq(S) /\ Len(First(s, 1)) = 1
      /\ From(s, 1) \in Seq(S) /\ Len(From(s, 1)) = Len(s) - 1
      /\ First(s, 1) \o From(s, 1) = s
      /\ (\A j \in 1..1 : First(s, 1)[j] = s[j])
      /\ \A j \in 1..(Len(s) - 1) : From(s, 1)[j] = s[j + 1]
  BY <1>2, CutIs
<1>4. First(s, 1) = <<s[1]>>
  <2>. DEFINE a == First(s, 1)
              b == <<s[1]>>
  <2>1. a \in Seq(S) /\ Len(a) = 1 /\ a[1] = s[1] /\ b \in Seq(S) /\ Len(b) = 1 /\ b[1] = s[1]
    BY <1>2, <1>3
  <2>. HIDE DEF a, b
  <2>2. \A i \in 1..Len(a) : a[i] = b[i]
    BY <2>1
  <2>3. a = b
    BY <2>1, <2>2, SeqEqual
  <2>. QED BY <2>3 DEF a, b
<1>. QED BY <1>2, <1>3, <1>4

\* What concatenation does to lengths and to the empty sequence.
LEMMA ConcatIs ==
  ASSUME NEW S, NEW a \in Seq(S), NEW b \in Seq(S)
  PROVE  /\ a \o b \in Seq(S) /\ Len(a) \in Nat /\ Len(b) \in Nat /\ Len(a \o b) = Len(a) + Len(b)
         /\ a \o b = <<>> <=> a = <<>> /\ b = <<>>
         /\ a \o <<>> = a /\ <<>> \o a = a
         /\ Len(a) = 0 <=> a = <<>>
<1>1. a \o b \in Seq(S) /\ Len(a) \in Nat /\ Len(b) \in Nat /\ Len(a \o b) = Len(a) + Len(b)
  BY ConcatProperties, LenProperties
<1>2. a \o <<>> = a /\ <<>> \o a = a
  BY ConcatEmptySeq
<1>3. \A s \in Seq(S) : Len(s) = 0 <=> s = <<>>
  OBVIOUS
<1>4. a \o b = <<>> <=> a = <<>> /\ b = <<>>
  <2>1. a \o b = <<>> <=> Len(a \o b) = 0
    BY <1>1, <1>3
  <2>2. Len(a \o b) = 0 <=> Len(a) = 0 /\ Len(b) = 0
    BY <1>1
  <2>. QED BY <1>3, <2>1, <2>2
<1>. QED BY <1>1, <1>2, <1>3, <1>4

\* What Swap2 makes of a stream: its pairs reversed, and the last unit of an odd one.
Swapped(x) == Coded("SWAP2", Groups(x, 2)) \o Rest(x, 2)

\* The pairs of a stream are parts of a Swap2 encoder.
LEMMA SwappedIn ==
  ASSUME NEW x \in Seq(Plain)
  PROVE  /\ Swapped(x) \in Seq(Plain) /\ Groups(x, 2) \in Seq(Parts("SWAP2"))
         /\ Coded("SWAP2", Groups(x, 2)) \in Seq(Plain) /\ Rest(x, 2) \in Seq(Plain)
<1>. DEFINE m == "SWAP2"
            gs == Groups(x, 2)
            r == Rest(x, 2)
<1>1. m \in AllMethods /\ Full(m) = 2 /\ OutOf(m) = Plain
  BY DEF AllMethods, Full, Unit, OutOf
<1>2. Groups(x, Full(m)) \in Seq(Parts(m))
  BY <1>1, GroupsTaken
<1>3. r \in Seq(Plain)
  BY GroupsParts
<1>. HIDE DEF m
<1>4. gs \in Seq(Parts(m))
  BY <1>1, <1>2
<1>. HIDE DEF gs, r
<1>5. Coded(m, gs) \in Seq(Plain)
  BY <1>1, <1>4, CodedIn
<1>6. Coded(m, gs) \o r \in Seq(Plain)
  <2>. DEFINE c == Coded(m, gs)
  <2>1. c \in Seq(Plain)
    BY <1>5
  <2>. HIDE DEF c
  <2>2. c \o r \in Seq(Plain)
    BY <1>3, <2>1, ConcatProperties
  <2>. QED BY <2>2 DEF c
<1>. QED BY <1>3, <1>4, <1>5, <1>6 DEF Swapped, m, gs, r

\* Less than a pair stays as it is.
LEMMA SwappedFew ==
  ASSUME NEW x \in Seq(Plain), Len(x) < 2
  PROVE  Swapped(x) = x
<1>1. Groups(x, 2) = <<>> /\ Rest(x, 2) = x
  BY GroupsOfFew
<1>2. Coded("SWAP2", <<>>) = <<>> /\ <<>> \o x = x
  BY CodedEmpty, ConcatEmptySeq
<1>. QED BY <1>1, <1>2 DEF Swapped

\* A pair in front comes out reversed in front.
LEMMA SwappedPair ==
  ASSUME NEW p \in Blocks(2, Plain), NEW y \in Seq(Plain)
  PROVE  Swapped(p \o y) = Reverse(p) \o Swapped(y)
<1>. DEFINE m == "SWAP2"
            g == Groups(y, 2)
            r == Rest(y, 2)
            c == Coded(m, g)
<1>1. m \in AllMethods /\ m \in Swaps /\ OutOf(m) = Plain /\ Parts(m) = Blocks(2, Plain)
  BY DEF AllMethods, Full, Unit, OutOf, Swaps, Parts, Framed
<1>2. p \in Seq(Plain) /\ Len(p) = 2
  BY GroupsAreSeqs
<1>3. Groups(p, 2) = <<p>> /\ Rest(p, 2) = <<>>
  <2>. DEFINE gs == <<p>>
              s == <<>>
  <2>1. gs \in Seq(Blocks(2, Plain)) /\ s \in Seq(Plain) /\ Len(s) < 2
    OBVIOUS
  <2>2. FlattenSeq(gs) = p
    BY <1>2, FlattenOne
  <2>3. p \o s = p
    BY <1>2, ConcatEmptySeq
  <2>. HIDE DEF gs, s
  <2>4. Groups(FlattenSeq(gs) \o s, 2) = gs /\ Rest(FlattenSeq(gs) \o s, 2) = s
    BY <2>1, GroupsUnique
  <2>. QED BY <2>2, <2>3, <2>4 DEF gs, s
<1>4. /\ Groups(p \o y, 2) = Groups(p, 2) \o Groups(Rest(p, 2) \o y, 2)
      /\ Rest(p \o y, 2) = Rest(Rest(p, 2) \o y, 2)
  BY <1>2, GroupsConcat
<1>5. <<>> \o y = y
  BY ConcatEmptySeq
<1>6. Groups(p \o y, 2) = <<p>> \o g /\ Rest(p \o y, 2) = r
  BY <1>3, <1>4, <1>5
<1>7. g \in Seq(Parts(m)) /\ c \in Seq(Plain) /\ r \in Seq(Plain)
  BY SwappedIn
<1>. HIDE DEF m, g, r
<1>8. Coded(m, <<p>> \o g) = Reverse(p) \o c
  <2>1. <<p>> \in Seq(Parts(m)) /\ Coded(m, <<p>>) = EncodedBy(m, p)
    BY <1>1, CodedOne
  <2>2. EncodedBy(m, p) = Reverse(p)
    BY <1>1, EncodedIs
  <2>3. Coded(m, <<p>> \o g) = Coded(m, <<p>>) \o Coded(m, g)
    BY <1>1, <1>7, <2>1, CodedConcat
  <2>. QED BY <2>1, <2>2, <2>3
<1>9. (Reverse(p) \o c) \o r = Reverse(p) \o (c \o r)
  <2>. DEFINE q == Reverse(p)
  <2>1. q \in Seq(Plain)
    BY <1>2, Reversed
  <2>. HIDE DEF q, c
  <2>2. (q \o c) \o r = q \o (c \o r)
    <3>1. Associates(q, c, r)
      BY <1>7, <2>1, Associate
    <3>. QED BY <3>1 DEF Associates
  <2>. QED BY <2>2 DEF q
<1>10. Swapped(y) = c \o r
  BY DEF Swapped, m, g, r
<1>11. Swapped(p \o y) = Coded(m, <<p>> \o g) \o r
  BY <1>6 DEF Swapped, m
<1>. QED BY <1>8, <1>9, <1>10, <1>11

\* What lz4 and brotli make of packets: a frame of each.
Framing(ps) == Coded("LZ4", ps)
Packets == Seq(Seq(Plain))

\* Frames and packets are streams.
LEMMA FramesIn ==
  ASSUME NEW ps \in Packets
  PROVE  Framing(ps) \in Seq(Plain) /\ FlattenSeq(ps) \in Seq(Plain)
<1>. DEFINE m == "LZ4"
<1>1. m \in AllMethods /\ OutOf(m) = Plain /\ Parts(m) = Seq(Plain)
  BY DEF AllMethods, OutOf, Parts, Framed
<1>2. ps \in Seq(Seq(Plain))
  BY DEF Packets
<1>. HIDE DEF m
<1>3. Coded(m, ps) \in Seq(Plain)
  BY <1>1, <1>2, CodedIn
<1>4. FlattenSeq(ps) \in Seq(Plain)
  BY <1>2, FlattenIn
<1>. QED BY <1>3, <1>4 DEF Framing, m

\* The frame of the first packet is in front.
LEMMA FramesFront ==
  ASSUME NEW ps \in Packets, ps # <<>>
  PROVE  LET p == ps[1]
             qs == From(ps, 1)
         IN  /\ p \in Seq(Plain) /\ qs \in Packets
             /\ FrameHeader(Len(p) + 1) \in Seq(Plain) /\ Append(p, EndMark) \in Seq(Plain)
             /\ Framing(ps) = FrameHeader(Len(p) + 1) \o (Append(p, EndMark) \o Framing(qs))
             /\ FlattenSeq(ps) = p \o FlattenSeq(qs)
<1>. DEFINE m == "LZ4"
            p == ps[1]
            qs == From(ps, 1)
            h == FrameHeader(Len(p) + 1)
            b == Append(p, EndMark)
<1>1. m \in AllMethods /\ m \in Framed /\ OutOf(m) = Plain /\ Parts(m) = Seq(Plain)
  BY DEF AllMethods, OutOf, Parts, Framed
<1>2. p \in Seq(Plain) /\ qs \in Seq(Seq(Plain)) /\ ps = <<p>> \o qs /\ <<p>> \in Seq(Seq(Plain))
  BY FrontIs DEF Packets
<1>. HIDE DEF m, p, qs
<1>3. h \in Seq(Plain) /\ b \in Seq(Plain)
  <2>1. Len(p) + 1 \in Nat /\ EndMark \in Plain
    BY <1>2, PlainUnits
  <2>2. b \in Seq(Plain)
    BY <1>2, <2>1, AppendProperties
  <2>. QED BY <2>1, <2>2, PlainUnits
<1>4. Coded(m, ps) = (h \o b) \o Coded(m, qs)
  <2>1. Coded(m, <<p>> \o qs) = Coded(m, <<p>>) \o Coded(m, qs)
    BY <1>1, <1>2, CodedConcat
  <2>2. Coded(m, <<p>>) = EncodedBy(m, p)
    BY <1>1, <1>2, CodedOne
  <2>3. EncodedBy(m, p) = h \o b
    BY <1>1, EncodedIs
  <2>. QED BY <1>2, <2>1, <2>2, <2>3
<1>5. Coded(m, ps) = h \o (b \o Coded(m, qs))
  <2>. DEFINE c == Coded(m, qs)
  <2>1. c \in Seq(Plain)
    BY <1>1, <1>2, CodedIn
  <2>. HIDE DEF c, h, b
  <2>2. (h \o b) \o c = h \o (b \o c)
    <3>1. Associates(h, b, c)
      BY <1>3, <2>1, Associate
    <3>. QED BY <3>1 DEF Associates
  <2>. QED BY <1>4, <2>2 DEF c
<1>6. FlattenSeq(ps) = p \o FlattenSeq(qs)
  <2>1. FlattenSeq(<<p>> \o qs) = FlattenSeq(<<p>>) \o FlattenSeq(qs)
    BY <1>2, FlattenConcat
  <2>2. FlattenSeq(<<p>>) = p
    BY <1>2, FlattenOne
  <2>. QED BY <1>2, <2>1, <2>2
<1>. HIDE DEF h, b
<1>. QED BY <1>2, <1>3, <1>5, <1>6 DEF Packets, Framing, m, p, qs, h, b

\* No packets, no frames.
LEMMA NoFrames == Framing(<<>>) = <<>> /\ FlattenSeq(<<>>) = <<>>
  BY CodedEmpty, FlattenEmpty DEF Framing

\* Only the last packet may be empty: the decoder of frames ends at an empty one.
Solid(ps) == \A g \in 1..(Len(ps) - 1) : ps[g] # <<>>

\* So behind an empty first packet there is none.
LEMMA SolidFront ==
  ASSUME NEW ps \in Packets, ps # <<>>, Solid(ps)
  PROVE  Solid(From(ps, 1)) /\ (ps[1] = <<>> => From(ps, 1) = <<>>)
<1>. DEFINE qs == From(ps, 1)
<1>1. ps \in Seq(Seq(Plain))
  BY DEF Packets
<1>2. qs \in Seq(Seq(Plain)) /\ Len(qs) = Len(ps) - 1 /\ \A i \in 1..(Len(ps) - 1) : qs[i] = ps[i + 1]
  BY <1>1, FrontIs
<1>3. Len(ps) \in Nat /\ Len(ps) > 0
  BY <1>1
<1>. HIDE DEF qs
<1>4. Solid(qs)
  <2>1. ASSUME NEW g \in 1..(Len(qs) - 1) PROVE qs[g] # <<>>
    <3>1. g \in 1..(Len(ps) - 1) /\ g + 1 \in 1..(Len(ps) - 1)
      BY <1>2, <1>3
    <3>. QED BY <1>2, <3>1 DEF Solid
  <2>. QED BY <2>1 DEF Solid
<1>5. ASSUME ps[1] = <<>> PROVE qs = <<>>
  <2>1. ~(1 \in 1..(Len(ps) - 1))
    BY <1>5 DEF Solid
  <2>2. Len(qs) = 0
    BY <1>2, <1>3, <2>1
  <2>. QED BY <1>2, <2>2
<1>. QED BY <1>4, <1>5 DEF qs

\* What is behind a decrypted stream, from the last block.
Zeros == Seq({ZeroByte})

\* What decoder d has still to give is R, when the reader below gives B.
SwapLevel(d, R, B) ==
  /\ Len(d.held) = 1 /\ d.pending_len <= 1
  /\ \E x \in Seq(Plain) : B = Swapped(x) /\ R = Emit(d, d.pending_len) \o x
AesLevel(d, R, B) ==
  /\ d.held = <<>>
  /\ \E gs \in Seq(Blocks(AesBlock, Plain)) :
       /\ B = Coded("AES", gs) /\ R = d.ready \o FlattenSeq(gs)
       /\ d.ended => gs = <<>>
BetweenFrames(d, R, B) ==
  \E ps \in Packets : \E z \in Zeros :
    /\ Solid(ps) /\ ~d.ended /\ d.remaining = 0
    /\ B = Framing(ps) \o z /\ R = d.ready \o FlattenSeq(ps)
InFrame(d, R, B) ==
  \E p \in Seq(Plain) : \E ps \in Packets : \E z \in Zeros :
    /\ Solid(ps) /\ ~d.ended /\ d.ready = <<>> /\ d.remaining = Len(p) + 1
    /\ p = <<>> => ps = <<>>
    /\ B = Append(p, EndMark) \o (Framing(ps) \o z) /\ R = p \o FlattenSeq(ps)
FramedLevel(d, R, B) ==
  \/ d.ended /\ R = <<>>
  \/ BetweenFrames(d, R, B)
  \/ InFrame(d, R, B)
Level(d, R, B) ==
  /\ d.method \in {"COPY", "SWAP2", "AES"} \cup Framed
  /\ d.method = "COPY" => R = B
  /\ d.method = "SWAP2" => SwapLevel(d, R, B)
  /\ d.method = "AES" => AesLevel(d, R, B)
  /\ d.method \in Framed => FramedLevel(d, R, B)

\* Reader i of stack s has still to give R.
Gives(s, i, R) ==
  \E S \in [1..i -> Seq(Units)] :
    /\ S[i] = R /\ S[1] = s[1].ready
    /\ \A j \in 2..i : Level(s[j], S[j], S[j - 1])

\* The source gives what it has.
LEMMA GivesSource ==
  ASSUME NEW s \in Sounds, Len(s) > 0
  PROVE  Gives(s, 1, s[1].ready)
<1>. DEFINE r == s[1].ready
            S == [j \in 1..1 |-> r]
<1>1. r \in Seq(Units)
  <2>1. 1 \in 1..Len(s)
    <3>1. Len(s) \in Nat
      BY DEF Sounds, Stacks
    <3>. QED BY <3>1
  <2>. QED BY <2>1, SoundIs
<1>. HIDE DEF r
<1>2. S \in [1..1 -> Seq(Units)] /\ S[1] = r /\ \A j \in 2..1 : Level(s[j], S[j], S[j - 1])
  BY <1>1
<1>. HIDE DEF S
<1>. QED BY <1>2 DEF Gives, r

\* It gives nothing else.
LEMMA SourceGives ==
  ASSUME NEW s, NEW R, Gives(s, 1, R)
  PROVE  R = s[1].ready
  BY DEF Gives

\* A reader gives what its decoder makes of the stream below.
LEMMA GivesDown ==
  ASSUME NEW s, NEW i \in Nat, i >= 2, NEW R, Gives(s, i, R)
  PROVE  R \in Seq(Units) /\ \E B \in Seq(Units) : Gives(s, i - 1, B) /\ Level(s[i], R, B)
<1>1. PICK S \in [1..i -> Seq(Units)] : /\ S[i] = R /\ S[1] = s[1].ready
                                        /\ \A j \in 2..i : Level(s[j], S[j], S[j - 1])
  BY DEF Gives
<1>. DEFINE Q == [j \in 1..(i - 1) |-> S[j]]
            B == S[i - 1]
<1>2. i - 1 \in 1..i /\ i \in 1..i /\ i \in 2..i /\ 1 \in 1..(i - 1) /\ i - 1 \in 1..(i - 1)
  OBVIOUS
<1>3. B \in Seq(Units) /\ R \in Seq(Units) /\ Level(s[i], R, B)
  BY <1>1, <1>2
<1>4. Gives(s, i - 1, B)
  <2>1. Q \in [1..(i - 1) -> Seq(Units)]
    BY <1>1
  <2>2. Q[i - 1] = B /\ Q[1] = s[1].ready
    BY <1>1, <1>2
  <2>3. ASSUME NEW j \in 2..(i - 1) PROVE Level(s[j], Q[j], Q[j - 1])
    <3>1. j \in 2..i /\ j \in 1..(i - 1) /\ j - 1 \in 1..(i - 1)
      OBVIOUS
    <3>2. Q[j] = S[j] /\ Q[j - 1] = S[j - 1]
      BY <3>1
    <3>. HIDE DEF Q
    <3>. QED BY <1>1, <3>1, <3>2
  <2>. HIDE DEF Q, B
  <2>. QED BY <2>1, <2>2, <2>3 DEF Gives
<1>. QED BY <1>3, <1>4

\* The converse.
LEMMA GivesUp ==
  ASSUME NEW s, NEW i \in Nat, i >= 2, NEW R \in Seq(Units), NEW B, Gives(s, i - 1, B), Level(s[i], R, B)
  PROVE  Gives(s, i, R)
<1>1. PICK S \in [1..(i - 1) -> Seq(Units)] : /\ S[i - 1] = B /\ S[1] = s[1].ready
                                              /\ \A j \in 2..(i - 1) : Level(s[j], S[j], S[j - 1])
  BY DEF Gives
<1>. DEFINE Q == [j \in 1..i |-> IF j = i THEN R ELSE S[j]]
<1>2. Q \in [1..i -> Seq(Units)]
  <2>1. \A j \in 1..i : j # i => j \in 1..(i - 1)
    OBVIOUS
  <2>. QED BY <1>1, <2>1
<1>3. Q[i] = R /\ \A j \in 1..(i - 1) : Q[j] = S[j]
  OBVIOUS
<1>4. ASSUME NEW j \in 2..i PROVE Level(s[j], Q[j], Q[j - 1])
  <2>1. CASE j = i
    <3>1. i - 1 \in 1..(i - 1)
      OBVIOUS
    <3>. HIDE DEF Q
    <3>. QED BY <1>1, <1>3, <2>1, <3>1
  <2>2. CASE j # i
    <3>1. j \in 2..(i - 1) /\ j \in 1..(i - 1) /\ j - 1 \in 1..(i - 1)
      BY <2>2
    <3>. HIDE DEF Q
    <3>. QED BY <1>1, <1>3, <3>1
  <2>. HIDE DEF Q
  <2>. QED BY <2>1, <2>2
<1>5. 1 \in 1..(i - 1)
  OBVIOUS
<1>. HIDE DEF Q
<1>. QED BY <1>1, <1>2, <1>3, <1>4, <1>5 DEF Gives

\* What a reader gives is up to it and the readers below.
LEMMA GivesSame ==
  ASSUME NEW s, NEW t, NEW i \in Nat \ {0}, NEW R, Gives(s, i, R), \A j \in 1..i : t[j] = s[j]
  PROVE  Gives(t, i, R)
<1>1. PICK S \in [1..i -> Seq(Units)] : /\ S[i] = R /\ S[1] = s[1].ready
                                        /\ \A j \in 2..i : Level(s[j], S[j], S[j - 1])
  BY DEF Gives
<1>2. t[1] = s[1] /\ \A j \in 2..i : t[j] = s[j]
  OBVIOUS
<1>3. S[1] = t[1].ready /\ \A j \in 2..i : Level(t[j], S[j], S[j - 1])
  BY <1>1, <1>2
<1>. QED BY <1>1, <1>3 DEF Gives

\* Another decoder on the readers below.
LEMMA GivesWith ==
  ASSUME NEW s \in Sounds, NEW i \in 2..Len(s), NEW d \in Decoders, NEW B, Gives(s, i - 1, B),
         NEW R \in Seq(Units), Level(d, R, B)
  PROVE  Gives(With(s, i, d), i, R)
<1>. DEFINE t == With(s, i, d)
<1>0. Len(s) \in Nat
  BY DEF Sounds, Stacks
<1>1. i \in 1..Len(s) /\ i \in Nat /\ i >= 2 /\ i - 1 \in Nat \ {0}
  BY <1>0
<1>2. t[i] = d /\ \A j \in 1..Len(s) : j # i => t[j] = s[j]
  BY <1>1, WithIs
<1>. HIDE DEF t
<1>3. \A j \in 1..(i - 1) : t[j] = s[j]
  BY <1>0, <1>1, <1>2
<1>4. Gives(t, i - 1, B)
  BY <1>1, <1>3, GivesSame
<1>5. Gives(t, i, R)
  BY <1>1, <1>2, <1>4, GivesUp
<1>. QED BY <1>5 DEF t

\* A read r of reader i, which had R to give, leaves it rest.
Left(r, i, R, rest) == rest \in Seq(Units) /\ R = r.got \o rest /\ r.ok /\ Gives(r.stack, i, rest)

\* A read that gives something, unless there is nothing.
GetsSome(r, i, R) == \E rest : Left(r, i, R, rest) /\ (r.got = <<>> => R = <<>>)

\* A read that gives the k units it was asked for, unless there are fewer.
GetsAll(r, i, k, R) == \E rest : Left(r, i, R, rest) /\ (Len(r.got) = k \/ rest = <<>>)

\* Every read of reader i gives something of what it has to give.
WellReader(read, i) ==
  \A s \in Sounds : \A k \in Nat \ {0} : \A R :
    i \in 1..Len(s) /\ Gives(s, i, R) => GetsSome(read[s][k], i, R)

\* One such read.
LEMMA WellRead ==
  ASSUME NEW read, NEW i, NEW s \in Sounds, NEW k \in Nat \ {0}, NEW R, WellReader(read, i),
         i \in 1..Len(s), Gives(s, i, R)
  PROVE  GetsSome(read[s][k], i, R)
  BY DEF WellReader

\* All is some.
LEMMA AllIsSome ==
  ASSUME NEW r, NEW i, NEW k \in Nat \ {0}, NEW R, r.got \in Seq(Units), GetsAll(r, i, k, R)
  PROVE  GetsSome(r, i, R)
<1>1. PICK rest : Left(r, i, R, rest) /\ (Len(r.got) = k \/ rest = <<>>)
  BY DEF GetsAll
<1>2. r.got = <<>> => R = <<>>
  <2>. SUFFICES ASSUME r.got = <<>> PROVE R = <<>>
    OBVIOUS
  <2>1. rest = <<>>
    BY <1>1
  <2>2. R = <<>> \o <<>> /\ <<>> \in Seq(Units)
    BY <1>1, <2>1 DEF Left
  <2>. QED BY <2>2, ConcatEmptySeq
<1>. QED BY <1>1, <1>2 DEF GetsSome

\* What a reader gives is a stream.
LEMMA GivesIn ==
  ASSUME NEW s, NEW i \in Nat \ {0}, NEW R, Gives(s, i, R)
  PROVE  R \in Seq(Units)
<1>1. i \in 1..i
  OBVIOUS
<1>. QED BY <1>1 DEF Gives

\* The source gives all it is asked for, while it has it.
LEMMA TakeSource ==
  ASSUME NEW s \in Sounds, Len(s) > 0, NEW k \in Nat \ {0}, NEW R, Gives(s, 1, R)
  PROVE  GetsAll(Take(s, 1, k), 1, k, R)
<1>. DEFINE r == Take(s, 1, k)
            y == s[1].ready
            n == AtMost(k, Len(y))
            rest == From(y, n)
            d == SetReady(s[1], rest)
<1>1. 1 \in 1..Len(s)
  <2>1. Len(s) \in Nat
    BY DEF Sounds, Stacks
  <2>. QED BY <2>1
<1>2. /\ r.got = First(y, n) /\ r.ok = TRUE
      /\ r.stack = With(s, 1, d)
      /\ n \in 0..Len(y) /\ y \in Seq(Units)
  BY <1>1, TakeIs
<1>3. R = y
  BY SourceGives
<1>4. n = k \/ n = Len(y)
  <2>1. Len(y) \in Nat
    BY <1>2, LenProperties
  <2>. HIDE DEF y
  <2>. QED BY <2>1, AtMostIs
<1>5. s[1] \in Decoders
  BY <1>1, SoundIs
<1>. HIDE DEF y, n
<1>6. /\ First(y, n) \in Seq(Units) /\ Len(First(y, n)) = n
      /\ rest \in Seq(Units) /\ Len(rest) = Len(y) - n
      /\ First(y, n) \o rest = y
  BY <1>2, CutIs
<1>. HIDE DEF rest
<1>7. d \in Decoders /\ d.ready = rest
  <2>. DEFINE c == s[1]
  <2>1. c \in Decoders
    BY <1>5
  <2>. HIDE DEF c
  <2>2. SetReady(c, rest) \in Decoders /\ SetReady(c, rest).ready = rest
    BY <1>6, <2>1, FieldsAre
  <2>. QED BY <2>2 DEF c
<1>. HIDE DEF d
<1>8. r.stack[1] = d
  BY <1>1, <1>2, <1>7, WithIs
<1>9. r.stack \in Sounds /\ Len(r.stack) > 0
  <2>1. Sane(r, s, 1, k)
    BY <1>1, TakeSane
  <2>2. Kept(s, r.stack, 1)
    BY <2>1 DEF Sane
  <2>3. r.stack \in Sounds /\ Len(r.stack) = Len(s)
    <3>. HIDE DEF r
    <3>. QED BY <2>2, KeptIs
  <2>. QED BY <2>3
<1>. HIDE DEF r
<1>10. Gives(r.stack, 1, rest)
  <2>1. Gives(r.stack, 1, r.stack[1].ready)
    <3>. DEFINE t == r.stack
    <3>1. t \in Sounds /\ Len(t) > 0
      BY <1>9
    <3>. HIDE DEF t
    <3>2. Gives(t, 1, t[1].ready)
      BY <3>1, GivesSource
    <3>. QED BY <3>2 DEF t
  <2>. QED BY <1>7, <1>8, <2>1
<1>11. rest = <<>> \/ n = k
  <2>1. n = Len(y) => Len(rest) = 0
    BY <1>2, <1>6
  <2>. QED BY <1>4, <1>6, <2>1
<1>12. Left(r, 1, R, rest)
  BY <1>2, <1>3, <1>6, <1>10 DEF Left
<1>13. Len(r.got) = k \/ rest = <<>>
  BY <1>2, <1>6, <1>11
<1>14. GetsAll(r, 1, k, R)
  BY <1>12, <1>13 DEF GetsAll
<1>. QED BY <1>14 DEF r

\* A loop after j rounds: what it has got is the front of what there was; it gains a
\* unit in a round, or it has all it asked for or all there was.
Looped(acc, i, j, k, R) ==
  \E rest : /\ Left(acc, i, R, rest)
            /\ acc.over => rest = <<>>
            /\ acc.over \/ Len(acc.got) = k \/ Len(acc.got) >= j

\* A round of Fill.
LEMMA FillRoundWell ==
  ASSUME NEW read, NEW i \in Nat, NEW acc, NEW j \in Nat, NEW k \in Nat, NEW R, WellReader(read, i), SaneReader(read, i),
         acc.stack \in Sounds, i \in 1..Len(acc.stack), acc.got \in Seq(Units), Len(acc.got) <= k,
         Looped(acc, i, j, k, R)
  PROVE  Looped(FillRound(read, acc, k), i, j + 1, k, R)
<1>1. PICK rest : /\ Left(acc, i, R, rest) /\ (acc.over => rest = <<>>)
                  /\ (acc.over \/ Len(acc.got) = k \/ Len(acc.got) >= j)
  BY DEF Looped
<1>2. CASE acc.over \/ Len(acc.got) = k
  <2>1. FillRound(read, acc, k) = acc
    BY <1>2, FillRoundIs
  <2>2. Looped(acc, i, j + 1, k, R)
    BY <1>1, <1>2 DEF Looped
  <2>. QED BY <2>1, <2>2
<1>3. CASE ~(acc.over \/ Len(acc.got) = k)
  <2>. DEFINE l == k - Len(acc.got)
              t == acc.stack
              r == read[t][l]
              g == acc.got
              over == ~r.ok \/ r.got = <<>>
              new == Round(r.stack, g \o r.got, r.ok, over)
  <2>1. l \in Nat \ {0} /\ Len(g) \in Nat /\ Len(g) >= j
    <3>1. Len(g) \in Nat
      BY LenProperties
    <3>. HIDE DEF g
    <3>2. Len(g) <= k /\ Len(g) # k /\ Len(g) >= j
      BY <1>1, <1>3 DEF g
    <3>. QED BY <3>1, <3>2 DEF g
  <2>2. FillRound(read, acc, k) = new
    BY <1>3, FillRoundIs
  <2>3. Gives(t, i, rest) /\ rest \in Seq(Units) /\ R = g \o rest
    BY <1>1 DEF Left
  <2>. HIDE DEF l, g, t
  <2>4. GetsSome(r, i, rest)
    <3>1. t \in Sounds /\ i \in 1..Len(t)
      BY DEF t
    <3>. QED BY <2>1, <2>3, <3>1, WellRead
  <2>5. r.got \in Seq(Units)
    <3>1. t \in Sounds /\ i \in 1..Len(t)
      BY DEF t
    <3>. QED BY <2>1, <3>1, SaneRead
  <2>. HIDE DEF r
  <2>6. PICK more : Left(r, i, rest, more) /\ (r.got = <<>> => rest = <<>>)
    BY <2>4 DEF GetsSome
  <2>7. more \in Seq(Units) /\ rest = r.got \o more /\ r.ok /\ Gives(r.stack, i, more)
    BY <2>6 DEF Left
  <2>. DEFINE b == r.got
  <2>8. g \in Seq(Units) /\ b \in Seq(Units) /\ more \in Seq(Units)
    BY <2>5, <2>7 DEF g
  <2>9. R = (g \o b) \o more
    <3>1. rest = b \o more
      BY <2>7
    <3>. HIDE DEF b
    <3>2. (g \o b) \o more = g \o (b \o more)
      <4>1. Associates(g, b, more)
        BY <2>8, Associate
      <4>. QED BY <4>1 DEF Associates
    <3>. QED BY <2>3, <3>1, <3>2
  <2>10. b = <<>> => more = <<>>
    <3>. SUFFICES ASSUME b = <<>> PROVE more = <<>>
      OBVIOUS
    <3>1. rest = <<>> /\ rest = b \o more
      BY <2>6, <2>7
    <3>. HIDE DEF b
    <3>. QED BY <2>8, <3>1, ConcatIs
  <2>11. b # <<>> => Len(g \o b) >= j + 1
    <3>. HIDE DEF b
    <3>1. Len(g \o b) = Len(g) + Len(b) /\ Len(b) \in Nat /\ (Len(b) = 0 <=> b = <<>>)
      BY <2>8, ConcatIs
    <3>. QED BY <2>1, <3>1
  <2>12. over <=> b = <<>>
    BY <2>7
  <2>. HIDE DEF b, over
  <2>13. new.stack = r.stack /\ new.got = g \o b /\ new.ok = r.ok /\ new.over = over
    BY DEF Round, b
  <2>. HIDE DEF new
  <2>14. Left(new, i, R, more)
    BY <2>7, <2>9, <2>13 DEF Left
  <2>15. (new.over => more = <<>>) /\ (new.over \/ Len(new.got) >= j + 1)
    BY <2>10, <2>11, <2>12, <2>13
  <2>16. Looped(new, i, j + 1, k, R)
    BY <2>14, <2>15 DEF Looped
  <2>. QED BY <2>2, <2>16
<1>. QED BY <1>2, <1>3

\* Fill gets all it asks for.
LEMMA FillWell ==
  ASSUME NEW read, NEW i \in Nat, NEW s \in Sounds, NEW k \in Nat, NEW R, WellReader(read, i), SaneReader(read, i),
         i \in 1..Len(s), Gives(s, i, R)
  PROVE  GetsAll(Fill(read, s, k), i, k, R)
<1>. DEFINE f == FillUpTo(read, s, k)
            In == {j \in Nat : j \in 0..k => Looped(f[j], i, j, k, R)}
<1>1. f = [j \in 0..k |-> IF j = 0 THEN Before(s, <<>>) ELSE FillRound(read, f[j - 1], k)]
  BY FillUpToDef
<1>2. \A j \in 0..k : Sane(f[j], s, i, k)
  BY FillRoundsSane
<1>3. Fill(read, s, k) = Returned(f[k])
  BY FillIs
<1>. HIDE DEF f
<1>4. f[0] = Before(s, <<>>) /\ \A j \in 1..k : f[j] = FillRound(read, f[j - 1], k)
  <2>1. 0 \in 0..k /\ \A j \in 1..k : j \in 0..k /\ j # 0
    OBVIOUS
  <2>. QED BY <1>1, <2>1
<1>5. 0 \in In
  <2>. DEFINE acc == Before(s, <<>>)
  <2>1. acc.stack = s /\ acc.got = <<>> /\ acc.ok = TRUE /\ acc.over = FALSE
    BY DEF Before, Round
  <2>2. R \in Seq(Units) /\ R = <<>> \o R
    <3>1. R \in Seq(Units)
      BY GivesIn
    <3>. QED BY <3>1, ConcatEmptySeq
  <2>. HIDE DEF acc
  <2>3. Left(acc, i, R, R)
    BY <2>1, <2>2 DEF Left
  <2>4. Len(acc.got) >= 0 /\ ~acc.over
    BY <2>1
  <2>5. Looped(acc, i, 0, k, R)
    BY <2>3, <2>4 DEF Looped
  <2>. QED BY <1>4, <2>5 DEF acc
<1>6. ASSUME NEW j \in Nat, j \in In PROVE j + 1 \in In
  <2>. SUFFICES ASSUME j + 1 \in 0..k PROVE Looped(f[j + 1], i, j + 1, k, R)
    OBVIOUS
  <2>1. j \in 0..k /\ j + 1 \in 1..k /\ (j + 1) - 1 = j
    OBVIOUS
  <2>. DEFINE acc == f[j]
  <2>2. Looped(acc, i, j, k, R) /\ Sane(acc, s, i, k)
    BY <1>2, <1>6, <2>1
  <2>3. f[j + 1] = FillRound(read, acc, k)
    BY <1>4, <2>1
  <2>. HIDE DEF acc
  <2>4. acc.stack \in Sounds /\ i \in 1..Len(acc.stack) /\ acc.got \in Seq(Units) /\ Len(acc.got) <= k
    BY <2>2 DEF Sane, Kept
  <2>5. Looped(FillRound(read, acc, k), i, j + 1, k, R)
    BY <2>2, <2>4, FillRoundWell
  <2>. QED BY <2>3, <2>5
<1>7. Nat \subseteq In
  <2>. HIDE DEF In
  <2>. QED BY <1>5, <1>6, SetInduction
<1>8. Looped(f[k], i, k, k, R) /\ Sane(f[k], s, i, k)
  <2>1. k \in In /\ k \in 0..k
    BY <1>7
  <2>. QED BY <1>2, <2>1
<1>. DEFINE acc == f[k]
            r == Returned(acc)
<1>9. r.stack = acc.stack /\ r.got = acc.got /\ r.ok = acc.ok
  BY ReturnedIs
<1>. HIDE DEF r, acc
<1>10. PICK rest : /\ Left(acc, i, R, rest) /\ (acc.over => rest = <<>>)
                   /\ (acc.over \/ Len(acc.got) = k \/ Len(acc.got) >= k)
  BY <1>8 DEF Looped, acc
<1>11. Len(acc.got) \in Nat /\ Len(acc.got) <= k
  <2>1. acc.got \in Seq(Units) /\ Len(acc.got) <= k
    BY <1>8 DEF Sane, acc
  <2>. QED BY <2>1, LenProperties
<1>12. Left(r, i, R, rest) /\ (Len(r.got) = k \/ rest = <<>>)
  <2>1. Left(r, i, R, rest)
    BY <1>9, <1>10 DEF Left
  <2>. QED BY <1>9, <1>10, <1>11, <2>1
<1>13. GetsAll(r, i, k, R)
  BY <1>12 DEF GetsAll
<1>. QED BY <1>3, <1>13 DEF r, acc

-----------------------------------------------------------------------------
(* Swap2 *)

\* Streams of units joined and cut.
Joined(a, b) ==
  /\ a \o b \in Seq(Units) /\ Len(a) \in Nat /\ Len(b) \in Nat /\ Len(a \o b) = Len(a) + Len(b)
  /\ a \o b = <<>> <=> a = <<>> /\ b = <<>>
  /\ a \o <<>> = a /\ <<>> \o b = b
  /\ Len(a) = 0 <=> a = <<>>
Joined4(a, b, c, d) == (a \o b) \o (c \o d) = a \o ((b \o c) \o d)
CutAt(s, n) ==
  /\ First(s, n) \in Seq(Units) /\ Len(First(s, n)) = n
  /\ From(s, n) \in Seq(Units) /\ Len(From(s, n)) = Len(s) - n
  /\ First(s, n) \o From(s, n) = s
CutTwice(a, b, c, d) ==
  a \o b = c \o d =>
    /\ Len(a) = Len(c) => a = c /\ b = d
    /\ Len(a) <= Len(c) => \E e \in Seq(Units) : c = a \o e /\ b = e \o d

\* Two streams are joined, in any grouping when there are more.
LEMMA UnitsJoined ==
  ASSUME NEW a \in Seq(Units), NEW b \in Seq(Units)
  PROVE  Joined(a, b)
  BY ConcatIs DEF Joined

\* Four pieces.
LEMMA UnitsJoined4 ==
  ASSUME NEW a \in Seq(Units), NEW b \in Seq(Units), NEW c \in Seq(Units), NEW d \in Seq(Units)
  PROVE  Joined4(a, b, c, d)
<1>1. b \o c \in Seq(Units) /\ c \o d \in Seq(Units)
  BY ConcatProperties
<1>2. (b \o c) \o d = b \o (c \o d)
  <2>1. Associates(b, c, d)
    BY Associate
  <2>. QED BY <2>1 DEF Associates
<1>. DEFINE e == c \o d
<1>3. (a \o b) \o e = a \o (b \o e)
  <2>1. e \in Seq(Units)
    BY <1>1
  <2>. HIDE DEF e
  <2>2. Associates(a, b, e)
    BY <2>1, Associate
  <2>. QED BY <2>2 DEF Associates
<1>. QED BY <1>2, <1>3 DEF Joined4

\* A cut.
LEMMA UnitsCut ==
  ASSUME NEW s \in Seq(Units), NEW n \in 0..Len(s)
  PROVE  CutAt(s, n)
  BY CutIs DEF CutAt

\* Two cuts of one stream.
LEMMA UnitsCutTwice ==
  ASSUME NEW a \in Seq(Units), NEW b \in Seq(Units), NEW c \in Seq(Units), NEW d \in Seq(Units)
  PROVE  CutTwice(a, b, c, d)
<1>. SUFFICES ASSUME a \o b = c \o d
              PROVE  /\ Len(a) = Len(c) => a = c /\ b = d
                     /\ Len(a) <= Len(c) => \E e \in Seq(Units) : c = a \o e /\ b = e \o d
  BY DEF CutTwice
<1>1. Len(a) = Len(c) => a = c /\ b = d
  BY SameCut
<1>2. ASSUME Len(a) <= Len(c) PROVE \E e \in Seq(Units) : c = a \o e /\ b = e \o d
  <2>. DEFINE n == Len(a)
              f == First(c, n)
              e == From(c, n)
  <2>1. n \in 0..Len(c)
    BY <1>2
  <2>2. f \in Seq(Units) /\ Len(f) = n /\ e \in Seq(Units) /\ f \o e = c
    BY <2>1, CutIs
  <2>. HIDE DEF f, e
  <2>3. (f \o e) \o d = f \o (e \o d) /\ e \o d \in Seq(Units)
    <3>1. f \in Seq(Units) /\ e \in Seq(Units)
      BY <2>2
    <3>2. (f \o e) \o d = f \o (e \o d)
      <4>1. Associates(f, e, d)
        BY <3>1, Associate
      <4>. QED BY <4>1 DEF Associates
    <3>3. e \o d \in Seq(Units)
      BY <3>1, ConcatProperties
    <3>. QED BY <3>2, <3>3
  <2>. DEFINE g == e \o d
  <2>4. g \in Seq(Units) /\ a \o b = f \o g /\ Len(a) = Len(f)
    BY <2>2, <2>3
  <2>. HIDE DEF g, n
  <2>5. a = f /\ b = g
    BY <2>2, <2>4, SameCut
  <2>. QED BY <2>2, <2>5 DEF g
<1>. QED BY <1>1, <1>2

\* Less than a pair is its own reverse.
LEMMA ReverseFew ==
  ASSUME NEW S, NEW s \in Seq(S), Len(s) < 2
  PROVE  Reverse(s) = s
<1>1. Reverse(s) \in Seq(S) /\ Len(Reverse(s)) = Len(s) /\ \A i \in 1..Len(s) : Reverse(s)[i] = s[Len(s) - i + 1]
  BY Reversed
<1>2. \A i \in 1..Len(s) : Len(s) - i + 1 = i
  <2>1. Len(s) \in Nat
    OBVIOUS
  <2>. QED BY <2>1
<1>3. \A i \in 1..Len(Reverse(s)) : Reverse(s)[i] = s[i]
  BY <1>1, <1>2
<1>. DEFINE r == Reverse(s)
<1>. HIDE DEF r
<1>4. r = s
  BY <1>1, <1>3, SeqEqual DEF r
<1>. QED BY <1>4 DEF r

Paired(x, g, more) ==
  \E y \in Seq(Plain) : /\ x = Reverse(g) \o y /\ more = Swapped(y)
                        /\ Len(g) < 2 => y = <<>>

\* A pair read from a swapped stream is the reverse of a pair of it.
LEMMA UnitWell ==
  ASSUME NEW x \in Seq(Plain), NEW g \in Seq(Units), NEW more \in Seq(Units), Swapped(x) = g \o more,
         Len(g) <= 2, Len(g) = 2 \/ more = <<>>
  PROVE  Paired(x, g, more)
<1>. SUFFICES \E y \in Seq(Plain) : /\ x = Reverse(g) \o y /\ more = Swapped(y)
                                    /\ Len(g) < 2 => y = <<>>
  BY DEF Paired
<1>. DEFINE n == Len(g)
<1>0. Len(x) \in Nat /\ n \in Nat /\ Joined(g, more) /\ n <= 2 /\ (n = 2 \/ more = <<>>)
  BY UnitsJoined
<1>. HIDE DEF n
<1>1. CASE Len(x) < 2
  <2>1. x = g \o more
    BY <1>1, SwappedFew
  <2>2. n < 2 /\ Len(g) < 2
    BY <1>0, <1>1, <2>1 DEF Joined, n
  <2>3. more = <<>> /\ x = g
    <3>1. more = <<>>
      BY <1>0, <2>2
    <3>2. g \o <<>> = g
      BY <1>0 DEF Joined
    <3>. QED BY <2>1, <3>1, <3>2
  <2>4. Reverse(g) = g
    BY <2>2, ReverseFew
  <2>5. <<>> \in Seq(Plain) /\ Swapped(<<>>) = <<>>
    <3>. DEFINE e == <<>>
    <3>1. e \in Seq(Plain) /\ Len(e) < 2
      OBVIOUS
    <3>. HIDE DEF e
    <3>2. Swapped(e) = e
      BY <3>1, SwappedFew
    <3>. QED BY <3>1, <3>2 DEF e
  <2>6. x = Reverse(g) \o <<>>
    BY <1>0, <2>3, <2>4 DEF Joined
  <2>. QED BY <2>3, <2>5, <2>6
<1>2. CASE ~(Len(x) < 2)
  <2>. DEFINE p == First(x, 2)
              y == From(x, 2)
              q == Reverse(p)
              s == Swapped(y)
  <2>1. 2 \in 0..Len(x)
    BY <1>0, <1>2
  <2>2. p \in Seq(Plain) /\ Len(p) = 2 /\ y \in Seq(Plain) /\ p \o y = x
    BY <2>1, CutIs
  <2>. HIDE DEF p, y
  <2>3. p \in Blocks(2, Plain)
    <3>1. p \in [1..Len(p) -> Plain]
      BY <2>2, LenProperties
    <3>. QED BY <2>2, <3>1 DEF Blocks
  <2>4. Swapped(x) = q \o s
    BY <2>2, <2>3, SwappedPair
  <2>5. q \in Seq(Plain) /\ Len(q) = 2 /\ Reverse(q) = p
    BY <2>2, Reversed
  <2>6. s \in Seq(Plain)
    BY <2>2, SwappedIn
  <2>. HIDE DEF q, s
  <2>7. q \in Seq(Units) /\ s \in Seq(Units)
    BY <2>5, <2>6, UnitsAre
  <2>8. q \o s = g \o more
    BY <2>4
  <2>9. n = 2
    <3>. SUFFICES ASSUME more = <<>> PROVE n >= 2
      BY <1>0
    <3>1. q \o s = g /\ Joined(q, s)
      BY <1>0, <2>7, <2>8, UnitsJoined DEF Joined
    <3>. QED BY <1>0, <2>5, <2>7, <3>1, LenProperties DEF Joined, n
  <2>10. q = g /\ s = more
    <3>1. CutTwice(q, s, g, more)
      BY <2>7, UnitsCutTwice
    <3>. QED BY <2>5, <2>8, <2>9, <3>1 DEF CutTwice, n
  <2>11. x = Reverse(g) \o y /\ more = Swapped(y)
    BY <2>2, <2>5, <2>10 DEF s
  <2>12. Len(g) < 2 => y = <<>>
    BY <2>9 DEF n
  <2>. QED BY <2>2, <2>11, <2>12
<1>. QED BY <1>1, <1>2

\* What is kept of a pair is given out again.
LEMMA KeptOne ==
  ASSUME NEW d \in Decoders, Len(d.held) = 1, NEW u \in Seq(Units), Len(u) <= 1
  PROVE  /\ Len(Keep(d, u).held) = 1 /\ Keep(d, u).pending_len = Len(u)
         /\ Emit(Keep(d, u), Len(u)) = u
<1>. DEFINE h == d.held
            n == Len(u)
            f == From(h, n)
            c == Keep(d, u)
            e == Emit(c, n)
<1>1. h \in Seq(Units) /\ Len(h) = 1
  BY DEF Decoders
<1>2. n \in 0..1
  <2>1. n \in Nat /\ n <= 1
    BY LenProperties
  <2>. HIDE DEF n
  <2>. QED BY <2>1
<1>3. c.pending_len = n /\ c.held = u \o f
  BY KeepIs
<1>. HIDE DEF h, c
<1>4. f \in Seq(Units) /\ Len(f) = 1 - n
  <2>1. n \in 0..Len(h)
    BY <1>1, <1>2
  <2>. HIDE DEF n
  <2>2. CutAt(h, n)
    BY <1>1, <2>1, UnitsCut
  <2>. QED BY <1>1, <2>2 DEF CutAt
<1>. HIDE DEF f
<1>5. Len(c.held) = 1
  <2>1. Joined(u, f)
    BY <1>4, UnitsJoined
  <2>. HIDE DEF n
  <2>2. n \in Nat /\ n = Len(u)
    BY <1>2 DEF n
  <2>. QED BY <1>3, <1>4, <2>1, <2>2 DEF Joined
<1>6. e = [j \in 1..n |-> c.held[1 - n + j]]
  BY <1>3, <1>5 DEF Emit
<1>7. e = u
  <2>1. CASE n = 0
    <3>1. e = <<>> /\ u = <<>>
      <4>1. u = <<>>
        BY <2>1
      <4>2. 1..n = {}
        BY <2>1
      <4>. HIDE DEF n, e
      <4>. QED BY <1>6, <4>1, <4>2
    <3>. QED BY <3>1
  <2>2. CASE n = 1
    <3>1. f = <<>>
      BY <1>4, <2>2
    <3>2. u \o f = u
      BY <3>1, ConcatEmptySeq
    <3>3. e = [j \in 1..1 |-> u[j]]
      <4>. HIDE DEF n, e
      <4>1. \A j \in 1..1 : c.held[1 - n + j] = u[j]
        BY <1>3, <2>2, <3>2
      <4>. QED BY <1>6, <2>2, <4>1
    <3>4. u = [j \in 1..1 |-> u[j]]
      BY <2>2
    <3>. QED BY <3>3, <3>4
  <2>. QED BY <1>2, <2>1, <2>2
<1>. QED BY <1>3, <1>5, <1>7 DEF c, n

\* Nothing kept, nothing given.
LEMMA EmitNone ==
  ASSUME NEW d
  PROVE  Emit(d, 0) = <<>>
  BY DEF Emit

\* A Swap2 decoder above a swapped stream.
AboveSwapped(s, i, R) ==
  /\ Len(s[i].held) = 1 /\ s[i].pending_len <= 1
  /\ \E x \in Seq(Plain) : Gives(s, i - 1, Swapped(x)) /\ R = Emit(s[i], s[i].pending_len) \o x

\* It gives the stream behind what it kept.
LEMMA SwapGives ==
  ASSUME NEW s \in Sounds, NEW i \in Nat, NEW R, i >= 2, s[i].method = "SWAP2", Gives(s, i, R)
  PROVE  AboveSwapped(s, i, R)
<1>1. PICK B \in Seq(Units) : Gives(s, i - 1, B) /\ Level(s[i], R, B)
  BY GivesDown
<1>2. SwapLevel(s[i], R, B)
  BY <1>1 DEF Level
<1>. QED BY <1>1, <1>2 DEF SwapLevel, AboveSwapped

\* The converse.
LEMMA SwapLevelIs ==
  ASSUME NEW d, d.method = "SWAP2", Len(d.held) = 1, d.pending_len <= 1, NEW x \in Seq(Plain)
  PROVE  Level(d, Emit(d, d.pending_len) \o x, Swapped(x))
<1>. DEFINE R == Emit(d, d.pending_len) \o x
            B == Swapped(x)
<1>1. SwapLevel(d, R, B)
  BY DEF SwapLevel
<1>. HIDE DEF R, B
<1>2. d.method \notin Framed /\ d.method \in {"COPY", "SWAP2", "AES"}
  BY DEF Framed
<1>3. Level(d, R, B)
  BY <1>1, <1>2 DEF Level
<1>. QED BY <1>3 DEF R, B

UnitAt(u, n, room) ==
  /\ n <= room /\ First(u, n) \in Seq(Units) /\ Len(First(u, n)) = n
  /\ From(u, n) \in Seq(Units) /\ Len(From(u, n)) <= 1 /\ First(u, n) \o From(u, n) = u
  /\ n < room => Len(From(u, n)) = 0
  /\ Len(u) < 2 => Len(From(u, n)) = 0
  /\ Len(u) >= 1 => n >= 1

\* How a unit of at most a pair is cut where buf is full: one byte of it at most is kept.
LEMMA UnitCut ==
  ASSUME NEW u \in Seq(Units), Len(u) <= 2, NEW room \in Nat \ {0}, NEW n \in Nat, n = AtMost(room, Len(u))
  PROVE  UnitAt(u, n, room)
<1>. DEFINE l == Len(u)
<1>1. l \in Nat /\ l <= 2
  BY LenProperties
<1>2. n = AtMost(room, l)
  OBVIOUS
<1>. HIDE DEF l
<1>3. n \in 0..l /\ n <= room /\ (n = room \/ n = l)
  BY <1>1, <1>2, AtMostIs
<1>4. CutAt(u, n) /\ Len(u) = l
  BY <1>3, UnitsCut DEF l
<1>5. First(u, n) \in Seq(Units) /\ Len(First(u, n)) = n /\ From(u, n) \in Seq(Units)
      /\ Len(From(u, n)) = l - n /\ First(u, n) \o From(u, n) = u
  BY <1>4 DEF CutAt
<1>6. n <= room /\ l - n <= 1 /\ (n < room => l - n = 0) /\ (l < 2 => l - n = 0) /\ (l >= 1 => n >= 1)
  BY <1>1, <1>3
<1>. QED BY <1>4, <1>5, <1>6 DEF UnitAt

\* A Swap2 decoder that keeps o above a swapped stream gives o and then that stream.
LEMMA UnitGiven ==
  ASSUME NEW t \in Sounds, NEW i \in 2..Len(t), t[i].method = "SWAP2", Len(t[i].held) = 1,
         NEW y \in Seq(Plain), Gives(t, i - 1, Swapped(y)), NEW o \in Seq(Units), Len(o) <= 1
  PROVE  /\ Gives(With(t, i, Keep(t[i], o)), i, o \o y) /\ o \o y \in Seq(Units)
         /\ With(t, i, Keep(t[i], o))[i].pending_len = Len(o)
<1>. DEFINE c == t[i]
            d == Keep(c, o)
            R == o \o y
            B == Swapped(y)
<1>1. i \in 1..Len(t) /\ c \in Decoders /\ c.method = "SWAP2" /\ Len(c.held) = 1
  BY SoundIs
<1>. HIDE DEF c
<1>2. d \in Decoders /\ d.method = "SWAP2" /\ Len(d.held) = 1 /\ d.pending_len = Len(o) /\ Emit(d, Len(o)) = o
  BY <1>1, KeepIs, KeptOne
<1>. HIDE DEF d
<1>3. Level(d, R, B)
  <2>1. Level(d, Emit(d, d.pending_len) \o y, Swapped(y))
    BY <1>2, SwapLevelIs
  <2>. QED BY <1>2, <2>1
<1>4. R \in Seq(Units)
  <2>1. y \in Seq(Units)
    BY UnitsAre
  <2>. QED BY <2>1, ConcatIs
<1>5. Gives(t, i - 1, B)
  OBVIOUS
<1>. HIDE DEF R, B
<1>6. Gives(With(t, i, d), i, R)
  BY <1>2, <1>3, <1>4, <1>5, GivesWith
<1>7. With(t, i, d)[i] = d
  BY <1>1, <1>2, WithIs
<1>. QED BY <1>2, <1>4, <1>6, <1>7 DEF d, R, c

\* What Swap2 reads of a pair from a swapped stream.
PairRead(r, s, i, rest) ==
  /\ r.ok /\ r.got \in Seq(Units) /\ Len(r.got) <= 2
  /\ r.stack \in Sounds /\ i \in 2..Len(r.stack) /\ r.stack[i] = s[i] /\ Len(s[i].held) = 1
  /\ \E y \in Seq(Plain) : /\ rest = Reverse(r.got) \o y /\ Gives(r.stack, i - 1, Swapped(y))
                           /\ Len(r.got) < 2 => y = <<>>

\* A pair is read.
LEMMA PairFromBelow ==
  ASSUME NEW read, NEW i \in Nat, NEW s \in Sounds, NEW rest, WellReader(read, i - 1), SaneReader(read, i - 1),
         i \in 2..Len(s), s[i].method = "SWAP2", s[i].pending_len = 0, Gives(s, i, rest)
  PROVE  PairRead(Fill(read, s, 2), s, i, rest)
<1>. DEFINE r == Fill(read, s, 2)
            g == r.got
<1>1. AboveSwapped(s, i, rest)
  BY SwapGives
<1>2. PICK x \in Seq(Plain) : Gives(s, i - 1, Swapped(x)) /\ rest = Emit(s[i], s[i].pending_len) \o x
  BY <1>1 DEF AboveSwapped
<1>3. rest = x
  <2>1. Emit(s[i], s[i].pending_len) = <<>>
    BY EmitNone
  <2>. QED BY <1>2, <2>1, ConcatEmptySeq
<1>4. i - 1 \in Nat /\ i - 1 \in 1..Len(s) /\ i \in 1..Len(s)
  BY SoundIs
<1>5. GetsAll(r, i - 1, 2, Swapped(x)) /\ Sane(r, s, i - 1, 2)
  <2>. DEFINE h == i - 1
              k == 2
              B == Swapped(x)
  <2>1. h \in Nat /\ h \in 1..Len(s) /\ k \in Nat /\ WellReader(read, h) /\ SaneReader(read, h) /\ Gives(s, h, B)
    BY <1>2, <1>4
  <2>2. r = Fill(read, s, k)
    OBVIOUS
  <2>. HIDE DEF h, k, B, r
  <2>3. GetsAll(Fill(read, s, k), h, k, B) /\ Sane(Fill(read, s, k), s, h, k)
    BY <2>1, FillWell, FillSane
  <2>. QED BY <2>2, <2>3 DEF h, k, B
<1>. HIDE DEF r
<1>6. Kept(s, r.stack, i - 1) /\ g \in Seq(Units) /\ Len(g) <= 2
  BY <1>5 DEF Sane
<1>7. PICK more : Left(r, i - 1, Swapped(x), more) /\ (Len(g) = 2 \/ more = <<>>)
  BY <1>5 DEF GetsAll
<1>8. more \in Seq(Units) /\ Swapped(x) = g \o more /\ r.ok /\ Gives(r.stack, i - 1, more)
  BY <1>7 DEF Left
<1>. HIDE DEF g
<1>9. PICK y \in Seq(Plain) : /\ x = Reverse(g) \o y /\ more = Swapped(y)
                              /\ Len(g) < 2 => y = <<>>
  <2>1. Paired(x, g, more)
    BY <1>6, <1>7, <1>8, UnitWell
  <2>. QED BY <2>1 DEF Paired
<1>10. r.stack \in Sounds /\ i \in 2..Len(r.stack) /\ r.stack[i] = s[i]
  <2>1. i \in 1..Len(r.stack) /\ r.stack \in Sounds /\ r.stack[i] = s[i]
    BY <1>4, <1>6, KeptBelow
  <2>2. Len(r.stack) = Len(s)
    BY <1>4, <1>6, KeptBelow
  <2>. QED BY <2>1, <2>2
<1>11. Len(s[i].held) = 1
  BY <1>1 DEF AboveSwapped
<1>12. PairRead(r, s, i, rest)
  BY <1>3, <1>6, <1>8, <1>9, <1>10, <1>11 DEF PairRead, g
<1>. QED BY <1>12 DEF r

\* The loop of reads of pairs: while it goes on, nothing is kept.
SwapLooped(acc, i, j, k, R) ==
  Looped(acc, i, j, k, R) /\ (~acc.over /\ Len(acc.got) # k => acc.stack[i].pending_len = 0)
UnitReady(t, i, a, u, y, j, k) ==
  /\ y \in Seq(Plain) /\ t[i].method = "SWAP2" /\ Len(t[i].held) = 1
  /\ Len(u) <= 2 /\ Len(a) < k /\ Len(a) >= j /\ Gives(t, i - 1, Swapped(y)) /\ (Len(u) < 2 => y = <<>>)
UnitEnds(a, u, k, n, over) == n = AtMost(k - Len(a), Len(u)) /\ (over <=> Len(u) < 2)

\* A unit that was read is handed out, or kept.
LEMMA UnitHandedOut ==
  ASSUME NEW t \in Sounds, NEW i \in 2..Len(t), NEW a \in Seq(Units), NEW u \in Seq(Units), NEW y \in Seq(Units),
         NEW j \in Nat, NEW k \in Nat, NEW n \in Nat, NEW over \in BOOLEAN,
         UnitReady(t, i, a, u, y, j, k), UnitEnds(a, u, k, n, over)
  PROVE  SwapLooped(Round(With(t, i, Keep(t[i], From(u, n))), a \o First(u, n), TRUE, over), i, j + 1, k, a \o (u \o y))
<1>. DEFINE la == Len(a)
            room == k - la
            f == First(u, n)
            o == From(u, n)
            W == With(t, i, Keep(t[i], o))
            R == a \o (u \o y)
            new == Round(W, a \o f, TRUE, over)
<1>1. /\ y \in Seq(Plain) /\ t[i].method = "SWAP2" /\ Len(t[i].held) = 1
      /\ Len(u) <= 2 /\ la < k /\ la >= j /\ Gives(t, i - 1, Swapped(y)) /\ (Len(u) < 2 => y = <<>>)
  BY DEF UnitReady
<1>2. n = AtMost(room, Len(u)) /\ (over <=> Len(u) < 2)
  BY DEF UnitEnds
<1>3. la \in Nat
  BY LenProperties
<1>. HIDE DEF la
<1>4. room \in Nat \ {0} /\ la + room = k
  BY <1>1, <1>3
<1>. HIDE DEF room
<1>5. /\ n <= room /\ f \in Seq(Units) /\ Len(f) = n /\ o \in Seq(Units) /\ Len(o) <= 1 /\ f \o o = u
      /\ n < room => Len(o) = 0
      /\ Len(u) < 2 => Len(o) = 0
      /\ Len(u) >= 1 => n >= 1
  <2>1. UnitAt(u, n, room)
    BY <1>1, <1>2, <1>4, UnitCut
  <2>. QED BY <2>1 DEF UnitAt
<1>. HIDE DEF f, o
<1>6. Gives(W, i, o \o y) /\ o \o y \in Seq(Units) /\ W[i].pending_len = Len(o)
  BY <1>1, <1>5, UnitGiven
<1>. HIDE DEF W
<1>7. R = (a \o f) \o (o \o y)
  <2>1. Joined4(a, f, o, y)
    BY <1>5, UnitsJoined4
  <2>. QED BY <1>5, <2>1 DEF Joined4
<1>8. new.stack = W /\ new.got = a \o f /\ new.ok = TRUE /\ new.over = over
  BY DEF Round
<1>. HIDE DEF new, R
<1>9. Left(new, i, R, o \o y)
  BY <1>6, <1>7, <1>8 DEF Left
<1>10. Len(new.got) = la + n
  <2>1. Len(a \o f) = Len(a) + Len(f)
    <3>1. f \in Seq(Units)
      BY <1>5
    <3>2. Joined(a, f)
      BY <3>1, UnitsJoined
    <3>. QED BY <3>2 DEF Joined
  <2>. QED BY <1>5, <1>8, <2>1 DEF la
<1>11. new.over => o \o y = <<>>
  <2>. SUFFICES ASSUME over PROVE o \o y = <<>>
    BY <1>8
  <2>1. Len(o) = 0 /\ y = <<>>
    BY <1>1, <1>2, <1>5
  <2>2. Joined(o, y)
    BY <1>5, UnitsJoined
  <2>. QED BY <2>1, <2>2 DEF Joined
<1>12. new.over \/ Len(new.got) = k \/ Len(new.got) >= j + 1
  <2>. SUFFICES ASSUME ~over PROVE Len(new.got) >= j + 1
    BY <1>8
  <2>1. Len(u) \in Nat /\ ~(Len(u) < 2)
    BY <1>2, LenProperties
  <2>2. n >= 1
    BY <1>5, <2>1
  <2>. QED BY <1>1, <1>3, <1>10, <2>2
<1>13. Looped(new, i, j + 1, k, R)
  BY <1>9, <1>11, <1>12 DEF Looped
<1>14. ~new.over /\ Len(new.got) # k => new.stack[i].pending_len = 0
  <2>. SUFFICES ASSUME Len(new.got) # k PROVE Len(o) = 0
    BY <1>6, <1>8
  <2>1. n # room
    BY <1>4, <1>10
  <2>. QED BY <1>4, <1>5, <2>1
<1>15. SwapLooped(new, i, j + 1, k, R)
  BY <1>13, <1>14 DEF SwapLooped
<1>. QED BY <1>15 DEF new, R, W, f, o

\* A round of that loop.
LEMMA SwapRoundWell ==
  ASSUME NEW read, NEW i \in Nat, NEW acc, NEW j \in Nat, NEW k \in Nat, NEW R, WellReader(read, i - 1), SaneReader(read, i - 1),
         acc.stack \in Sounds, i \in 2..Len(acc.stack), acc.stack[i].method = "SWAP2", acc.got \in Seq(Units),
         Len(acc.got) <= k, SwapLooped(acc, i, j, k, R)
  PROVE  SwapLooped(SwapRound(read, acc, i, k), i, j + 1, k, R)
<1>1. PICK rest : /\ Left(acc, i, R, rest) /\ (acc.over => rest = <<>>)
                  /\ (acc.over \/ Len(acc.got) = k \/ Len(acc.got) >= j)
  BY DEF SwapLooped, Looped
<1>2. CASE acc.over \/ Len(acc.got) = k
  <2>1. SwapRound(read, acc, i, k) = acc
    BY <1>2, Zenon DEF SwapRound
  <2>2. Looped(acc, i, j + 1, k, R)
    BY <1>1, <1>2 DEF Looped
  <2>3. SwapLooped(acc, i, j + 1, k, R)
    BY <1>2, <2>2 DEF SwapLooped
  <2>. QED BY <2>1, <2>3
<1>3. CASE ~(acc.over \/ Len(acc.got) = k)
  <2>. DEFINE s == acc.stack
              a == acc.got
              r == Fill(read, s, 2)
              u == Reverse(r.got)
              n == AtMost(k - Len(a), Len(u))
              t == r.stack
              over == Len(u) < 2
              W == With(t, i, Keep(t[i], From(u, n)))
  <2>1. Gives(s, i, rest) /\ rest \in Seq(Units) /\ R = a \o rest
    BY <1>1 DEF Left
  <2>2. s[i].pending_len = 0 /\ Len(a) >= j
    BY <1>1, <1>3 DEF SwapLooped
  <2>3. PairRead(r, s, i, rest)
    <3>1. s \in Sounds /\ i \in 2..Len(s) /\ s[i].method = "SWAP2"
      OBVIOUS
    <3>. HIDE DEF s
    <3>2. PairRead(Fill(read, s, 2), s, i, rest)
      BY <2>1, <2>2, <3>1, PairFromBelow
    <3>. QED BY <3>2
  <2>4. Unit(acc.stack[i].method) = 2
    BY DEF Unit
  <2>5. /\ r.ok /\ r.got \in Seq(Units) /\ Len(r.got) <= 2
        /\ t \in Sounds /\ i \in 2..Len(t) /\ t[i] = s[i] /\ Len(s[i].held) = 1
    BY <2>3 DEF PairRead
  <2>6. PICK y \in Seq(Plain) : /\ rest = u \o y /\ Gives(t, i - 1, Swapped(y)) /\ (Len(r.got) < 2 => y = <<>>)
    BY <2>3 DEF PairRead
  <2>7. SwapRound(read, acc, i, k) =
          Round([r.stack EXCEPT ![i] = Keep(@, From(u, n))], a \o First(u, n), TRUE, over)
    BY <1>3, <2>4, <2>5, Zenon DEF SwapRound, HandOut
  <2>8. [r.stack EXCEPT ![i] = Keep(@, From(u, n))] = W
    <3>1. i \in DOMAIN t
      <4>1. i \in 1..Len(t)
        BY <2>5
      <4>. QED BY <2>5, <4>1, SoundIs
    <3>. HIDE DEF u, n
    <3>. QED BY <3>1 DEF With
  <2>9. u \in Seq(Units) /\ Len(u) = Len(r.got) /\ Len(u) \in Nat /\ a \in Seq(Units) /\ Len(a) \in Nat
    <3>1. u \in Seq(Units) /\ Len(u) = Len(r.got) /\ a \in Seq(Units)
      BY <2>5, Reversed
    <3>. HIDE DEF u, a
    <3>. QED BY <3>1, LenProperties
  <2>10. n \in Nat
    <3>1. k - Len(a) \in Nat
      BY <2>9
    <3>2. n \in 0..Len(u)
      BY <2>9, <3>1, AtMostIs
    <3>. HIDE DEF n
    <3>. QED BY <2>9, <3>2
  <2>11. y \in Seq(Units) /\ over \in BOOLEAN
    BY UnitsAre
  <2>12. UnitReady(t, i, a, u, y, j, k)
    <3>1. t[i].method = "SWAP2" /\ Len(t[i].held) = 1
      BY <2>5
    <3>2. Len(u) <= 2 /\ Len(a) < k /\ (Len(u) < 2 => y = <<>>)
      BY <1>3, <2>5, <2>6, <2>9
    <3>. HIDE DEF t, u, a
    <3>. QED BY <2>2, <2>6, <3>1, <3>2 DEF UnitReady
  <2>13. UnitEnds(a, u, k, n, over)
    BY DEF UnitEnds
  <2>14. R = a \o (u \o y)
    BY <2>1, <2>6
  <2>15. SwapRound(read, acc, i, k) = Round(W, a \o First(u, n), TRUE, over)
    BY <2>7, <2>8
  <2>. HIDE DEF a, u, n, t, over, r, s
  <2>16. SwapLooped(Round(W, a \o First(u, n), TRUE, over), i, j + 1, k, a \o (u \o y))
    <3>1. t \in Sounds /\ i \in 2..Len(t)
      BY <2>5
    <3>. QED BY <2>9, <2>10, <2>11, <2>12, <2>13, <3>1, UnitHandedOut
  <2>. QED BY <2>14, <2>15, <2>16
<1>. QED BY <1>2, <1>3

\* All the rounds: as much as was asked for, or all there is.
LEMMA SwapUnitsWell ==
  ASSUME NEW read, NEW i \in Nat, NEW s \in Sounds, NEW k \in Nat, NEW start, NEW R, WellReader(read, i - 1), SaneReader(read, i - 1),
         i \in 2..Len(s), s[i].method = "SWAP2", Sane(start, s, i, k), SwapLooped(start, i, 0, k, R)
  PROVE  GetsAll(SwapUnits(read, start, i, k), i, k, R)
<1>. DEFINE f == SwapUpTo(read, start, i, k)
            In == {j \in Nat : j \in 0..k => SwapLooped(f[j], i, j, k, R)}
<1>1. f = [j \in 0..k |-> IF j = 0 THEN start ELSE SwapRound(read, f[j - 1], i, k)]
  BY SwapUpToDef
<1>2. \A j \in 0..k : Sane(f[j], s, i, k)
  <2>1. s[i].method \in Swaps
    BY DEF Swaps
  <2>. QED BY <2>1, SwapRoundsSane
<1>3. SwapUnits(read, start, i, k) = Returned(f[k])
  BY SwapUnitsIs
<1>. HIDE DEF f
<1>4. f[0] = start /\ \A j \in 1..k : f[j] = SwapRound(read, f[j - 1], i, k)
  <2>1. 0 \in 0..k /\ \A j \in 1..k : j \in 0..k /\ j # 0
    OBVIOUS
  <2>. QED BY <1>1, <2>1
<1>5. 0 \in In
  BY <1>4
<1>6. ASSUME NEW j \in Nat, j \in In PROVE j + 1 \in In
  <2>. SUFFICES ASSUME j + 1 \in 0..k PROVE SwapLooped(f[j + 1], i, j + 1, k, R)
    OBVIOUS
  <2>1. j \in 0..k /\ j + 1 \in 1..k /\ (j + 1) - 1 = j
    OBVIOUS
  <2>. DEFINE acc == f[j]
  <2>2. SwapLooped(acc, i, j, k, R) /\ Sane(acc, s, i, k)
    BY <1>2, <1>6, <2>1
  <2>3. f[j + 1] = SwapRound(read, acc, i, k)
    BY <1>4, <2>1
  <2>. HIDE DEF acc
  <2>4. acc.stack \in Sounds /\ Len(acc.stack) = Len(s) /\ acc.stack[i].method = s[i].method
        /\ acc.got \in Seq(Units) /\ Len(acc.got) <= k
    <3>1. i \in 1..Len(s)
      BY SoundIs
    <3>. QED BY <2>2, <3>1 DEF Sane, Kept
  <2>5. i \in 2..Len(acc.stack) /\ acc.stack[i].method = "SWAP2"
    BY <2>4
  <2>6. SwapLooped(SwapRound(read, acc, i, k), i, j + 1, k, R)
    BY <2>2, <2>4, <2>5, SwapRoundWell
  <2>. QED BY <2>3, <2>6
<1>7. Nat \subseteq In
  <2>. HIDE DEF In
  <2>. QED BY <1>5, <1>6, SetInduction
<1>8. Looped(f[k], i, k, k, R) /\ Sane(f[k], s, i, k)
  <2>1. k \in In /\ k \in 0..k
    BY <1>7
  <2>. QED BY <1>2, <2>1 DEF SwapLooped
<1>. DEFINE acc == f[k]
            r == Returned(acc)
<1>9. r.stack = acc.stack /\ r.got = acc.got /\ r.ok = acc.ok
  BY ReturnedIs
<1>. HIDE DEF r, acc
<1>10. PICK rest : /\ Left(acc, i, R, rest) /\ (acc.over => rest = <<>>)
                   /\ (acc.over \/ Len(acc.got) = k \/ Len(acc.got) >= k)
  BY <1>8 DEF Looped, acc
<1>11. Len(acc.got) \in Nat /\ Len(acc.got) <= k
  <2>1. acc.got \in Seq(Units) /\ Len(acc.got) <= k
    BY <1>8 DEF Sane, acc
  <2>. QED BY <2>1, LenProperties
<1>12. Left(r, i, R, rest) /\ (Len(r.got) = k \/ rest = <<>>)
  <2>1. Left(r, i, R, rest)
    BY <1>9, <1>10 DEF Left
  <2>. QED BY <1>9, <1>10, <1>11, <2>1
<1>13. GetsAll(r, i, k, R)
  BY <1>12 DEF GetsAll
<1>. QED BY <1>3, <1>13 DEF r, acc

\* A read of Swap2Reader gives all that is asked for.
LEMMA SwapReadWell ==
  ASSUME NEW read, NEW i \in Nat, NEW s \in Sounds, NEW k \in Nat \ {0}, NEW R, WellReader(read, i - 1), SaneReader(read, i - 1),
         i \in 2..Len(s), s[i].method = "SWAP2", Gives(s, i, R)
  PROVE  GetsAll(SwapRead(read, s, i, k), i, k, R)
<1>. DEFINE c == s[i]
            p == c.pending_len
            n == FromPending(s, i, k)
            d == SetPending(c, p - n)
            W == With(s, i, d)
            start == SwapStart(s, i, k)
<1>1. i \in 1..Len(s) /\ c \in Decoders /\ p \in Nat /\ c.method \in Swaps
  BY SoundIs DEF Swaps
<1>2. AboveSwapped(s, i, R)
  BY SwapGives
<1>3. PICK x \in Seq(Plain) : Gives(s, i - 1, Swapped(x)) /\ R = Emit(c, p) \o x
  BY <1>2 DEF AboveSwapped
<1>4. Len(c.held) = 1 /\ p <= 1
  BY <1>2 DEF AboveSwapped
<1>5. SwapRead(read, s, i, k) = SwapUnits(read, start, i, k)
  BY <1>1, SwapReadIs
<1>6. /\ n \in 0..p /\ n <= k
      /\ start.stack = W /\ start.got = Emit(c, n) /\ start.ok = TRUE /\ start.over = FALSE
      /\ Kept(s, W, i) /\ Emit(c, n) \in Seq(Units) /\ Len(Emit(c, n)) = n
  BY <1>1, SwapStartIs
<1>7. n = p
  <2>1. n = AtMost(k, p)
    BY DEF FromPending
  <2>. HIDE DEF n, p
  <2>2. n = k \/ n = p
    BY <1>1, <2>1, AtMostIs
  <2>. QED BY <1>1, <1>4, <1>6, <2>2
<1>8. d \in Decoders /\ d.pending_len = 0 /\ d.method = "SWAP2" /\ Len(d.held) = 1
  <2>1. p - n = 0
    BY <1>1, <1>7
  <2>2. <<>> \in Seq(Units) /\ c.method = "SWAP2"
    OBVIOUS
  <2>. DEFINE z == p - n
  <2>3. z \in Nat /\ z = 0
    BY <2>1
  <2>. HIDE DEF c, z
  <2>4. SetPending(c, z) \in Decoders /\ SetPending(c, z).pending_len = z
        /\ SetPending(c, z).method = c.method /\ SetPending(c, z).held = c.held
    BY <1>1, <2>2, <2>3, FieldsAre
  <2>. QED BY <1>4, <2>2, <2>3, <2>4 DEF z
<1>. HIDE DEF d, start, n
<1>9. Gives(W, i, x)
  <2>1. x \in Seq(Units) /\ Gives(s, i - 1, Swapped(x))
    BY <1>3, UnitsAre
  <2>2. Level(d, x, Swapped(x))
    <3>1. Level(d, Emit(d, d.pending_len) \o x, Swapped(x))
      BY <1>8, SwapLevelIs
    <3>2. Emit(d, d.pending_len) = <<>>
      BY <1>8, EmitNone
    <3>3. <<>> \o x = x
      BY ConcatEmptySeq
    <3>. QED BY <3>1, <3>2, <3>3
  <2>. DEFINE B == Swapped(x)
  <2>3. Gives(s, i - 1, B) /\ Level(d, x, B)
    BY <2>1, <2>2
  <2>. HIDE DEF B
  <2>. QED BY <1>8, <2>1, <2>3, GivesWith
<1>10. Sane(start, s, i, k)
  BY <1>6 DEF Sane
<1>11. W[i].pending_len = 0
  BY <1>1, <1>8, WithIs
<1>. HIDE DEF W
<1>12. Looped(start, i, 0, k, R)
  <2>1. R = start.got \o x
    BY <1>3, <1>6, <1>7
  <2>2. x \in Seq(Units)
    BY UnitsAre
  <2>3. Left(start, i, R, x)
    BY <1>6, <1>9, <2>1, <2>2 DEF Left
  <2>4. Len(start.got) >= 0
    BY <1>6
  <2>. QED BY <1>6, <2>3, <2>4 DEF Looped
<1>13. SwapLooped(start, i, 0, k, R)
  BY <1>6, <1>11, <1>12 DEF SwapLooped
<1>14. GetsAll(SwapUnits(read, start, i, k), i, k, R)
  BY <1>10, <1>13, SwapUnitsWell
<1>. QED BY <1>5, <1>14

-----------------------------------------------------------------------------
(* Aes256Sha256Decoder *)

AesBlocks == Seq(Blocks(AesBlock, Plain))

\* Whole blocks are what the AES encoder encrypts.
LEMMA AesParts ==
  /\ AesBlock \in Nat \ {0} /\ AesBlocks = Seq(Parts("AES")) /\ OutOf("AES") = Cipher /\ "AES" \in AllMethods
<1>1. Parts("AES") = Blocks(AesBlock, Plain)
  BY DEF Parts, Full, Framed
<1>2. OutOf("AES") = Cipher /\ "AES" \in AllMethods
  BY DEF OutOf, AllMethods
<1>. QED BY <1>1, <1>2, EncoderAssumption DEF AesBlocks

\* A block is decrypted to what was encrypted.
LEMMA EncryptIs ==
  ASSUME NEW p \in Blocks(AesBlock, Plain)
  PROVE  Encrypt(p) \in Blocks(AesBlock, Cipher) /\ Encrypt(p)[1][2] = p
<1>1. 1 \in 1..AesBlock
  BY EncoderAssumption
<1>2. Encrypt(p)[1][2] = p
  BY <1>1 DEF Encrypt
<1>3. ASSUME NEW j \in 1..AesBlock PROVE <<"cipher", p, j, 0>> \in Cipher
  BY DEF Cipher, Blocks
<1>4. Encrypt(p) \in [1..AesBlock -> Cipher]
  BY <1>3 DEF Encrypt
<1>. QED BY <1>2, <1>4 DEF Blocks

\* Blocks are decrypted to what was encrypted, and nothing is held back.
Decrypts(gs) ==
  /\ Coded("AES", gs) \in Seq(Cipher)
  /\ FlattenSeq(gs) \in Seq(Plain) /\ Len(Coded("AES", gs)) = AesBlock * Len(gs)
  /\ Len(FlattenSeq(gs)) = AesBlock * Len(gs)
  /\ Decrypt(Groups(Coded("AES", gs), AesBlock)) = FlattenSeq(gs) /\ Rest(Coded("AES", gs), AesBlock) = <<>>

\* Any number of them.
LEMMA DecryptsBlocks ==
  ASSUME NEW gs \in AesBlocks
  PROVE  Decrypts(gs)
<1>. DEFINE l == Len(gs)
            es == [g \in 1..l |-> Encrypt(gs[g])]
            F == FlattenSeq(es)
<1>1. l \in Nat /\ DOMAIN gs = 1..l /\ (\A g \in 1..l : gs[g] \in Blocks(AesBlock, Plain)) /\ gs = [g \in 1..l |-> gs[g]]
  BY LenProperties DEF AesBlocks
<1>. HIDE DEF l
<1>2. es \in Seq(Blocks(AesBlock, Cipher)) /\ Len(es) = l /\ DOMAIN es = 1..l
  <2>1. \A g \in 1..l : Encrypt(gs[g]) \in Blocks(AesBlock, Cipher)
    BY <1>1, EncryptIs
  <2>2. es \in [1..l -> Blocks(AesBlock, Cipher)]
    BY <2>1
  <2>. HIDE DEF es
  <2>3. es \in Seq(Blocks(AesBlock, Cipher))
    BY <1>1, <2>2 DEF Seq
  <2>4. DOMAIN es = 1..l
    BY <2>2
  <2>. QED BY <1>1, <2>3, <2>4, LenProperties
<1>3. Coded("AES", gs) = F
  <2>1. \A g \in DOMAIN gs : EncodedBy("AES", gs[g]) = Encrypt(gs[g])
    BY EncodedIs
  <2>2. [g \in DOMAIN gs |-> EncodedBy("AES", gs[g])] = es
    BY <1>1, <2>1
  <2>. QED BY <2>2 DEF Coded
<1>4. [g \in DOMAIN es |-> es[g][1][2]] = gs
  <2>1. \A g \in 1..l : es[g][1][2] = gs[g]
    BY <1>1, EncryptIs
  <2>. HIDE DEF es
  <2>2. [g \in DOMAIN es |-> es[g][1][2]] = [g \in 1..l |-> gs[g]]
    BY <1>2, <2>1
  <2>. QED BY <1>1, <2>2
<1>. HIDE DEF es
<1>5. Decrypt(es) = FlattenSeq(gs)
  BY <1>4 DEF Decrypt
<1>6. F \in Seq(Cipher) /\ Len(F) = AesBlock * Len(es)
  BY <1>2, EncoderAssumption, FlattenGroups
<1>7. FlattenSeq(gs) \in Seq(Plain) /\ Len(FlattenSeq(gs)) = AesBlock * Len(gs)
  BY EncoderAssumption, FlattenGroups DEF AesBlocks
<1>8. Groups(F, AesBlock) = es /\ Rest(F, AesBlock) = <<>>
  <2>. DEFINE e == <<>>
  <2>1. e \in Seq(Cipher) /\ Len(e) < AesBlock
    BY EncoderAssumption
  <2>2. F \o e = F
    BY <1>6, ConcatEmptySeq
  <2>. HIDE DEF e, F
  <2>3. Groups(F \o e, AesBlock) = es /\ Rest(F \o e, AesBlock) = e
    BY <1>2, <2>1, EncoderAssumption, GroupsUnique DEF F
  <2>. QED BY <2>2, <2>3 DEF e
<1>. HIDE DEF F
<1>. QED BY <1>2, <1>3, <1>5, <1>6, <1>7, <1>8 DEF Decrypts, l

\* Products by a positive number keep their order.
LEMMA Multiples ==
  ASSUME NEW n \in Nat \ {0}, NEW a \in Nat, NEW b \in Nat, n * a <= n * b
  PROVE  a <= b
<1>. SUFFICES ASSUME b + 1 <= a PROVE FALSE
  OBVIOUS
<1>1. n * (b + 1) <= n * a
  BY ProductOrder
<1>2. n * (b + 1) = n * b + n
  OBVIOUS
<1>3. n * a \in Nat /\ n * b \in Nat
  BY ProductOrder
<1>. DEFINE x == n * a
            y == n * b
<1>4. y + n <= x /\ x <= y /\ x \in Nat /\ y \in Nat
  BY <1>1, <1>2, <1>3
<1>. HIDE DEF x, y
<1>. QED BY <1>4

\* Encrypted blocks cut behind a block.
LEMMA AesCut ==
  ASSUME NEW gs \in AesBlocks, NEW a \in Seq(Units), NEW b \in Seq(Units), NEW m \in Nat,
         Coded("AES", gs) = a \o b, Len(a) = AesBlock * m
  PROVE  \E hs \in AesBlocks : \E ks \in AesBlocks :
           a = Coded("AES", hs) /\ b = Coded("AES", ks) /\ FlattenSeq(gs) = FlattenSeq(hs) \o FlattenSeq(ks)
<1>. DEFINE n == Len(gs)
            hs == First(gs, m)
            ks == From(gs, m)
            A == Coded("AES", hs)
            B == Coded("AES", ks)
<1>1. n \in Nat /\ Len(Coded("AES", gs)) = AesBlock * n
  <2>1. gs \in Seq(Blocks(AesBlock, Plain))
    BY DEF AesBlocks
  <2>2. n \in Nat
    BY <2>1, LenProperties
  <2>. QED BY <2>2, DecryptsBlocks DEF Decrypts
<1>2. m \in 0..n
  <2>1. Len(a \o b) = Len(a) + Len(b) /\ Len(b) \in Nat
    BY UnitsJoined DEF Joined
  <2>. HIDE DEF n
  <2>2. AesBlock * m \in Nat /\ AesBlock * n \in Nat
    BY <1>1, EncoderAssumption
  <2>. DEFINE x == AesBlock * m
              y == AesBlock * n
              z == Len(b)
  <2>3. x <= y
    <3>1. y = x + z /\ x \in Nat /\ y \in Nat /\ z \in Nat
      BY <1>1, <2>1, <2>2
    <3>. HIDE DEF x, y, z
    <3>. QED BY <3>1
  <2>. HIDE DEF z
  <2>4. m <= n
    BY <1>1, <2>3, EncoderAssumption, Multiples
  <2>. QED BY <1>1, <2>4
<1>3. hs \in AesBlocks /\ ks \in AesBlocks /\ Len(hs) = m /\ hs \o ks = gs
  <2>1. gs \in Seq(Blocks(AesBlock, Plain))
    BY DEF AesBlocks
  <2>2. hs \in Seq(Blocks(AesBlock, Plain)) /\ ks \in Seq(Blocks(AesBlock, Plain)) /\ Len(hs) = m /\ hs \o ks = gs
    BY <1>2, <2>1, CutIs
  <2>. QED BY <2>2 DEF AesBlocks
<1>. HIDE DEF hs, ks
<1>4. A \in Seq(Units) /\ B \in Seq(Units) /\ Len(A) = AesBlock * m
  BY <1>3, DecryptsBlocks, UnitsAre DEF Decrypts
<1>5. A \o B = a \o b
  <2>1. Coded("AES", hs \o ks) = A \o B
    BY <1>3, AesParts, CodedConcat
  <2>. QED BY <1>3, <2>1
<1>6. FlattenSeq(gs) = FlattenSeq(hs) \o FlattenSeq(ks)
  <2>1. Blocks(AesBlock, Plain) \subseteq Seq(Plain)
    BY EncoderAssumption, GroupsAreSeqs
  <2>2. AesBlocks \subseteq Seq(Seq(Plain))
    BY EncoderAssumption, GroupsAreSeqs DEF AesBlocks
  <2>3. hs \in Seq(Seq(Plain)) /\ ks \in Seq(Seq(Plain))
    BY <1>3, <2>2
  <2>4. FlattenSeq(hs \o ks) = FlattenSeq(hs) \o FlattenSeq(ks)
    BY <2>3, FlattenConcat
  <2>. QED BY <1>3, <2>4
<1>. HIDE DEF A, B
<1>7. a = A /\ b = B
  <2>1. Len(a) = Len(A)
    BY <1>4
  <2>2. CutTwice(a, b, A, B)
    BY <1>4, UnitsCutTwice
  <2>. QED BY <1>5, <2>1, <2>2 DEF CutTwice
<1>. QED BY <1>3, <1>6, <1>7 DEF A, B

\* An AES decoder above the packed stream of an AES encoder.
AboveCoded(s, R) ==
  /\ s[2].held = <<>> /\ s[2].ready \in Seq(Units)
  /\ \E gs \in AesBlocks : s[1].ready = Coded("AES", gs) /\ R = s[2].ready \o FlattenSeq(gs) /\ (s[2].ended => gs = <<>>)

\* It gives what it decrypted and what is left to decrypt.
LEMMA AesGives ==
  ASSUME NEW s \in Sounds, 2 \in 1..Len(s), NEW R, s[2].method = "AES", Gives(s, 2, R)
  PROVE  AboveCoded(s, R)
<1>. DEFINE i == 2
            d == s[i]
<1>1. i \in Nat /\ i >= 2 /\ Gives(s, i, R) /\ i - 1 = 1
  OBVIOUS
<1>2. d.ready \in Seq(Units) /\ d.method = "AES"
  <2>1. i \in 1..Len(s)
    OBVIOUS
  <2>. HIDE DEF i
  <2>2. d.ready \in Seq(Units)
    BY <2>1, SoundIs
  <2>. QED BY <2>2 DEF i
<1>. HIDE DEF i
<1>3. PICK B \in Seq(Units) : Gives(s, i - 1, B) /\ Level(d, R, B)
  BY <1>1, GivesDown
<1>4. B = s[1].ready
  BY <1>1, <1>3, SourceGives
<1>5. AesLevel(d, R, B)
  BY <1>2, <1>3 DEF Level
<1>6. d.held = <<>>
  BY <1>5 DEF AesLevel
<1>7. PICK gs \in AesBlocks : B = Coded("AES", gs) /\ R = d.ready \o FlattenSeq(gs) /\ (d.ended => gs = <<>>)
  BY <1>5 DEF AesLevel, AesBlocks
<1>. QED BY <1>2, <1>4, <1>6, <1>7 DEF AboveCoded, i

\* The converse.
LEMMA AesGiven ==
  ASSUME NEW s \in Sounds, 2 \in 1..Len(s), NEW d \in Decoders, d.method = "AES", d.held = <<>>,
         NEW gs \in AesBlocks, s[1].ready = Coded("AES", gs), d.ended => gs = <<>>
  PROVE  Gives(With(s, 2, d), 2, d.ready \o FlattenSeq(gs)) /\ d.ready \o FlattenSeq(gs) \in Seq(Units)
<1>. DEFINE i == 2
            h == i - 1
            B == Coded("AES", gs)
            p == FlattenSeq(gs)
            R == d.ready \o p
<1>1. i \in 2..Len(s) /\ h = 1 /\ Len(s) > 0
  BY SoundIs
<1>2. Gives(s, h, B)
  <2>1. Gives(s, 1, s[1].ready)
    BY <1>1, GivesSource
  <2>. QED BY <1>1, <2>1
<1>3. AesLevel(d, R, B)
  <2>. HIDE DEF h, i
  <2>. QED BY DEF AesLevel, AesBlocks
<1>4. R \in Seq(Units)
  <2>1. p \in Seq(Units) /\ d.ready \in Seq(Units)
    BY DecryptsBlocks, UnitsAre DEF Decrypts, Decoders
  <2>. DEFINE q == d.ready
  <2>. HIDE DEF p, q
  <2>2. Joined(q, p)
    BY <2>1, UnitsJoined DEF q
  <2>. QED BY <2>2 DEF Joined, q
<1>. HIDE DEF R, B, h
<1>5. Level(d, R, B)
  <2>1. d.method \notin Framed /\ d.method \in {"COPY", "SWAP2", "AES"}
    BY DEF Framed
  <2>. QED BY <1>3, <2>1 DEF Level
<1>. HIDE DEF i
<1>6. Gives(With(s, i, d), i, R)
  BY <1>1, <1>2, <1>4, <1>5, GivesWith DEF h
<1>. QED BY <1>4, <1>6 DEF i, R

\* A reader that gives all that is asked for: the source.
FullReader(read) ==
  \A s \in Sounds : \A k \in Nat \ {0} : \A R :
    1 \in 1..Len(s) /\ Gives(s, 1, R) => GetsAll(read[s][k], 1, k, R)
AesAbove(read, s) ==
  /\ s \in Sounds /\ 2 \in 1..Len(s) /\ s[2].method = "AES"
  /\ SaneReader(read, 1) /\ GivesCipher(read) /\ FullReader(read)
BlocksRead(in, s, gs) ==
  /\ in.stack \in Sounds /\ in.stack[2] = s[2] /\ 2 \in 1..Len(in.stack) /\ in.ok
  /\ in.got = <<>> => s[1].ready = <<>> /\ in.stack[1].ready = <<>>
  /\ \E hs \in AesBlocks : \E ks \in AesBlocks :
       in.got = Coded("AES", hs) /\ in.stack[1].ready = Coded("AES", ks) /\ FlattenSeq(gs) = FlattenSeq(hs) \o FlattenSeq(ks)

\* What the AES decoder reads of its source is whole blocks.
LEMMA BlocksFromSource ==
  ASSUME NEW read, NEW s, AesAbove(read, s), NEW gs \in AesBlocks, s[1].ready = Coded("AES", gs)
  PROVE  BlocksRead(read[s][InBuffer], s, gs)
<1>. DEFINE in == read[s][InBuffer]
            B == Coded("AES", gs)
            a == in.got
            b == in.stack[1].ready
            k == InBuffer
<1>1. s \in Sounds /\ 2 \in 1..Len(s) /\ 1 \in 1..Len(s) /\ Len(s) > 0 /\ Len(s) \in Nat
  BY SoundIs DEF AesAbove
<1>2. k \in Nat \ {0} /\ k % AesBlock = 0 /\ AesBlock \in Nat \ {0}
  BY DecoderAssumption, EncoderAssumption
<1>3. Gives(s, 1, B)
  BY <1>1, GivesSource
<1>. HIDE DEF B, k
<1>4. GetsAll(read[s][k], 1, k, B)
  BY <1>1, <1>2, <1>3 DEF AesAbove, FullReader
<1>5. Kept(s, read[s][k].stack, 1) /\ read[s][k].got \in Seq(Units)
  <2>. DEFINE i == 1
  <2>1. i \in 1..Len(s) /\ SaneReader(read, i)
    BY <1>1 DEF AesAbove
  <2>. HIDE DEF i
  <2>2. Kept(s, read[s][k].stack, i) /\ read[s][k].got \in Seq(Units)
    BY <1>1, <1>2, <2>1, SaneRead
  <2>. QED BY <2>2 DEF i
<1>6. GetsAll(in, 1, k, B) /\ Kept(s, in.stack, 1) /\ a \in Seq(Units)
  BY <1>4, <1>5 DEF k
<1>. HIDE DEF in
<1>7. in.stack \in Sounds /\ in.stack[2] = s[2] /\ 2 \in 1..Len(in.stack) /\ 1 \in 1..Len(in.stack)
  <2>1. in.stack \in Sounds /\ Len(in.stack) = Len(s) /\ (\A j \in 1..Len(s) : j > 1 => in.stack[j] = s[j])
    BY <1>6, KeptIs
  <2>. QED BY <1>1, <2>1
<1>8. PICK rest : Left(in, 1, B, rest) /\ (Len(in.got) = k \/ rest = <<>>)
  BY <1>6 DEF GetsAll
<1>9. rest \in Seq(Units) /\ B = a \o rest /\ in.ok /\ rest = b
  BY <1>8, SourceGives DEF Left
<1>. HIDE DEF b, a
<1>10. a = <<>> => B = <<>> /\ b = <<>>
  <2>. SUFFICES ASSUME a = <<>> PROVE B = <<>> /\ b = <<>>
    OBVIOUS
  <2>1. Len(a) = 0
    OBVIOUS
  <2>2. b = <<>>
    BY <1>2, <1>8, <1>9, <2>1 DEF a
  <2>. QED BY <1>9, <2>2
<1>11. PICK m \in Nat : Len(a) = AesBlock * m
  <2>1. CASE Len(a) = k
    <3>1. k \div AesBlock \in Nat /\ k = AesBlock * (k \div AesBlock) + (k % AesBlock)
      BY <1>2, Division
    <3>. DEFINE q == k \div AesBlock
    <3>2. q \in Nat /\ AesBlock * q \in Nat /\ k = AesBlock * q + 0
      BY <1>2, <3>1
    <3>. HIDE DEF q
    <3>3. k = AesBlock * q
      BY <3>2
    <3>. QED BY <2>1, <3>2, <3>3
  <2>2. CASE Len(a) # k
    <3>1. rest = <<>>
      BY <1>8, <2>2 DEF a
    <3>2. a \o <<>> = a
      BY <1>6, UnitsJoined DEF Joined, a
    <3>3. B = a
      BY <1>9, <3>1, <3>2
    <3>4. Len(B) = AesBlock * Len(gs) /\ Len(gs) \in Nat
      BY DecryptsBlocks, LenProperties DEF Decrypts, B, AesBlocks
    <3>. QED BY <3>3, <3>4
  <2>. QED BY <2>1, <2>2
<1>12. \E hs \in AesBlocks : \E ks \in AesBlocks :
         a = Coded("AES", hs) /\ b = Coded("AES", ks) /\ FlattenSeq(gs) = FlattenSeq(hs) \o FlattenSeq(ks)
  <2>1. Coded("AES", gs) = a \o b /\ a \in Seq(Units) /\ b \in Seq(Units)
    BY <1>6, <1>9 DEF B, a
  <2>. QED BY <1>11, <2>1, AesCut
<1>13. BlocksRead(in, s, gs)
  BY <1>7, <1>9, <1>10, <1>12 DEF BlocksRead, a, b, B
<1>. QED BY <1>13 DEF in

\* What a call of get_more_data leaves.
MoreDone(x, R) == x.ok /\ Gives(x.stack, 2, R) /\ (x.stack[2].ready # <<>> \/ R = <<>>)
ABlock(x, r) == r.stack[2].ready = <<>> => x.stack[2].ready = <<>> \/ Len(x.stack[2].ready) >= AesBlock

\* A call of get_more_data on what is there: there is something to hand out, or the end.
LEMMA MoreWell ==
  ASSUME NEW read, NEW r, NEW R, AesAbove(read, r.stack), r.ok, Gives(r.stack, 2, R)
  PROVE  MoreDone(get_more_data(read, r, 2), R) /\ ABlock(get_more_data(read, r, 2), r)
<1>. DEFINE t == r.stack
            s == t[2]
            in == read[t][InBuffer]
            u == in.stack
            x == get_more_data(read, r, 2)
<1>1. t \in Sounds /\ 2 \in 1..Len(t) /\ s.method = "AES"
  BY DEF AesAbove
<1>2. AboveCoded(t, R)
  BY <1>1, AesGives
<1>3. s.held = <<>> /\ s.ready \in Seq(Units)
  BY <1>2 DEF AboveCoded
<1>4. PICK gs \in AesBlocks : t[1].ready = Coded("AES", gs) /\ R = s.ready \o FlattenSeq(gs) /\ (s.ended => gs = <<>>)
  BY <1>2 DEF AboveCoded
<1>5. FlattenSeq(gs) \in Seq(Plain) /\ FlattenSeq(gs) \in Seq(Units)
  BY DecryptsBlocks, UnitsAre DEF Decrypts
<1>6. CASE s.ready # <<>> \/ s.ended
  <2>1. x = r
    BY <1>6, Zenon DEF get_more_data
  <2>2. s.ready # <<>> \/ R = <<>>
    <3>. SUFFICES ASSUME s.ready = <<>> PROVE R = <<>>
      OBVIOUS
    <3>1. gs = <<>>
      BY <1>4, <1>6
    <3>2. FlattenSeq(gs) = <<>>
      BY <3>1, NoFrames
    <3>. QED BY <1>4, <3>2
  <2>3. MoreDone(r, R)
    BY <2>2 DEF MoreDone
  <2>4. ABlock(r, r)
    BY DEF ABlock
  <2>. QED BY <2>1, <2>3, <2>4
<1>7. CASE ~(s.ready # <<>> \/ s.ended)
  <2>1. s.ready = <<>> /\ ~s.ended
    BY <1>7
  <2>2. BlocksRead(in, t, gs)
    BY <1>4, BlocksFromSource
  <2>3. /\ u \in Sounds /\ u[2] = s /\ 2 \in 1..Len(u) /\ in.ok
        /\ in.got = <<>> => t[1].ready = <<>> /\ u[1].ready = <<>>
    BY <2>2 DEF BlocksRead
  <2>4. PICK hs \in AesBlocks, ks \in AesBlocks :
          in.got = Coded("AES", hs) /\ u[1].ready = Coded("AES", ks) /\ FlattenSeq(gs) = FlattenSeq(hs) \o FlattenSeq(ks)
    BY <2>2 DEF BlocksRead
  <2>5. u[2] \in Decoders /\ DOMAIN u = 1..Len(u) /\ u[2].pending_len \in Nat
    BY <2>3, SoundIs
  <2>6. R = FlattenSeq(gs)
    BY <1>4, <1>5, <2>1, UnitsJoined DEF Joined
  <2>7. <<>> \in Seq(Units) /\ <<>> \in AesBlocks
    BY DEF AesBlocks
  <2>8. s.held \o in.got = in.got
    BY <1>3, ConcatEmptySeq
  <2>9. CASE in.got = <<>>
    <3>. DEFINE d == SetEnded(u[2])
                es == <<>>
                new == Result(With(u, 2, d), <<>>, s.held = <<>>)
    <3>1. x = Result([u EXCEPT ![2].ended = TRUE], <<>>, s.held = <<>>)
      BY <1>7, <2>3, <2>9, Zenon DEF get_more_data
    <3>2. [u EXCEPT ![2].ended = TRUE] = With(u, 2, d)
      BY EditsAre
    <3>3. x = new
      BY <3>1, <3>2
    <3>4. gs = <<>>
      <4>1. t[1].ready = <<>>
        BY <2>3, <2>9
      <4>2. Len(Coded("AES", gs)) = AesBlock * Len(gs) /\ Len(Coded("AES", gs)) = 0
        BY <1>4, <4>1, DecryptsBlocks DEF Decrypts
      <4>3. Len(gs) \in Nat
        BY LenProperties DEF AesBlocks
      <4>4. Len(gs) = 0
        <5>. DEFINE l == Len(gs)
        <5>1. AesBlock * l <= AesBlock * 0 /\ l \in Nat
          BY <4>2, <4>3, EncoderAssumption
        <5>. HIDE DEF l
        <5>2. l <= 0
          BY <5>1, EncoderAssumption, Multiples
        <5>. QED BY <5>1, <5>2 DEF l
      <4>. QED BY <4>4 DEF AesBlocks
    <3>5. R = <<>> /\ FlattenSeq(es) = <<>> /\ Coded("AES", es) = <<>>
      BY <2>6, <3>4, NoFrames, CodedEmpty
    <3>6. d \in Decoders /\ d.method = "AES" /\ d.held = <<>> /\ d.ready = <<>>
      <4>. DEFINE c == u[2]
      <4>1. c \in Decoders /\ c.method = "AES" /\ c.held = <<>> /\ c.ready = <<>>
        BY <1>1, <1>3, <2>1, <2>3, <2>5
      <4>. HIDE DEF c
      <4>2. SetEnded(c).held = c.held /\ SetEnded(c).ready = c.ready /\ SetEnded(c).method = c.method /\ SetEnded(c) \in Decoders
        BY <2>7, <4>1, MoreFieldsAre
      <4>. QED BY <4>1, <4>2 DEF c
    <3>7. Gives(With(u, 2, d), 2, d.ready \o FlattenSeq(es))
      <4>1. u[1].ready = Coded("AES", es) /\ es \in AesBlocks
        BY <2>3, <2>7, <2>9, <3>5
      <4>. HIDE DEF es, d, u
      <4>2. d.ended => es = <<>>
        BY DEF es
      <4>. QED BY <2>3, <3>6, <4>1, <4>2, AesGiven
    <3>8. d.ready \o FlattenSeq(es) = R
      BY <3>5, <3>6
    <3>9. new.ok = TRUE /\ new.stack = With(u, 2, d) /\ new.stack[2] = d
      <4>1. With(u, 2, d)[2] = d
        BY <2>3, <3>6, WithIs
      <4>2. s.held = <<>>
        BY <1>3
      <4>. DEFINE ok == s.held = <<>>
      <4>3. ok = TRUE
        BY <4>2
      <4>. HIDE DEF ok, d, u
      <4>. QED BY <4>1, <4>3 DEF Result, ok
    <3>. HIDE DEF new, es, d
    <3>10. MoreDone(new, R)
      BY <3>5, <3>7, <3>8, <3>9 DEF MoreDone
    <3>11. ABlock(new, r)
      BY <3>6, <3>9 DEF ABlock
    <3>. QED BY <3>3, <3>10, <3>11
  <2>10. CASE in.got # <<>>
    <3>. DEFINE p == FlattenSeq(hs)
                es == <<>>
                d == Decrypted(u[2], p, es)
                new == Result(With(u, 2, d), <<>>, TRUE)
                G == Decrypt(Groups(in.got, AesBlock))
                E == Rest(in.got, AesBlock)
    <3>1. x = Result([u EXCEPT ![2].ready = Decrypt(Groups(s.held \o in.got, AesBlock)), ![2].held = Rest(s.held \o in.got, AesBlock)], <<>>, TRUE)
      BY <1>3, <1>7, <2>3, <2>10, Zenon DEF get_more_data
    <3>2. G = p /\ E = es
      BY <2>4, DecryptsBlocks DEF Decrypts
    <3>3. [u EXCEPT ![2].ready = G, ![2].held = E] = With(u, 2, Decrypted(u[2], G, E))
      <4>1. 2 \in DOMAIN u
        BY <2>3, <2>5
      <4>. DEFINE i == 2
      <4>2. i \in DOMAIN u
        BY <4>1
      <4>. HIDE DEF G, E, u, i
      <4>3. [u EXCEPT ![i].ready = G, ![i].held = E] = With(u, i, Decrypted(u[i], G, E))
        BY <4>2 DEF With, Decrypted
      <4>. QED BY <4>3 DEF i
    <3>4. x = new
      BY <2>8, <3>1, <3>2, <3>3
    <3>5. p \in Seq(Units) /\ Len(p) = AesBlock * Len(hs) /\ Len(in.got) = AesBlock * Len(hs)
      BY <2>4, DecryptsBlocks, UnitsAre DEF Decrypts
    <3>6. p # <<>> /\ Len(p) >= AesBlock
      <4>. DEFINE l == Len(hs)
      <4>1. l \in Nat
        BY LenProperties DEF AesBlocks
      <4>2. l # 0
        <5>. SUFFICES ASSUME l = 0 PROVE FALSE
          OBVIOUS
        <5>1. hs = <<>>
          BY DEF AesBlocks
        <5>. QED BY <2>4, <2>10, <5>1, CodedEmpty
      <4>. HIDE DEF l
      <4>3. AesBlock * 1 <= AesBlock * l
        <5>1. 1 <= l
          BY <4>1, <4>2
        <5>. DEFINE one == 1
        <5>2. one \in Nat /\ one <= l
          BY <5>1
        <5>. HIDE DEF one
        <5>3. AesBlock * one <= AesBlock * l
          BY <4>1, <5>2, EncoderAssumption, ProductOrder
        <5>. QED BY <5>3 DEF one
      <4>4. Len(p) >= AesBlock
        BY <3>5, <4>3, EncoderAssumption DEF l
      <4>5. Len(p) # 0
        BY <4>4, EncoderAssumption
      <4>. QED BY <4>4, <4>5
    <3>. HIDE DEF p
    <3>7. d \in Decoders /\ d.method = "AES" /\ d.held = <<>> /\ d.ready = p /\ ~d.ended
      <4>. DEFINE c == u[2]
      <4>1. c \in Decoders /\ c.method = "AES" /\ ~c.ended
        BY <1>1, <2>1, <2>3, <2>5
      <4>. HIDE DEF c
      <4>2. es \in Seq(Units)
        BY <2>7
      <4>. HIDE DEF es
      <4>3. /\ Decrypted(c, p, es) \in Decoders /\ Decrypted(c, p, es).ready = p
            /\ Decrypted(c, p, es).held = es /\ Decrypted(c, p, es).method = c.method
            /\ Decrypted(c, p, es).ended = c.ended
        BY <3>5, <4>1, <4>2 DEF Decoders, Decrypted
      <4>. QED BY <4>1, <4>3 DEF c, es
    <3>. HIDE DEF d
    <3>8. Gives(With(u, 2, d), 2, d.ready \o FlattenSeq(ks))
      <4>1. u[1].ready = Coded("AES", ks)
        BY <2>4
      <4>. HIDE DEF u
      <4>. QED BY <2>3, <3>7, <4>1, AesGiven
    <3>9. d.ready \o FlattenSeq(ks) = R
      BY <2>4, <2>6, <3>7 DEF p
    <3>10. new.ok = TRUE /\ new.stack = With(u, 2, d) /\ new.stack[2] = d
      <4>1. With(u, 2, d)[2] = d
        BY <2>3, <3>7, WithIs
      <4>. QED BY <4>1 DEF Result
    <3>. HIDE DEF new
    <3>11. MoreDone(new, R)
      BY <3>6, <3>7, <3>8, <3>9, <3>10 DEF MoreDone
    <3>12. ABlock(new, r)
      BY <3>6, <3>7, <3>10 DEF ABlock
    <3>. QED BY <3>4, <3>11, <3>12
  <2>. QED BY <2>9, <2>10
<1>. QED BY <1>6, <1>7

\* A read that takes from what a decoder has ready, Y behind it.
TakenOf(x, i, ready, Y, k) ==
  \E rest : Left(x, i, ready \o Y, rest) /\ (Len(x.got) = k \/ (rest = Y /\ Len(x.got) = Len(ready)))

\* Take is one, of a decoder that gives Y behind what it has ready.
LEMMA TakeLeft ==
  ASSUME NEW t \in Sounds, NEW i \in 1..Len(t), NEW k \in Nat, NEW Y \in Seq(Units),
         \A u \in Seq(Units) : Gives(With(t, i, SetReady(t[i], u)), i, u \o Y)
  PROVE  TakenOf(Take(t, i, k), i, t[i].ready, Y, k)
<1>. DEFINE ready == t[i].ready
            n == AtMost(k, Len(ready))
            x == Take(t, i, k)
            g == First(ready, n)
            u == From(ready, n)
            W == With(t, i, SetReady(t[i], u))
            rest == u \o Y
<1>1. x.got = g /\ x.ok = TRUE /\ x.stack = W /\ n \in 0..Len(ready) /\ ready \in Seq(Units)
  BY TakeIs
<1>2. n = k \/ n = Len(ready)
  <2>1. Len(ready) \in Nat
    BY <1>1, LenProperties
  <2>. HIDE DEF ready
  <2>. QED BY <2>1, AtMostIs
<1>. HIDE DEF x, ready, n
<1>3. g \in Seq(Units) /\ Len(g) = n /\ u \in Seq(Units) /\ Len(u) = Len(ready) - n /\ g \o u = ready
  BY <1>1, UnitsCut DEF CutAt
<1>4. Gives(W, i, rest)
  BY <1>3
<1>. HIDE DEF W, g, u
<1>5. rest \in Seq(Units)
  BY <1>3, UnitsJoined DEF Joined
<1>6. ready \o Y = g \o rest
  <2>1. Associates(g, u, Y)
    BY <1>3, Associate
  <2>. QED BY <1>3, <2>1 DEF Associates
<1>7. n = Len(ready) => rest = Y
  <2>. SUFFICES ASSUME n = Len(ready) PROVE rest = Y
    OBVIOUS
  <2>1. Len(ready) \in Nat
    BY <1>1, LenProperties
  <2>2. Len(u) = 0
    BY <1>3, <2>1
  <2>3. u = <<>>
    BY <1>3, <2>2
  <2>. QED BY <2>3, ConcatEmptySeq
<1>. HIDE DEF rest
<1>8. Left(x, i, ready \o Y, rest)
  BY <1>1, <1>4, <1>5, <1>6 DEF Left
<1>9. Len(x.got) = k \/ (rest = Y /\ Len(x.got) = Len(ready))
  BY <1>1, <1>2, <1>3, <1>7
<1>10. TakenOf(x, i, ready, Y, k)
  BY <1>8, <1>9 DEF TakenOf
<1>. QED BY <1>10 DEF x, ready

\* It gets something unless there is nothing.
LEMMA TakenSome ==
  ASSUME NEW x, NEW i, NEW ready \in Seq(Units), NEW Y \in Seq(Units), NEW k \in Nat \ {0},
         x.got \in Seq(Units), ready # <<>> \/ Y = <<>>, TakenOf(x, i, ready, Y, k)
  PROVE  GetsSome(x, i, ready \o Y)
<1>1. PICK rest : Left(x, i, ready \o Y, rest) /\ (Len(x.got) = k \/ (rest = Y /\ Len(x.got) = Len(ready)))
  BY DEF TakenOf
<1>2. ASSUME x.got = <<>> PROVE ready \o Y = <<>>
  <2>1. Len(x.got) = 0
    BY <1>2
  <2>2. Len(ready) = 0
    BY <1>1, <2>1
  <2>3. Joined(ready, Y)
    BY UnitsJoined
  <2>. QED BY <2>2, <2>3 DEF Joined
<1>. QED BY <1>1, <1>2 DEF GetsSome

\* It gets all that was asked for when enough is ready, or nothing behind it.
LEMMA TakenAll ==
  ASSUME NEW x, NEW i, NEW ready \in Seq(Units), NEW Y \in Seq(Units), NEW k \in Nat \ {0},
         Len(x.got) <= k, x.got \in Seq(Units), Len(ready) >= k \/ Y = <<>>, TakenOf(x, i, ready, Y, k)
  PROVE  GetsAll(x, i, k, ready \o Y)
<1>1. PICK rest : Left(x, i, ready \o Y, rest) /\ (Len(x.got) = k \/ (rest = Y /\ Len(x.got) = Len(ready)))
  BY DEF TakenOf
<1>2. Len(x.got) = k \/ rest = <<>>
  <2>1. Len(x.got) \in Nat /\ Len(ready) \in Nat
    BY LenProperties
  <2>. QED BY <1>1, <2>1
<1>. QED BY <1>1, <1>2 DEF GetsAll

\* Taking from an AES decoder.
LEMMA AesTake ==
  ASSUME NEW t \in Sounds, 2 \in 1..Len(t), t[2].method = "AES", NEW R, Gives(t, 2, R), NEW k \in Nat
  PROVE  \E Y \in Seq(Units) : R = t[2].ready \o Y /\ TakenOf(Take(t, 2, k), 2, t[2].ready, Y, k)
<1>. DEFINE c == t[2]
            i == 2
<1>1. AboveCoded(t, R)
  BY AesGives
<1>2. c.held = <<>> /\ c.ready \in Seq(Units)
  BY <1>1 DEF AboveCoded
<1>3. PICK gs \in AesBlocks : t[1].ready = Coded("AES", gs) /\ R = c.ready \o FlattenSeq(gs) /\ (c.ended => gs = <<>>)
  BY <1>1 DEF AboveCoded
<1>. DEFINE Y == FlattenSeq(gs)
<1>4. Y \in Seq(Units)
  BY DecryptsBlocks, UnitsAre DEF Decrypts
<1>5. c \in Decoders /\ c.method = "AES"
  <2>1. i \in 1..Len(t)
    OBVIOUS
  <2>. HIDE DEF i
  <2>2. t[i] \in Decoders
    BY <2>1, SoundIs
  <2>. QED BY <2>2 DEF i
<1>6. ASSUME NEW u \in Seq(Units) PROVE Gives(With(t, i, SetReady(t[i], u)), i, u \o Y)
  <2>. DEFINE d == SetReady(c, u)
  <2>1. d \in Decoders /\ d.method = "AES" /\ d.held = <<>> /\ d.ready = u /\ d.ended = c.ended
    <3>. HIDE DEF c
    <3>. QED BY <1>2, <1>5 DEF Decoders, SetReady
  <2>. HIDE DEF d
  <2>2. Gives(With(t, 2, d), 2, d.ready \o FlattenSeq(gs))
    BY <1>3, <2>1, AesGiven
  <2>. QED BY <2>1, <2>2 DEF d
<1>. HIDE DEF Y
<1>7. TakenOf(Take(t, i, k), i, t[i].ready, Y, k)
  <2>1. i \in 1..Len(t)
    OBVIOUS
  <2>. HIDE DEF i
  <2>. QED BY <1>4, <1>6, <2>1, TakeLeft
<1>8. R = c.ready \o Y
  BY <1>3 DEF Y
<1>. QED BY <1>4, <1>7, <1>8

\* After the two calls of a read there is something to hand out, or the end.
LEMMA AesReadyWell ==
  ASSUME NEW read, NEW s, NEW R, AesAbove(read, s), Gives(s, 2, R),
         NEW x, x = get_more_again(read, get_more_data(read, Result(s, <<>>, TRUE), 2), 2)
  PROVE  /\ MoreDone(x, R)
         /\ s[2].ready = <<>> => x.stack[2].ready = <<>> \/ Len(x.stack[2].ready) >= AesBlock
         /\ x.stack \in Sounds /\ 2 \in 1..Len(x.stack) /\ x.stack[2].method = "AES"
<1>. DEFINE r == Result(s, <<>>, TRUE)
            y == get_more_data(read, r, 2)
<1>1. r.stack = s /\ r.ok
  BY DEF Result
<1>2. \A q : AesAbove(read, q.stack) => AesAbove(read, get_more_data(read, q, 2).stack)
  <2>. SUFFICES ASSUME NEW q, AesAbove(read, q.stack) PROVE AesAbove(read, get_more_data(read, q, 2).stack)
    OBVIOUS
  <2>. DEFINE i == 2
              t == q.stack
              n == get_more_data(read, q, i).stack
  <2>1. t \in Sounds /\ i \in 2..Len(t) /\ t[i].method = "AES" /\ i \in 1..Len(t)
        /\ SaneReader(read, i - 1) /\ GivesCipher(read) /\ FullReader(read)
    <3>1. t \in Sounds /\ 2 \in 1..Len(t) /\ t[2].method = "AES" /\ SaneReader(read, 1) /\ GivesCipher(read) /\ FullReader(read)
      BY DEF AesAbove
    <3>2. Len(t) \in Nat /\ i - 1 = 1
      BY <3>1, SoundIs
    <3>. QED BY <3>1, <3>2
  <2>. HIDE DEF i
  <2>2. Kept(t, n, i)
    BY <2>1, MoreSane
  <2>. HIDE DEF n, t
  <2>3. n \in Sounds /\ Len(n) = Len(t) /\ n[i].method = "AES"
    BY <2>1, <2>2, KeptIs
  <2>. QED BY <2>1, <2>3 DEF AesAbove, i, n, t
<1>. HIDE DEF r
<1>3. MoreDone(y, R) /\ ABlock(y, r)
  BY <1>1, MoreWell
<1>4. AesAbove(read, y.stack)
  BY <1>1, <1>2
<1>5. y.ok /\ Gives(y.stack, 2, R) /\ (y.stack[2].ready # <<>> \/ R = <<>>)
  BY <1>3 DEF MoreDone
<1>6. s[2].ready = <<>> => y.stack[2].ready = <<>> \/ Len(y.stack[2].ready) >= AesBlock
  BY <1>1, <1>3 DEF ABlock
<1>7. x = get_more_data(read, y, 2)
  <2>1. x = get_more_again(read, y, 2)
    BY DEF r
  <2>. HIDE DEF y
  <2>. QED BY <1>5, <2>1 DEF get_more_again
<1>. HIDE DEF y
<1>8. MoreDone(x, R) /\ ABlock(x, y)
  BY <1>4, <1>5, <1>7, MoreWell
<1>9. y.stack[2].ready # <<>> => x = y
  BY <1>7, Zenon DEF get_more_data
<1>10. AesAbove(read, x.stack)
  BY <1>2, <1>4, <1>7
<1>11. s[2].ready = <<>> => x.stack[2].ready = <<>> \/ Len(x.stack[2].ready) >= AesBlock
  BY <1>6, <1>8, <1>9 DEF ABlock
<1>12. x.stack \in Sounds /\ 2 \in 1..Len(x.stack) /\ x.stack[2].method = "AES"
  BY <1>10 DEF AesAbove
<1>. QED BY <1>8, <1>11, <1>12

\* A read of the AES decoder.
LEMMA AesReadWell ==
  ASSUME NEW read, NEW s, NEW R, AesAbove(read, s), Gives(s, 2, R), NEW k \in Nat \ {0}
  PROVE  /\ GetsSome(AesRead(read, s, 2, k), 2, R)
         /\ s[2].ready = <<>> /\ k <= AesBlock => GetsAll(AesRead(read, s, 2, k), 2, k, R)
<1>. DEFINE x == get_more_again(read, get_more_data(read, Result(s, <<>>, TRUE), 2), 2)
            u == x.stack
            ready == u[2].ready
            r == Take(u, 2, k)
<1>1. /\ MoreDone(x, R)
      /\ s[2].ready = <<>> => ready = <<>> \/ Len(ready) >= AesBlock
      /\ u \in Sounds /\ 2 \in 1..Len(u) /\ u[2].method = "AES"
  BY AesReadyWell
<1>2. AesRead(read, s, 2, k) = TakeIfOk(x, 2, k)
  BY DEF AesRead
<1>. HIDE DEF x
<1>3. x.ok /\ Gives(u, 2, R) /\ (ready # <<>> \/ R = <<>>)
  BY <1>1 DEF MoreDone
<1>4. AesRead(read, s, 2, k) = r
  BY <1>2, <1>3 DEF TakeIfOk
<1>. HIDE DEF u
<1>5. PICK Y \in Seq(Units) : R = ready \o Y /\ TakenOf(r, 2, ready, Y, k)
  BY <1>1, <1>3, AesTake
<1>6. ready \in Seq(Units) /\ r.got \in Seq(Units) /\ Len(r.got) <= k
  <2>. DEFINE i == 2
  <2>1. i \in 1..Len(u)
    BY <1>1
  <2>. HIDE DEF i
  <2>2. u[i].ready \in Seq(Units) /\ Sane(Take(u, i, k), u, i, k)
    BY <1>1, <2>1, SoundIs, TakeSane
  <2>. QED BY <2>2 DEF i, Sane
<1>. HIDE DEF ready, r
<1>7. ready # <<>> \/ Y = <<>>
  <2>1. Joined(ready, Y)
    BY <1>6, UnitsJoined
  <2>. QED BY <1>3, <1>5, <2>1 DEF Joined
<1>8. GetsSome(r, 2, ready \o Y)
  BY <1>5, <1>6, <1>7, TakenSome
<1>9. ASSUME s[2].ready = <<>>, k <= AesBlock PROVE GetsAll(r, 2, k, ready \o Y)
  <2>1. Len(ready) >= k \/ Y = <<>>
    <3>1. Len(ready) \in Nat
      BY <1>6, LenProperties
    <3>. QED BY <1>1, <1>7, <1>9, <3>1, EncoderAssumption DEF ready
  <2>. QED BY <1>5, <1>6, <2>1, TakenAll
<1>. QED BY <1>4, <1>5, <1>8, <1>9

-----------------------------------------------------------------------------
(* Lz4Decoder, BrotliDecoder *)

\* A decoder above frames, one of them decompressed, or none.
AboveFrames(s, i, R) ==
  \E ps \in Packets : \E z \in Zeros :
    /\ Solid(ps) /\ ~s[i].ended /\ s[i].remaining = 0
    /\ Gives(s, i - 1, Framing(ps) \o z) /\ R = s[i].ready \o FlattenSeq(ps)

\* A decoder above frames, behind the header of one that holds p.
InAFrame(s, i, p, R) ==
  \E ps \in Packets : \E z \in Zeros :
    /\ Solid(ps) /\ ~s[i].ended /\ s[i].ready = <<>> /\ s[i].remaining = Len(p) + 1
    /\ (p = <<>> => ps = <<>>)
    /\ Gives(s, i - 1, Append(p, EndMark) \o (Framing(ps) \o z)) /\ R = p \o FlattenSeq(ps)

\* A decoder of frames is at the end, above frames, or in a frame.
LEMMA FramedGives ==
  ASSUME NEW s, NEW i \in Nat, i >= 2, NEW R, s[i].method \in Framed, Gives(s, i, R)
  PROVE  (s[i].ended /\ R = <<>>) \/ AboveFrames(s, i, R) \/ \E p \in Seq(Plain) : InAFrame(s, i, p, R)
<1>1. PICK B \in Seq(Units) : Gives(s, i - 1, B) /\ Level(s[i], R, B)
  BY GivesDown
<1>2. FramedLevel(s[i], R, B)
  BY <1>1 DEF Level
<1>. DEFINE d == s[i]
<1>3. CASE d.ended /\ R = <<>>
  BY <1>3
<1>4. CASE BetweenFrames(d, R, B)
  <2>1. AboveFrames(s, i, R)
    BY <1>1, <1>4 DEF BetweenFrames, AboveFrames
  <2>. QED BY <2>1
<1>5. CASE InFrame(d, R, B)
  <2>1. PICK p \in Seq(Plain), ps \in Packets, z \in Zeros :
          /\ Solid(ps) /\ ~d.ended /\ d.ready = <<>> /\ d.remaining = Len(p) + 1
          /\ p = <<>> => ps = <<>>
          /\ B = Append(p, EndMark) \o (Framing(ps) \o z) /\ R = p \o FlattenSeq(ps)
    BY <1>5 DEF InFrame
  <2>2. InAFrame(s, i, p, R)
    BY <1>1, <2>1 DEF InAFrame
  <2>. QED BY <2>2
<1>. QED BY <1>2, <1>3, <1>4, <1>5 DEF FramedLevel

\* The types of these streams.
LEMMA PartsIn ==
  ASSUME NEW ps \in Packets, NEW z \in Zeros, NEW ready \in Seq(Units)
  PROVE  /\ ready \o FlattenSeq(ps) \in Seq(Units) /\ FlattenSeq(ps) \in Seq(Units)
         /\ Framing(ps) \o z \in Seq(Units) /\ Framing(ps) \in Seq(Units)
         /\ z \in Seq(Units) /\ z \in Seq(Plain)
<1>. DEFINE p == FlattenSeq(ps)
            f == Framing(ps)
<1>1. p \in Seq(Plain) /\ f \in Seq(Plain)
  BY FramesIn
<1>2. z \in Seq(Plain)
  <2>1. {ZeroByte} \subseteq Plain
    BY PlainUnits
  <2>. QED BY <2>1 DEF Zeros
<1>3. p \in Seq(Units) /\ f \in Seq(Units) /\ z \in Seq(Units)
  BY <1>1, <1>2, UnitsAre
<1>. HIDE DEF p, f
<1>4. Joined(ready, p) /\ Joined(f, z)
  BY <1>3, UnitsJoined
<1>. QED BY <1>2, <1>3, <1>4 DEF Joined, p, f

\* What a decoder above frames gives.
LEMMA FramesGive ==
  ASSUME NEW s \in Sounds, NEW i \in 2..Len(s), NEW R, s[i].method \in Framed, AboveFrames(s, i, R)
  PROVE  Gives(s, i, R) /\ R \in Seq(Units)
<1>. DEFINE d == s[i]
<1>1. PICK ps \in Packets, z \in Zeros :
        /\ Solid(ps) /\ ~d.ended /\ d.remaining = 0
        /\ Gives(s, i - 1, Framing(ps) \o z) /\ R = d.ready \o FlattenSeq(ps)
  BY DEF AboveFrames
<1>2. i \in 1..Len(s) /\ d.ready \in Seq(Units) /\ i \in Nat /\ i >= 2
  BY SoundIs
<1>. DEFINE B == Framing(ps) \o z
<1>3. R \in Seq(Units)
  BY <1>1, <1>2, PartsIn
<1>4. Gives(s, i - 1, B)
  BY <1>1
<1>5. BetweenFrames(d, R, B)
  BY <1>1 DEF BetweenFrames
<1>. HIDE DEF B
<1>6. Level(d, R, B)
  <2>1. d.method \in Framed /\ d.method # "COPY" /\ d.method # "SWAP2" /\ d.method # "AES"
    BY DEF Framed
  <2>. QED BY <1>5, <2>1 DEF Level, FramedLevel
<1>7. Gives(s, i, R)
  BY <1>2, <1>3, <1>4, <1>6, GivesUp
<1>. QED BY <1>3, <1>7

\* What a read in a frame or above frames leaves.
FrameTaken(x, i, ready, k, R) ==
  /\ \E rest : Left(x, i, R, rest) /\ AboveFrames(x.stack, i, rest)
  /\ x.got = <<>> => x.stack[i].ready = <<>> /\ ready = <<>>
  /\ Len(x.got) = k \/ Len(x.got) = Len(ready)

\* Taking from what was decompressed.
LEMMA FrameTake ==
  ASSUME NEW t \in Sounds, NEW i \in 2..Len(t), NEW R, t[i].method \in Framed, AboveFrames(t, i, R), NEW k \in Nat \ {0}
  PROVE  FrameTaken(Take(t, i, k), i, t[i].ready, k, R)
<1>. DEFINE c == t[i]
            ready == c.ready
            n == AtMost(k, Len(ready))
            x == Take(t, i, k)
            g == First(ready, n)
            u == From(ready, n)
            d == SetReady(c, u)
            W == With(t, i, d)
<1>1. i \in 1..Len(t) /\ c \in Decoders /\ Len(t) \in Nat
  BY SoundIs
<1>2. x.got = g /\ x.ok = TRUE /\ x.stack = W /\ n \in 0..Len(ready) /\ ready \in Seq(Units)
  BY <1>1, TakeIs
<1>3. W \in Sounds /\ Len(W) = Len(t) /\ W[i].method = c.method
  <2>1. Sane(x, t, i, k)
    BY <1>1, TakeSane
  <2>. HIDE DEF x, W
  <2>2. W \in Sounds /\ Len(W) = Len(t) /\ W[i].method = t[i].method
    BY <1>1, <1>2, <2>1 DEF Sane, Kept
  <2>. QED BY <2>2
<1>4. n = k \/ n = Len(ready)
  <2>1. Len(ready) \in Nat
    BY <1>2, LenProperties
  <2>. HIDE DEF ready
  <2>. QED BY <2>1, AtMostIs
<1>. HIDE DEF x, n
<1>5. g \in Seq(Units) /\ Len(g) = n /\ u \in Seq(Units) /\ Len(u) = Len(ready) - n /\ g \o u = ready
  BY <1>2, UnitsCut DEF CutAt
<1>. HIDE DEF g, u
<1>6. d \in Decoders /\ d.ready = u /\ d.ended = c.ended /\ d.remaining = c.remaining
  <2>. HIDE DEF c
  <2>. QED BY <1>1, <1>5 DEF Decoders, SetReady
<1>. HIDE DEF d
<1>7. W[i] = d /\ \A j \in 1..Len(t) : j # i => W[j] = t[j]
  BY <1>1, <1>6, WithIs
<1>. HIDE DEF W
<1>8. PICK ps \in Packets, z \in Zeros :
        /\ Solid(ps) /\ ~c.ended /\ c.remaining = 0
        /\ Gives(t, i - 1, Framing(ps) \o z) /\ R = ready \o FlattenSeq(ps)
  BY DEF AboveFrames
<1>. DEFINE Y == FlattenSeq(ps)
            B == Framing(ps) \o z
            h == i - 1
            rest == u \o Y
<1>9. Gives(W, h, B)
  <2>1. h \in Nat \ {0} /\ Gives(t, h, B) /\ \A j \in 1..h : W[j] = t[j]
    BY <1>1, <1>7, <1>8
  <2>. HIDE DEF h, B
  <2>. QED BY <2>1, GivesSame
<1>10. AboveFrames(W, i, rest)
  BY <1>6, <1>7, <1>8, <1>9 DEF AboveFrames
<1>11. Y \in Seq(Units)
  BY <1>2, PartsIn
<1>. HIDE DEF Y
<1>12. rest \in Seq(Units)
  BY <1>5, <1>11, UnitsJoined DEF Joined
<1>13. R = g \o rest
  <2>1. Associates(g, u, Y)
    BY <1>5, <1>11, Associate
  <2>2. R = ready \o Y
    BY <1>8 DEF Y
  <2>. QED BY <1>5, <2>1, <2>2 DEF Associates
<1>. HIDE DEF rest
<1>14. Gives(W, i, rest)
  <2>1. i \in 2..Len(W) /\ W[i].method \in Framed
    BY <1>3
  <2>. QED BY <1>3, <1>10, <2>1, FramesGive
<1>15. Left(x, i, R, rest)
  BY <1>2, <1>12, <1>13, <1>14 DEF Left
<1>16. x.got = <<>> => x.stack[i].ready = <<>> /\ ready = <<>>
  <2>. SUFFICES ASSUME g = <<>> PROVE u = <<>> /\ ready = <<>>
    BY <1>2, <1>6, <1>7
  <2>1. Len(ready) \in Nat /\ n = 0
    BY <1>2, <1>5, LenProperties
  <2>2. Len(ready) = 0
    BY <1>4, <2>1
  <2>3. Len(u) = 0
    BY <1>5, <2>1, <2>2
  <2>. QED BY <1>2, <1>5, <2>2, <2>3
<1>17. Len(x.got) = k \/ Len(x.got) = Len(ready)
  BY <1>2, <1>4, <1>5
<1>18. FrameTaken(x, i, ready, k, R)
  BY <1>2, <1>10, <1>15, <1>16, <1>17 DEF FrameTaken
<1>. QED BY <1>18 DEF x

\* A read that got e whole, before C.
WholeRead(f, i, e, C) == f.ok /\ f.got = e /\ Gives(f.stack, i, C)

\* A read of as many units as e has.
LEMMA ReadWhole ==
  ASSUME NEW f, NEW i, NEW e \in Seq(Units), NEW C \in Seq(Units), NEW n, n = Len(e),
         f.got \in Seq(Units), Len(f.got) <= n, GetsAll(f, i, n, e \o C)
  PROVE  WholeRead(f, i, e, C)
<1>. DEFINE g == f.got
<1>1. PICK rest : Left(f, i, e \o C, rest) /\ (Len(g) = n \/ rest = <<>>)
  BY DEF GetsAll
<1>2. rest \in Seq(Units) /\ e \o C = g \o rest /\ f.ok /\ Gives(f.stack, i, rest)
  BY <1>1 DEF Left
<1>3. g \in Seq(Units) /\ Len(g) <= Len(e)
  OBVIOUS
<1>. HIDE DEF g
<1>4. Len(g) = Len(e)
  <2>1. CASE Len(g) = n
    BY <2>1
  <2>2. CASE rest = <<>>
    <3>1. g \o <<>> = g
      BY <1>3, UnitsJoined DEF Joined
    <3>2. e \o C = g
      BY <1>2, <2>2, <3>1
    <3>3. Joined(e, C)
      BY UnitsJoined
    <3>4. Len(g) \in Nat
      BY <1>3, LenProperties
    <3>. QED BY <1>3, <3>2, <3>3, <3>4 DEF Joined
  <2>. QED BY <1>1, <2>1, <2>2
<1>5. CutTwice(g, rest, e, C)
  BY <1>2, <1>3, UnitsCutTwice
<1>6. g = e /\ rest = C
  BY <1>2, <1>4, <1>5 DEF CutTwice
<1>. QED BY <1>2, <1>6 DEF WholeRead, g

\* The units of a frame behind its header.
LEMMA EndedFrame ==
  ASSUME NEW p \in Seq(Plain), NEW e, e = Append(p, EndMark), NEW n, n = Len(p) + 1
  PROVE  /\ e \in Seq(Units) /\ Len(e) = n /\ n \in Nat \ {0} /\ Last(e) = EndMark /\ First(e, n - 1) = p
         /\ p \in Seq(Units)
<1>1. EndMark \in Plain
  BY PlainUnits
<1>. DEFINE l == Len(p)
<1>2. l \in Nat /\ e \in Seq(Plain) /\ Len(e) = l + 1 /\ e[l + 1] = EndMark /\ \A j \in 1..l : e[j] = p[j]
  BY <1>1, AppendProperties, LenProperties
<1>3. Last(e) = EndMark
  BY <1>2 DEF Last
<1>4. First(e, l) = p
  <2>. DEFINE q == First(e, l)
  <2>1. l \in 0..Len(e)
    BY <1>2
  <2>. HIDE DEF l
  <2>2. q \in Seq(Plain) /\ Len(q) = l /\ \A j \in 1..l : q[j] = e[j]
    BY <1>2, <2>1, CutIs
  <2>. HIDE DEF q
  <2>3. \A j \in 1..Len(q) : q[j] = p[j]
    BY <1>2, <2>2
  <2>4. q = p
    <3>1. Len(q) = Len(p)
      BY <2>2 DEF l
    <3>. QED BY <2>2, <2>3, <3>1, SeqEqual
  <2>. QED BY <2>4 DEF q
<1>5. n = l + 1
  OBVIOUS
<1>. HIDE DEF l
<1>6. n \in Nat \ {0} /\ n - 1 = l
  BY <1>2, <1>5
<1>7. e \in Seq(Units) /\ p \in Seq(Units)
  BY <1>2, UnitsAre
<1>. QED BY <1>2, <1>3, <1>4, <1>5, <1>6, <1>7

\* The decoder when the frame that holds p was decompressed.
LoadedWith(t, i, p) == With(t, i, Loaded(t[i], p))

\* Decompressing it.
LEMMA DecompressIs ==
  ASSUME NEW f, f.stack \in Sounds, NEW i \in 1..Len(f.stack), NEW p \in Seq(Plain), NEW k, NEW n, n = Len(p) + 1,
         f.ok, f.got = Append(p, EndMark)
  PROVE  Decompress(f, n, i, k) = Take(LoadedWith(f.stack, i, p), i, k)
<1>. DEFINE e == Append(p, EndMark)
            s == f.stack
<1>1. Len(e) = n /\ n \in Nat \ {0} /\ Last(e) = EndMark /\ First(e, n - 1) = p
  BY EndedFrame
<1>2. i \in DOMAIN s
  BY SoundIs
<1>3. [s EXCEPT ![i].remaining = 0, ![i].ready = p] = LoadedWith(s, i, p)
  BY <1>2 DEF LoadedWith, With, Loaded
<1>. HIDE DEF e
<1>4. f.got = e /\ ~(Len(e) < n)
  BY <1>1 DEF e
<1>5. Decompress(f, n, i, k) = Take([s EXCEPT ![i].remaining = 0, ![i].ready = p], i, k)
  BY <1>1, <1>4, Zenon DEF Decompress
<1>. QED BY <1>3, <1>5

\* A read in a frame.
LEMMA InFrameRead ==
  ASSUME NEW read, NEW i \in Nat, NEW s \in Sounds, NEW k \in Nat \ {0}, NEW R, NEW p \in Seq(Plain),
         WellReader(read, i - 1), SaneReader(read, i - 1), i \in 2..Len(s), s[i].method \in Framed, InAFrame(s, i, p, R)
  PROVE  FrameTaken(FrameRead(read, s, i, k), i, p, k, R) /\ (p = <<>> => R = <<>>)
<1>. DEFINE c == s[i]
            e == Append(p, EndMark)
            n == Len(p) + 1
            f == Fill(read, s, n)
            h == i - 1
            u == f.stack
            d == Loaded(c, p)
            t == LoadedWith(u, i, p)
<1>1. PICK ps \in Packets, z \in Zeros :
        /\ Solid(ps) /\ ~c.ended /\ c.ready = <<>> /\ c.remaining = n
        /\ (p = <<>> => ps = <<>>)
        /\ Gives(s, h, e \o (Framing(ps) \o z)) /\ R = p \o FlattenSeq(ps)
  BY DEF InAFrame
<1>. DEFINE C == Framing(ps) \o z
            B == e \o C
<1>2. e \in Seq(Units) /\ Len(e) = n /\ n \in Nat \ {0} /\ p \in Seq(Units)
  BY EndedFrame
<1>3. C \in Seq(Units)
  <2>1. <<>> \in Seq(Units)
    OBVIOUS
  <2>. QED BY <2>1, PartsIn
<1>4. i \in 1..Len(s) /\ c \in Decoders /\ h \in Nat \ {0} /\ h \in 1..Len(s) /\ Len(s) \in Nat
  BY SoundIs
<1>5. Gives(s, h, B)
  BY <1>1
<1>6. FrameRead(read, s, i, k) = Decompress(f, n, i, k)
  <2>1. n # 0
    BY <1>2
  <2>. HIDE DEF n
  <2>2. c.remaining = n
    BY <1>1
  <2>. QED BY <2>1, <2>2, Zenon DEF FrameRead
<1>. HIDE DEF B, C, n
<1>7. GetsAll(f, h, n, B) /\ Sane(f, s, h, n)
  <2>1. WellReader(read, h) /\ SaneReader(read, h) /\ n \in Nat
    BY <1>2
  <2>. HIDE DEF h
  <2>. QED BY <1>4, <1>5, <2>1, FillWell, FillSane
<1>. HIDE DEF f
<1>8. Kept(s, u, h) /\ f.got \in Seq(Units) /\ Len(f.got) <= n
  BY <1>7 DEF Sane
<1>9. u \in Sounds /\ u[i] = c /\ i \in 1..Len(u) /\ Len(u) = Len(s)
  <2>. HIDE DEF u, c
  <2>1. Kept(s, u, i - 1)
    BY <1>8
  <2>. QED BY <1>4, <2>1, KeptBelow DEF c
<1>10. WholeRead(f, h, e, C)
  <2>1. n = Len(e) /\ GetsAll(f, h, n, e \o C)
    BY <1>2, <1>7 DEF B
  <2>. HIDE DEF e, h
  <2>. QED BY <1>2, <1>3, <1>8, <2>1, ReadWhole
<1>11. f.ok /\ f.got = e /\ Gives(u, h, C)
  BY <1>10 DEF WholeRead
<1>12. FrameRead(read, s, i, k) = Take(t, i, k)
  <2>1. Decompress(f, n, i, k) = Take(LoadedWith(f.stack, i, p), i, k)
    <3>1. n = Len(p) + 1 /\ f.got = Append(p, EndMark)
      BY <1>11 DEF n
    <3>. QED BY <1>9, <1>11, <3>1, DecompressIs
  <2>. QED BY <1>6, <2>1
<1>. HIDE DEF e
<1>13. d \in Decoders /\ d.ready = p /\ d.remaining = 0 /\ d.method = c.method /\ d.ended = c.ended
       /\ d.held = c.held /\ d.pending_len = c.pending_len
  <2>. HIDE DEF c
  <2>. QED BY <1>2, <1>4 DEF Decoders, Loaded
<1>14. t = With(u, i, d)
  BY <1>9 DEF LoadedWith
<1>15. t[i] = d /\ (\A j \in 1..Len(u) : j # i => t[j] = u[j])
  <2>. HIDE DEF t, d
  <2>. QED BY <1>9, <1>13, <1>14, WithIs
<1>16. t \in Sounds /\ Len(t) = Len(s)
  <2>1. c.pending_len <= Len(c.held)
    BY <1>4, SoundIs
  <2>2. d.method # "AES" /\ i # 1
    BY <1>13 DEF Framed
  <2>. HIDE DEF t, d
  <2>3. d.pending_len <= Len(d.held) /\ d.method = u[i].method
    BY <1>9, <1>13, <2>1
  <2>4. Kept(u, With(u, i, d), i)
    BY <1>9, <1>13, <2>2, <2>3, KeptWith
  <2>. QED BY <1>9, <1>14, <2>4, KeptIs
<1>. HIDE DEF t, d
<1>17. Gives(t, h, C)
  <2>1. \A j \in 1..h : t[j] = u[j]
    BY <1>4, <1>9, <1>15
  <2>. HIDE DEF h, u
  <2>. QED BY <1>4, <1>11, <2>1, GivesSame
<1>18. AboveFrames(t, i, R)
  <2>1. Solid(ps) /\ ~t[i].ended /\ t[i].remaining = 0 /\ Gives(t, i - 1, Framing(ps) \o z) /\ R = t[i].ready \o FlattenSeq(ps)
    BY <1>1, <1>13, <1>15, <1>17 DEF C
  <2>. QED BY <2>1 DEF AboveFrames
<1>19. FrameTaken(Take(t, i, k), i, p, k, R)
  <2>1. i \in 2..Len(t) /\ t[i].method \in Framed /\ t[i].ready = p
    BY <1>13, <1>15, <1>16
  <2>2. FrameTaken(Take(t, i, k), i, t[i].ready, k, R)
    BY <1>16, <1>18, <2>1, FrameTake
  <2>. QED BY <2>1, <2>2
<1>20. p = <<>> => R = <<>>
  <2>. SUFFICES ASSUME p = <<>> PROVE R = <<>>
    OBVIOUS
  <2>1. FlattenSeq(ps) = <<>>
    BY <1>1, NoFrames
  <2>. QED BY <1>1, <2>1
<1>. QED BY <1>12, <1>19, <1>20

\* A header announces what was written in it.
LEMMA HeaderRead ==
  ASSUME NEW n \in Nat
  PROVE  IsHeader(FrameHeader(n)) /\ FrameHeader(n)[1][2] = n /\ Len(FrameHeader(n)) = HeaderSize
<1>1. FrameHeader(n)[1][1] = "head" /\ FrameHeader(n)[1][2] = n
  BY DEF FrameHeader
<1>2. Len(FrameHeader(n)) = HeaderSize
  BY HeaderSizeIs, PlainUnits
<1>. DEFINE u == FrameHeader(n)
<1>3. u[1][1] = "head" /\ u[1][2] = n /\ Len(u) = HeaderSize /\ u = FrameHeader(n)
  BY <1>1, <1>2
<1>. HIDE DEF u
<1>4. IsHeader(u)
  BY <1>3 DEF IsHeader
<1>. QED BY <1>1, <1>2, <1>4 DEF u

\* The padding of a decrypted block is no header.
LEMMA ZerosRead ==
  ASSUME NEW z \in Zeros, NEW got \in Seq(Units), NEW rest \in Seq(Units), z = got \o rest
  PROVE  ~IsHeader(got) /\ (got = <<>> \/ got[1][1] # "head")
<1>1. got = <<>> \/ got[1][1] # "head"
  <2>. SUFFICES ASSUME got # <<>> PROVE got[1][1] # "head"
    OBVIOUS
  <2>1. 1 \in 1..Len(got) /\ Len(got) \in Nat /\ Len(rest) \in Nat
    <3>1. Len(got) \in Nat /\ Len(got) # 0 /\ Len(rest) \in Nat
      BY UnitsJoined DEF Joined
    <3>. QED BY <3>1
  <2>2. z[1] = got[1]
    BY <2>1, ConcatProperties
  <2>3. 1 \in 1..Len(z)
    <3>1. Len(z) = Len(got) + Len(rest)
      BY UnitsJoined DEF Joined
    <3>. QED BY <2>1, <3>1
  <2>4. z[1] = ZeroByte
    BY <2>3 DEF Zeros
  <2>5. got[1] = <<"zero">>
    BY <2>2, <2>4 DEF ZeroByte
  <2>. QED BY <2>5
<1>2. IsHeader(got) => got # <<>> /\ got[1][1] = "head"
  <2>. SUFFICES ASSUME IsHeader(got) PROVE got # <<>>
    BY DEF IsHeader
  <2>1. Len(got) = 2
    BY HeaderSizeIs DEF IsHeader
  <2>2. Len(<<>>) = 0
    OBVIOUS
  <2>3. 0 # 2
    OBVIOUS
  <2>. QED BY <2>1, <2>2, <2>3, Zenon
<1>. QED BY <1>1, <1>2

\* A decoder of frames that reads from a reader that gives what there is.
FrameReader(read, i, s) ==
  WellReader(read, i - 1) /\ SaneReader(read, i - 1) /\ s \in Sounds /\ i \in 2..Len(s) /\ s[i].method \in Framed
ReadUnder(h, s, i, n, B) ==
  /\ GetsAll(h, i - 1, n, B) /\ h.got \in Seq(Units) /\ Len(h.got) <= n /\ h.stack \in Sounds
  /\ i \in 2..Len(h.stack) /\ i \in 1..Len(h.stack) /\ h.stack[i] = s[i] /\ s[i] \in Decoders

\* What it reads of what is below it.
LEMMA UnderFrames ==
  ASSUME NEW read, NEW i \in Nat, NEW s, NEW n \in Nat, NEW B, FrameReader(read, i, s), Gives(s, i - 1, B)
  PROVE  ReadUnder(Fill(read, s, n), s, i, n, B)
<1>. DEFINE f == Fill(read, s, n)
            h == i - 1
            u == f.stack
<1>1. s \in Sounds /\ i \in 2..Len(s) /\ WellReader(read, h) /\ SaneReader(read, h)
  BY DEF FrameReader
<1>2. i \in 1..Len(s) /\ s[i] \in Decoders /\ h \in Nat /\ h \in 1..Len(s) /\ Gives(s, h, B)
  BY <1>1, SoundIs
<1>. HIDE DEF h
<1>3. GetsAll(f, h, n, B) /\ Sane(f, s, h, n)
  BY <1>1, <1>2, FillWell, FillSane
<1>. HIDE DEF f
<1>4. Kept(s, u, h) /\ f.got \in Seq(Units) /\ Len(f.got) <= n
  BY <1>3 DEF Sane
<1>5. u \in Sounds /\ u[i] = s[i] /\ i \in 1..Len(u) /\ Len(u) = Len(s)
  <2>. HIDE DEF u
  <2>1. Kept(s, u, i - 1)
    BY <1>4 DEF h
  <2>. QED BY <1>1, <1>2, <2>1, KeptBelow
<1>6. ReadUnder(f, s, i, n, B)
  BY <1>1, <1>2, <1>3, <1>4, <1>5 DEF ReadUnder, h
<1>. QED BY <1>6 DEF f

\* Where no frame follows, the decoder ends.
LEMMA FramesEnd ==
  ASSUME NEW read, NEW i \in Nat, NEW s, NEW k, NEW z \in Zeros, FrameReader(read, i, s), Gives(s, i - 1, z)
  PROVE  GetsSome(read_next_frame_header(read, Fill(read, s, HeaderSize), i, k), i, <<>>)
<1>. DEFINE h == Fill(read, s, HeaderSize)
            u == h.stack
            d == SetEnded(s[i])
            x == read_next_frame_header(read, h, i, k)
            g == h.got
            e == <<>>
<1>1. ReadUnder(h, s, i, HeaderSize, z)
  <2>1. HeaderSize \in Nat
    BY HeaderSizeIs
  <2>. QED BY <2>1, UnderFrames
<1>. HIDE DEF h
<1>2. /\ GetsAll(h, i - 1, HeaderSize, z) /\ g \in Seq(Units) /\ u \in Sounds
      /\ i \in 2..Len(u) /\ i \in 1..Len(u) /\ u[i] = s[i] /\ s[i] \in Decoders
  BY <1>1 DEF ReadUnder
<1>3. PICK rest : Left(h, i - 1, z, rest)
  BY <1>2 DEF GetsAll
<1>4. rest \in Seq(Units) /\ z = g \o rest /\ h.ok /\ Gives(u, i - 1, rest)
  BY <1>3 DEF Left
<1>5. ~IsHeader(g) /\ (g = <<>> \/ g[1][1] # "head")
  BY <1>2, <1>4, ZerosRead
<1>6. x = Result([u EXCEPT ![i].ended = TRUE], <<>>, g = <<>> \/ g[1][1] # "head")
  BY <1>4, <1>5, Zenon DEF read_next_frame_header
<1>7. [u EXCEPT ![i].ended = TRUE] = With(u, i, d)
  BY <1>2 DEF With, SetEnded
<1>. DEFINE ok == g = <<>> \/ g[1][1] # "head"
<1>8. ok = TRUE
  BY <1>5
<1>. HIDE DEF ok, x
<1>9. x.stack = With(u, i, d) /\ x.got = <<>> /\ x.ok = TRUE
  BY <1>6, <1>7, <1>8 DEF Result, ok
<1>10. d \in Decoders /\ d.method \in Framed /\ d.ended = TRUE
  <2>. DEFINE c == s[i]
  <2>1. c \in Decoders /\ c.method \in Framed
    BY <1>2 DEF FrameReader
  <2>. HIDE DEF c
  <2>2. SetEnded(c) \in Decoders /\ SetEnded(c).method = c.method /\ SetEnded(c).ended = TRUE
    BY <2>1 DEF Decoders, SetEnded
  <2>. QED BY <2>1, <2>2 DEF c
<1>. HIDE DEF d
<1>11. e \in Seq(Units) /\ <<>> \o e = e
  BY ConcatEmptySeq
<1>. HIDE DEF e
<1>12. Level(d, e, rest)
  <2>1. d.method # "COPY" /\ d.method # "SWAP2" /\ d.method # "AES"
    BY <1>10 DEF Framed
  <2>. QED BY <1>10, <2>1 DEF Level, FramedLevel, e
<1>. HIDE DEF u
<1>13. Gives(With(u, i, d), i, e)
  BY <1>2, <1>4, <1>10, <1>11, <1>12, GivesWith
<1>14. Left(x, i, e, e)
  BY <1>9, <1>11, <1>13 DEF Left
<1>15. GetsSome(x, i, e)
  <2>1. x.got = <<>> => e = <<>>
    BY DEF e
  <2>. QED BY <1>14, <2>1 DEF GetsSome
<1>. QED BY <1>15 DEF x, e, h

\* Where one follows, what it holds is handed out.
LEMMA FrameFollows ==
  ASSUME NEW read, NEW i \in Nat, NEW s, NEW k \in Nat \ {0}, NEW z \in Zeros, NEW ps \in Packets, ps # <<>>, Solid(ps),
         FrameReader(read, i, s), Gives(s, i - 1, Framing(ps) \o z), ~s[i].ended, s[i].ready = <<>>
  PROVE  GetsSome(read_next_frame_header(read, Fill(read, s, HeaderSize), i, k), i, FlattenSeq(ps))
<1>. DEFINE c == s[i]
            p == ps[1]
            qs == From(ps, 1)
            n == Len(p) + 1
            H == FrameHeader(n)
            E == Append(p, EndMark)
            F == Framing(qs)
            C == E \o (F \o z)
            R == FlattenSeq(ps)
            h == Fill(read, s, HeaderSize)
            u == h.stack
            d == SetRemaining(c, n)
            v == With(u, i, d)
            x == read_next_frame_header(read, h, i, k)
<1>1. /\ p \in Seq(Plain) /\ qs \in Packets /\ H \in Seq(Plain) /\ E \in Seq(Plain)
      /\ Framing(ps) = H \o (E \o F) /\ R = p \o FlattenSeq(qs)
  BY FramesFront
<1>2. Solid(qs) /\ (p = <<>> => qs = <<>>)
  BY SolidFront
<1>3. n \in Nat
  BY <1>1, LenProperties
<1>4. IsHeader(H) /\ H[1][2] = n /\ Len(H) = HeaderSize
  BY <1>3, HeaderRead
<1>. HIDE DEF p, qs, n
<1>5. F \in Seq(Units) /\ z \in Seq(Units) /\ H \in Seq(Units) /\ E \in Seq(Units)
  <2>1. <<>> \in Seq(Units)
    OBVIOUS
  <2>2. F \in Seq(Units) /\ z \in Seq(Units)
    BY <1>1, <2>1, PartsIn
  <2>. QED BY <1>1, <2>2, UnitsAre
<1>. HIDE DEF H, E, F
<1>6. Framing(ps) \o z = H \o C /\ C \in Seq(Units)
  <2>. DEFINE EF == E \o F
              Fz == F \o z
  <2>1. EF \in Seq(Units) /\ Fz \in Seq(Units)
    BY <1>5, UnitsJoined DEF Joined
  <2>2. EF \o z = E \o Fz
    <3>1. Associates(E, F, z)
      BY <1>5, Associate
    <3>. QED BY <3>1 DEF Associates
  <2>3. Framing(ps) = H \o EF
    BY <1>1
  <2>. HIDE DEF EF
  <2>4. (H \o EF) \o z = H \o (EF \o z)
    <3>1. Associates(H, EF, z)
      BY <1>5, <2>1, Associate
    <3>. QED BY <3>1 DEF Associates
  <2>. HIDE DEF Fz
  <2>5. E \o Fz \in Seq(Units)
    BY <1>5, <2>1, UnitsJoined DEF Joined
  <2>. QED BY <2>2, <2>3, <2>4, <2>5 DEF Fz
<1>. HIDE DEF C
<1>7. ReadUnder(h, s, i, HeaderSize, H \o C)
  <2>1. HeaderSize \in Nat /\ Gives(s, i - 1, H \o C)
    BY <1>6, HeaderSizeIs
  <2>. QED BY <2>1, UnderFrames
<1>. HIDE DEF h
<1>8. /\ GetsAll(h, i - 1, HeaderSize, H \o C) /\ h.got \in Seq(Units) /\ Len(h.got) <= HeaderSize
      /\ u \in Sounds /\ i \in 2..Len(u) /\ i \in 1..Len(u) /\ u[i] = c /\ c \in Decoders
  BY <1>7 DEF ReadUnder
<1>9. WholeRead(h, i - 1, H, C)
  <2>. DEFINE j == i - 1
  <2>1. GetsAll(h, j, HeaderSize, H \o C)
    BY <1>8
  <2>. HIDE DEF j
  <2>2. WholeRead(h, j, H, C)
    BY <1>4, <1>5, <1>6, <1>8, <2>1, ReadWhole
  <2>. QED BY <2>2 DEF j
<1>10. h.ok /\ h.got = H /\ Gives(u, i - 1, C)
  BY <1>9 DEF WholeRead
<1>11. x = FrameRead(read, v, i, k)
  <2>1. x = FrameRead(read, [u EXCEPT ![i].remaining = H[1][2]], i, k)
    BY <1>4, <1>10, Zenon DEF read_next_frame_header
  <2>2. [u EXCEPT ![i].remaining = n] = With(u, i, SetRemaining(u[i], n))
    BY DEF With, SetRemaining
  <2>. QED BY <1>4, <1>8, <2>1, <2>2
<1>12. d \in Decoders /\ d.remaining = n /\ d.method = c.method /\ d.ended = c.ended /\ d.ready = c.ready
       /\ d.held = c.held /\ d.pending_len = c.pending_len
  <2>. HIDE DEF c
  <2>. QED BY <1>3, <1>8 DEF Decoders, SetRemaining
<1>13. s \in Sounds /\ i \in 2..Len(s) /\ c.method \in Framed /\ WellReader(read, i - 1) /\ SaneReader(read, i - 1)
  BY DEF FrameReader
<1>14. c.pending_len <= Len(c.held)
  <2>1. i \in 1..Len(u)
    BY <1>8
  <2>. HIDE DEF u
  <2>. QED BY <1>8, <2>1, SoundIs
<1>15. v \in Sounds /\ Len(v) = Len(u) /\ v[i] = d /\ \A j \in 1..Len(u) : j # i => v[j] = u[j]
  <2>. HIDE DEF d, u, c
  <2>1. v[i] = d /\ \A j \in 1..Len(u) : j # i => v[j] = u[j]
    BY <1>8, <1>12, WithIs
  <2>2. d.method # "AES" /\ i # 1
    BY <1>8, <1>12, <1>13 DEF Framed
  <2>3. d.method = u[i].method /\ d.pending_len <= Len(d.held)
    BY <1>8, <1>12, <1>14
  <2>4. Kept(u, With(u, i, d), i)
    BY <1>8, <1>12, <2>2, <2>3, KeptWith
  <2>5. v \in Sounds /\ Len(v) = Len(u)
    BY <2>4, KeptIs
  <2>. QED BY <2>1, <2>5
<1>. HIDE DEF v, d
<1>16. Gives(v, i - 1, C)
  <2>. DEFINE j == i - 1
  <2>1. j \in Nat \ {0} /\ Gives(u, j, C) /\ \A l \in 1..j : v[l] = u[l]
    <3>1. Len(u) \in Nat
      BY <1>8, LenProperties DEF Sounds, Stacks
    <3>. QED BY <1>8, <1>10, <1>15, <3>1
  <2>. HIDE DEF j, u
  <2>2. Gives(v, j, C)
    BY <2>1, GivesSame
  <2>. QED BY <2>2 DEF j
<1>17. InAFrame(v, i, p, R)
  <2>1. ~v[i].ended /\ v[i].ready = <<>> /\ v[i].remaining = Len(p) + 1
    BY <1>12, <1>15 DEF n
  <2>2. Gives(v, i - 1, Append(p, EndMark) \o (Framing(qs) \o z))
    BY <1>16 DEF C, E, F
  <2>. QED BY <1>1, <1>2, <2>1, <2>2 DEF InAFrame
<1>18. FrameTaken(FrameRead(read, v, i, k), i, p, k, R) /\ (p = <<>> => R = <<>>)
  <2>1. i \in 2..Len(v) /\ v[i].method \in Framed
    BY <1>8, <1>12, <1>13, <1>15
  <2>. HIDE DEF R
  <2>. QED BY <1>1, <1>13, <1>15, <1>17, <2>1, InFrameRead
<1>. HIDE DEF R, x
<1>19. GetsSome(x, i, R)
  <2>1. FrameTaken(x, i, p, k, R)
    BY <1>11, <1>18
  <2>2. (\E rest : Left(x, i, R, rest)) /\ (x.got = <<>> => p = <<>>)
    BY <2>1 DEF FrameTaken
  <2>. QED BY <1>18, <2>2 DEF GetsSome
<1>. QED BY <1>19 DEF x, R, h

\* The next frame is looked for when the one before it has given all it held.
LEMMA NextFrameWell ==
  ASSUME NEW read, NEW i \in Nat, NEW r, NEW R, NEW k \in Nat \ {0}, NEW ready, NEW size,
         FrameReader(read, i, r.stack), FrameTaken(r, i, ready, size, R)
  PROVE  GetsSome(NextFrame(read, r, i, k), i, R)
<1>. DEFINE s == r.stack
            x == read_next_frame_header(read, Fill(read, s, HeaderSize), i, k)
<1>1. PICK rest : Left(r, i, R, rest) /\ AboveFrames(s, i, rest)
  BY DEF FrameTaken
<1>2. r.got = <<>> => s[i].ready = <<>>
  BY DEF FrameTaken
<1>3. r.ok /\ rest \in Seq(Units) /\ R = r.got \o rest
  BY <1>1 DEF Left
<1>4. CASE r.got # <<>>
  <2>1. NextFrame(read, r, i, k) = r
    BY <1>4, Zenon DEF NextFrame
  <2>2. GetsSome(r, i, R)
    BY <1>1, <1>4 DEF GetsSome
  <2>. QED BY <2>1, <2>2
<1>5. CASE r.got = <<>>
  <2>1. NextFrame(read, r, i, k) = x
    BY <1>3, <1>5, Zenon DEF NextFrame
  <2>2. R = rest
    BY <1>3, <1>5, ConcatEmptySeq
  <2>3. PICK ps \in Packets, z \in Zeros :
          /\ Solid(ps) /\ ~s[i].ended /\ s[i].remaining = 0
          /\ Gives(s, i - 1, Framing(ps) \o z) /\ rest = s[i].ready \o FlattenSeq(ps)
    BY <1>1 DEF AboveFrames
  <2>4. R = FlattenSeq(ps)
    <3>1. <<>> \in Seq(Units)
      OBVIOUS
    <3>2. FlattenSeq(ps) \in Seq(Units)
      BY <3>1, PartsIn
    <3>. QED BY <1>2, <1>5, <2>2, <2>3, <3>2, ConcatEmptySeq
  <2>. HIDE DEF s
  <2>5. FrameReader(read, i, s)
    BY DEF s
  <2>6. CASE ps = <<>>
    <3>1. Framing(ps) = <<>> /\ R = <<>>
      BY <2>4, <2>6, NoFrames
    <3>2. Framing(ps) \o z = z
      <4>1. z \in Seq(Plain)
        <5>1. <<>> \in Seq(Units)
          OBVIOUS
        <5>. QED BY <5>1, PartsIn
      <4>. QED BY <3>1, <4>1, ConcatEmptySeq
    <3>3. GetsSome(x, i, <<>>)
      <4>1. Gives(s, i - 1, z)
        BY <2>3, <3>2
      <4>. QED BY <2>5, <4>1, FramesEnd
    <3>. QED BY <2>1, <3>1, <3>3
  <2>7. CASE ps # <<>>
    <3>1. GetsSome(x, i, FlattenSeq(ps))
      BY <1>2, <1>5, <2>3, <2>5, <2>7, FrameFollows DEF s
    <3>. QED BY <2>1, <2>4, <3>1
  <2>. QED BY <2>6, <2>7
<1>. QED BY <1>4, <1>5

\* After a read in a frame the decoder is still one of frames.
LEMMA AfterFrameRead ==
  ASSUME NEW read, NEW i \in Nat, NEW s, NEW k \in Nat \ {0}, FrameReader(read, i, s)
  PROVE  LET r == FrameRead(read, s, i, k)
         IN  FrameReader(read, i, r.stack) /\ r.got \in Seq(Units) /\ Len(r.got) <= k
<1>. DEFINE r == FrameRead(read, s, i, k)
            t == r.stack
<1>1. s \in Sounds /\ i \in 2..Len(s) /\ s[i].method \in Framed /\ WellReader(read, i - 1) /\ SaneReader(read, i - 1)
  BY DEF FrameReader
<1>2. Sane(r, s, i, k)
  BY <1>1, FrameReadSane
<1>. HIDE DEF r
<1>3. Kept(s, t, i) /\ r.got \in Seq(Units) /\ Len(r.got) <= k
  BY <1>2 DEF Sane
<1>4. t \in Sounds /\ Len(t) = Len(s) /\ t[i].method = s[i].method
  <2>1. i \in 1..Len(s)
    BY <1>1, SoundIs
  <2>. QED BY <1>3, <2>1 DEF Kept
<1>5. FrameReader(read, i, t)
  BY <1>1, <1>4 DEF FrameReader
<1>. QED BY <1>3, <1>5 DEF r

\* A read of a decoder of frames.
LEMMA FramedReadWell ==
  ASSUME NEW read, NEW i \in Nat, NEW s, NEW R, NEW k \in Nat \ {0}, FrameReader(read, i, s), Gives(s, i, R)
  PROVE  GetsSome(FramedRead(read, s, i, k), i, R)
<1>. DEFINE c == s[i]
            r == FrameRead(read, s, i, k)
            x == FramedRead(read, s, i, k)
<1>1. s \in Sounds /\ i \in 2..Len(s) /\ i \in 1..Len(s) /\ c.method \in Framed /\ i >= 2
      /\ WellReader(read, i - 1) /\ SaneReader(read, i - 1)
  <2>1. s \in Sounds /\ i \in 2..Len(s) /\ c.method \in Framed /\ WellReader(read, i - 1) /\ SaneReader(read, i - 1)
    BY DEF FrameReader
  <2>. QED BY <2>1, SoundIs
<1>2. FrameReader(read, i, r.stack)
  BY AfterFrameRead
<1>3. ~c.ended => x = NextFrame(read, r, i, k)
  BY Zenon DEF FramedRead
<1>4. (c.ended /\ R = <<>>) \/ AboveFrames(s, i, R) \/ \E p \in Seq(Plain) : InAFrame(s, i, p, R)
  BY <1>1, FramedGives
<1>5. CASE c.ended /\ R = <<>>
  <2>1. x = Result(s, <<>>, TRUE)
    BY <1>5, Zenon DEF FramedRead
  <2>2. x.stack = s /\ x.got = <<>> /\ x.ok = TRUE
    BY <2>1 DEF Result
  <2>. DEFINE e == <<>>
  <2>3. e \in Seq(Units) /\ R = x.got \o e /\ Gives(x.stack, i, e)
    BY <1>5, <2>2, ConcatEmptySeq
  <2>. HIDE DEF e, x
  <2>4. Left(x, i, R, e)
    BY <2>2, <2>3 DEF Left
  <2>5. GetsSome(x, i, R)
    BY <1>5, <2>4 DEF GetsSome
  <2>. QED BY <2>5 DEF x
<1>6. CASE AboveFrames(s, i, R)
  <2>1. ~c.ended /\ c.remaining = 0
    BY <1>6 DEF AboveFrames
  <2>2. r = Take(s, i, k)
    BY <2>1, Zenon DEF FrameRead
  <2>3. FrameTaken(Take(s, i, k), i, c.ready, k, R)
    BY <1>1, <1>6, FrameTake
  <2>4. FrameTaken(r, i, c.ready, k, R)
    BY <2>2, <2>3
  <2>. DEFINE ready == c.ready
  <2>. HIDE DEF r, ready
  <2>5. GetsSome(NextFrame(read, r, i, k), i, R)
    <3>1. FrameTaken(r, i, ready, k, R)
      BY <2>4 DEF ready
    <3>. QED BY <1>2, <3>1, NextFrameWell
  <2>. QED BY <1>3, <2>1, <2>5
<1>7. ASSUME NEW p \in Seq(Plain), InAFrame(s, i, p, R)
      PROVE  GetsSome(x, i, R)
  <2>1. ~c.ended
    BY <1>7 DEF InAFrame
  <2>2. FrameTaken(r, i, p, k, R)
    BY <1>1, <1>7, InFrameRead
  <2>. HIDE DEF r
  <2>3. GetsSome(NextFrame(read, r, i, k), i, R)
    BY <1>2, <2>2, NextFrameWell
  <2>. QED BY <1>3, <2>1, <2>3
<1>. QED BY <1>4, <1>5, <1>6, <1>7

\* In a frame that holds enough, a read gives all that was asked for.
LEMMA FramedPrompt ==
  ASSUME NEW read, NEW i \in Nat, NEW s, NEW R, NEW k \in Nat \ {0}, FrameReader(read, i, s),
         NEW p \in Seq(Plain), InAFrame(s, i, p, R), Len(p) >= k
  PROVE  GetsAll(FramedRead(read, s, i, k), i, k, R)
<1>. DEFINE r == FrameRead(read, s, i, k)
<1>1. s \in Sounds /\ i \in 2..Len(s) /\ s[i].method \in Framed /\ WellReader(read, i - 1) /\ SaneReader(read, i - 1)
  BY DEF FrameReader
<1>2. ~s[i].ended
  BY DEF InAFrame
<1>3. FrameTaken(r, i, p, k, R)
  BY <1>1, InFrameRead
<1>4. r.got \in Seq(Units) /\ Len(r.got) <= k
  BY AfterFrameRead
<1>5. FramedRead(read, s, i, k) = NextFrame(read, r, i, k)
  BY <1>2, Zenon DEF FramedRead
<1>. HIDE DEF r
<1>6. PICK rest : Left(r, i, R, rest)
  BY <1>3 DEF FrameTaken
<1>7. Len(r.got) = k \/ Len(r.got) = Len(p)
  BY <1>3 DEF FrameTaken
<1>8. Len(r.got) = k /\ r.got # <<>>
  <2>1. Len(p) \in Nat /\ Len(r.got) \in Nat
    BY <1>4, LenProperties
  <2>2. Len(r.got) = k
    BY <1>4, <1>7, <2>1
  <2>3. Len(r.got) # 0
    BY <2>2
  <2>. QED BY <2>2, <2>3
<1>9. NextFrame(read, r, i, k) = r
  BY <1>8, Zenon DEF NextFrame
<1>10. GetsAll(r, i, k, R)
  BY <1>6, <1>8 DEF GetsAll
<1>. QED BY <1>5, <1>9, <1>10

-----------------------------------------------------------------------------
(* The stack *)

\* A decoder that copies gives what is below it.
LEMMA CopyUp ==
  ASSUME NEW t, NEW i \in Nat, i >= 2, t[i].method = "COPY", NEW B \in Seq(Units), Gives(t, i - 1, B)
  PROVE  Gives(t, i, B)
<1>1. Level(t[i], B, B)
  <2>1. t[i].method \notin Framed /\ t[i].method \in {"COPY", "SWAP2", "AES"} /\ t[i].method # "SWAP2" /\ t[i].method # "AES"
    BY DEF Framed
  <2>. QED BY <2>1 DEF Level
<1>. QED BY <1>1, GivesUp

\* And only that.
LEMMA CopyDown ==
  ASSUME NEW t, NEW i \in Nat, i >= 2, t[i].method = "COPY", NEW R, Gives(t, i, R)
  PROVE  Gives(t, i - 1, R)
<1>1. PICK B \in Seq(Units) : Gives(t, i - 1, B) /\ Level(t[i], R, B)
  BY GivesDown
<1>2. R = B
  BY <1>1 DEF Level
<1>. QED BY <1>1, <1>2

\* What a read below it left.
LEMMA CopyLeft ==
  ASSUME NEW s \in Sounds, NEW i \in 2..Len(s), s[i].method = "COPY", NEW r, NEW R, NEW rest,
         Kept(s, r.stack, i - 1), Left(r, i - 1, R, rest)
  PROVE  Left(r, i, R, rest)
<1>. DEFINE t == r.stack
<1>1. i \in 1..Len(s) /\ i \in Nat /\ i >= 2
  BY SoundIs
<1>2. t[i] = s[i]
  BY <1>1, KeptBelow
<1>3. rest \in Seq(Units) /\ R = r.got \o rest /\ r.ok /\ Gives(t, i - 1, rest)
  BY DEF Left
<1>. HIDE DEF t
<1>4. Gives(t, i, rest)
  BY <1>1, <1>2, <1>3, CopyUp
<1>. QED BY <1>3, <1>4 DEF Left, t

\* A reader for reader i to read from.
ReadsFrom(read, i) ==
  WellReader(read, i - 1) /\ SaneReader(read, i - 1) /\ (i = 2 => GivesCipher(read) /\ FullReader(read))

\* The methods of decoders that give something.
LEMMA MethodIs ==
  ASSUME NEW s, NEW i \in Nat, i >= 2, NEW R, Gives(s, i, R)
  PROVE  s[i].method \in {"COPY", "SWAP2", "AES"} \cup Framed
<1>1. PICK B \in Seq(Units) : Gives(s, i - 1, B) /\ Level(s[i], R, B)
  BY GivesDown
<1>. QED BY <1>1 DEF Level

\* An AES decoder is above the source.
LEMMA AesAboveIs ==
  ASSUME NEW read, NEW i, NEW s \in Sounds, i \in 2..Len(s), s[i].method = "AES", ReadsFrom(read, i)
  PROVE  i = 2 /\ AesAbove(read, s)
<1>1. i \in 1..Len(s)
  BY SoundIs
<1>2. i = 2
  BY <1>1, SoundIs
<1>3. GivesCipher(read) /\ FullReader(read) /\ SaneReader(read, 1)
  <2>1. i - 1 = 1
    BY <1>2
  <2>. QED BY <1>2, <2>1 DEF ReadsFrom
<1>. QED BY <1>1, <1>2, <1>3 DEF AesAbove

\* A read of any decoder gets something, unless there is nothing.
LEMMA DecoderReadWell ==
  ASSUME NEW read, NEW i \in Nat, NEW s \in Sounds, i \in 2..Len(s), NEW k \in Nat \ {0}, NEW R,
         ReadsFrom(read, i), Gives(s, i, R)
  PROVE  GetsSome(DecoderRead(read, s, i, k), i, R)
<1>1. WellReader(read, i - 1) /\ SaneReader(read, i - 1)
  BY DEF ReadsFrom
<1>2. i \in 1..Len(s) /\ i >= 2 /\ Len(s) \in Nat
  BY SoundIs
<1>3. CASE s[i].method = "COPY"
  <2>. DEFINE r == read[s][k]
              h == i - 1
  <2>1. Gives(s, i - 1, R)
    BY <1>2, <1>3, CopyDown
  <2>2. h \in 1..Len(s) /\ Gives(s, h, R) /\ WellReader(read, h) /\ SaneReader(read, h)
    BY <1>1, <1>2, <2>1
  <2>. HIDE DEF h
  <2>3. GetsSome(r, h, R) /\ Kept(s, r.stack, h)
    BY <2>2, WellRead, SaneRead
  <2>. HIDE DEF r
  <2>4. PICK rest : Left(r, h, R, rest) /\ (r.got = <<>> => R = <<>>)
    BY <2>3 DEF GetsSome
  <2>5. Left(r, i, R, rest)
    <3>1. Left(r, i - 1, R, rest) /\ Kept(s, r.stack, i - 1)
      BY <2>3, <2>4 DEF h
    <3>. QED BY <1>3, <3>1, CopyLeft
  <2>6. GetsSome(r, i, R)
    BY <2>4, <2>5 DEF GetsSome
  <2>7. DecoderRead(read, s, i, k) = r
    BY <1>3, DecoderReadIs DEF r
  <2>. QED BY <2>6, <2>7
<1>4. CASE s[i].method = "SWAP2"
  <2>. DEFINE r == SwapRead(read, s, i, k)
  <2>1. s[i].method \in Swaps /\ k \in Nat
    BY <1>4 DEF Swaps
  <2>2. DecoderRead(read, s, i, k) = r
    BY <2>1, DecoderReadIs
  <2>3. GetsAll(r, i, k, R)
    BY <1>1, <1>4, SwapReadWell
  <2>4. Sane(r, s, i, k)
    BY <1>1, <2>1, SwapReadSane
  <2>. HIDE DEF r
  <2>5. r.got \in Seq(Units)
    BY <2>4 DEF Sane
  <2>6. GetsSome(r, i, R)
    BY <2>3, <2>5, AllIsSome
  <2>. QED BY <2>2, <2>6
<1>5. CASE s[i].method = "AES"
  <2>1. i = 2 /\ AesAbove(read, s)
    BY <1>5, AesAboveIs
  <2>2. Gives(s, 2, R)
    BY <2>1
  <2>3. GetsSome(AesRead(read, s, 2, k), 2, R)
    BY <2>1, <2>2, AesReadWell
  <2>4. DecoderRead(read, s, i, k) = AesRead(read, s, i, k)
    BY <1>5, DecoderReadIs
  <2>. QED BY <2>1, <2>3, <2>4
<1>6. CASE s[i].method \in Framed
  <2>1. FrameReader(read, i, s)
    BY <1>1, <1>6 DEF FrameReader
  <2>2. GetsSome(FramedRead(read, s, i, k), i, R)
    BY <2>1, FramedReadWell
  <2>3. DecoderRead(read, s, i, k) = FramedRead(read, s, i, k)
    BY <1>6, DecoderReadIs
  <2>. QED BY <2>2, <2>3
<1>7. s[i].method \in {"COPY", "SWAP2", "AES"} \cup Framed
  BY <1>2, MethodIs
<1>. QED BY <1>3, <1>4, <1>5, <1>6, <1>7

\* The decoders whose next read of a header gets all of it.
PromptSelf(d) ==
  \/ d.method = "SWAP2"
  \/ d.method = "AES" /\ d.ready = <<>>
  \/ d.method \in Framed /\ ~d.ended /\ d.remaining >= HeaderSize + 1

\* It does.
LEMMA SelfPrompt ==
  ASSUME NEW read, NEW i \in Nat, NEW s \in Sounds, i \in 2..Len(s), NEW R, ReadsFrom(read, i), Gives(s, i, R), PromptSelf(s[i])
  PROVE  GetsAll(DecoderRead(read, s, i, HeaderSize), i, HeaderSize, R)
<1>. DEFINE k == HeaderSize
<1>1. k \in Nat \ {0} /\ k = 2 /\ k <= AesBlock
  BY HeaderSizeIs, DecoderAssumption
<1>2. WellReader(read, i - 1) /\ SaneReader(read, i - 1) /\ i \in 1..Len(s) /\ i >= 2
  BY SoundIs DEF ReadsFrom
<1>. HIDE DEF k
<1>3. CASE s[i].method = "SWAP2"
  <2>1. s[i].method \in Swaps
    BY <1>3 DEF Swaps
  <2>2. DecoderRead(read, s, i, k) = SwapRead(read, s, i, k)
    BY <2>1, DecoderReadIs
  <2>3. GetsAll(SwapRead(read, s, i, k), i, k, R)
    BY <1>1, <1>2, <1>3, SwapReadWell
  <2>. QED BY <2>2, <2>3 DEF k
<1>4. CASE s[i].method = "AES" /\ s[i].ready = <<>>
  <2>1. i = 2 /\ AesAbove(read, s)
    BY <1>4, AesAboveIs
  <2>2. Gives(s, 2, R) /\ s[2].ready = <<>>
    BY <1>4, <2>1
  <2>3. GetsAll(AesRead(read, s, 2, k), 2, k, R)
    BY <1>1, <2>1, <2>2, AesReadWell
  <2>4. DecoderRead(read, s, i, k) = AesRead(read, s, i, k)
    BY <1>4, DecoderReadIs
  <2>. QED BY <2>1, <2>3, <2>4 DEF k
<1>5. CASE s[i].method \in Framed /\ ~s[i].ended /\ s[i].remaining >= HeaderSize + 1
  <2>1. FrameReader(read, i, s)
    BY <1>2, <1>5 DEF FrameReader
  <2>2. ~AboveFrames(s, i, R)
    <3>. SUFFICES ASSUME s[i].remaining = 0 PROVE FALSE
      BY DEF AboveFrames
    <3>. QED BY <1>5, HeaderSizeIs
  <2>3. PICK p \in Seq(Plain) : InAFrame(s, i, p, R)
    BY <1>2, <1>5, <2>2, FramedGives
  <2>4. Len(p) >= k
    <3>1. s[i].remaining = Len(p) + 1
      BY <2>3 DEF InAFrame
    <3>2. Len(p) \in Nat
      BY LenProperties
    <3>. QED BY <1>1, <1>5, <3>1, <3>2 DEF k
  <2>5. GetsAll(FramedRead(read, s, i, k), i, k, R)
    BY <1>1, <2>1, <2>3, <2>4, FramedPrompt
  <2>6. DecoderRead(read, s, i, k) = FramedRead(read, s, i, k)
    BY <1>5, DecoderReadIs
  <2>. QED BY <2>5, <2>6 DEF k
<1>. QED BY <1>3, <1>4, <1>5 DEF PromptSelf

\* The first of the readers of a stack is its source, which hands out all that was asked for.
LEMMA FirstReads ==
  ASSUME NEW n \in Nat, 1 \in 1..n, NEW s \in Sounds, NEW k \in Nat \ {0}, NEW R, 1 \in 1..Len(s), Gives(s, 1, R)
  PROVE  GetsAll(Readers(n)[1][s][k], 1, k, R) /\ GetsSome(Readers(n)[1][s][k], 1, R)
<1>. DEFINE i == 1
            r == Readers(n)[i][s][k]
<1>1. s \in Stacks /\ i \in 1..n /\ i = 1
  BY DEF Sounds
<1>2. k \in Nat /\ Len(s) > 0
  <2>1. Len(s) \in Nat
    BY SoundIs
  <2>. QED BY <2>1
<1>. HIDE DEF i
<1>3. r = Take(s, 1, k)
  BY <1>1, ReadersIs
<1>4. GetsAll(Take(s, 1, k), 1, k, R)
  BY <1>2, TakeSource
<1>5. Sane(Take(s, i, k), s, i, k)
  BY <1>1, <1>2, TakeSane
<1>6. r.got \in Seq(Units) /\ GetsAll(r, i, k, R)
  BY <1>1, <1>3, <1>4, <1>5 DEF Sane
<1>. HIDE DEF r
<1>7. GetsSome(r, i, R)
  BY <1>6, AllIsSome
<1>. QED BY <1>6, <1>7 DEF r, i

\* The others are decoders that read from the one below.
LEMMA NextReads ==
  ASSUME NEW n \in Nat, NEW i \in 2..n, NEW s \in Sounds, NEW k \in Nat \ {0}
  PROVE  Readers(n)[i][s][k] = DecoderRead(Readers(n)[i - 1], s, i, k)
<1>1. s \in Stacks /\ i \in 1..n /\ i # 1
  BY DEF Sounds
<1>. QED BY <1>1, ReadersIs

\* Every reader of a stack hands out what its stream gives next.
LEMMA ReadersWell ==
  ASSUME NEW n \in Nat
  PROVE  \A i \in 1..n : WellReader(Readers(n)[i], i) /\ (i = 1 => FullReader(Readers(n)[i]))
<1>. DEFINE rd == Readers(n)
            Good(i) == WellReader(rd[i], i) /\ (i = 1 => FullReader(rd[i]))
            In == {i \in Nat : i \in 1..n => Good(i)}
<1>1. ASSUME 1 \in 1..n, NEW s \in Sounds, NEW k \in Nat \ {0}, NEW R, 1 \in 1..Len(s), Gives(s, 1, R)
      PROVE  GetsAll(rd[1][s][k], 1, k, R) /\ GetsSome(rd[1][s][k], 1, R)
  BY <1>1, FirstReads
<1>2. ASSUME NEW i \in 2..n, NEW s \in Sounds, NEW k \in Nat \ {0}
      PROVE  rd[i][s][k] = DecoderRead(rd[i - 1], s, i, k)
  BY NextReads
<1>3. \A i \in 1..n : SaneReader(rd[i], i) /\ (i = 1 => GivesCipher(rd[i]))
  BY ReadersSane
<1>. HIDE DEF rd
<1>4. 1 \in 1..n => Good(1)
  BY <1>1 DEF WellReader, FullReader
<1>5. 0 \in In
  OBVIOUS
<1>6. ASSUME NEW j \in Nat, j \in In PROVE j + 1 \in In
  <2>. DEFINE i == j + 1
  <2>0. i \in Nat /\ i - 1 = j /\ j \in Nat
    OBVIOUS
  <2>. HIDE DEF i
  <2>. SUFFICES ASSUME i \in 1..n PROVE Good(i)
    BY <2>0 DEF i
  <2>1. CASE i = 1
    BY <1>4, <2>1
  <2>2. CASE i # 1
    <3>1. i - 1 \in 1..n /\ i \in 2..n /\ (i = 2 => i - 1 = 1)
      BY <2>0, <2>2
    <3>2. ReadsFrom(rd[i - 1], i)
      <4>1. SaneReader(rd[i - 1], i - 1) /\ (i = 2 => GivesCipher(rd[i - 1]))
        BY <1>3, <3>1
      <4>2. WellReader(rd[i - 1], i - 1) /\ (i = 2 => FullReader(rd[i - 1]))
        BY <1>6, <2>0, <3>1
      <4>. QED BY <4>1, <4>2 DEF ReadsFrom
    <3>3. ASSUME NEW s \in Sounds, NEW k \in Nat \ {0}, NEW R, i \in 1..Len(s), Gives(s, i, R)
          PROVE  GetsSome(rd[i][s][k], i, R)
      <4>1. i \in 2..Len(s)
        BY <2>2, <3>3
      <4>2. rd[i][s][k] = DecoderRead(rd[i - 1], s, i, k)
        BY <1>2, <3>1
      <4>3. GetsSome(DecoderRead(rd[i - 1], s, i, k), i, R)
        BY <2>0, <3>2, <3>3, <4>1, DecoderReadWell
      <4>. QED BY <4>2, <4>3
    <3>. QED BY <2>2, <3>3 DEF WellReader
  <2>. QED BY <2>1, <2>2
<1>7. Nat \subseteq In
  <2>. HIDE DEF In
  <2>. QED BY <1>5, <1>6, SetInduction
<1>. QED BY <1>7 DEF rd

\* The stacks whose i-th reader hands out all of a header: the source or such a decoder,
\* and copies above it.
Prompt(s, i) ==
  \E l \in 1..i : (l = 1 \/ PromptSelf(s[l])) /\ \A m \in (l + 1)..i : s[m].method = "COPY"

\* A reader that is prompt on its own is, and so is a copy of a prompt one.
LEMMA PromptFrom ==
  ASSUME NEW s, NEW i \in Nat, i >= 2, Prompt(s, i)
  PROVE  PromptSelf(s[i]) \/ (s[i].method = "COPY" /\ Prompt(s, i - 1))
<1>1. PICK l \in 1..i : (l = 1 \/ PromptSelf(s[l])) /\ \A m \in (l + 1)..i : s[m].method = "COPY"
  BY DEF Prompt
<1>2. CASE l = i
  BY <1>1, <1>2
<1>3. CASE l # i
  <2>1. l \in 1..(i - 1) /\ i \in (l + 1)..i /\ \A m \in (l + 1)..(i - 1) : m \in (l + 1)..i
    BY <1>3
  <2>2. s[i].method = "COPY"
    BY <1>1, <2>1
  <2>3. Prompt(s, i - 1)
    BY <1>1, <2>1 DEF Prompt
  <2>. QED BY <2>2, <2>3
<1>. QED BY <1>2, <1>3

\* A prompt reader hands out all of a header.
LEMMA PromptReads ==
  ASSUME NEW n \in Nat
  PROVE  \A i \in 1..n : \A s \in Sounds : \A R :
           i \in 1..Len(s) /\ Gives(s, i, R) /\ Prompt(s, i) => GetsAll(Readers(n)[i][s][HeaderSize], i, HeaderSize, R)
<1>. DEFINE rd == Readers(n)
            k == HeaderSize
            Good(i) == \A s \in Sounds : \A R :
                         i \in 1..Len(s) /\ Gives(s, i, R) /\ Prompt(s, i) => GetsAll(rd[i][s][k], i, k, R)
            In == {i \in Nat : i \in 1..n => Good(i)}
<1>0. k \in Nat \ {0}
  BY HeaderSizeIs
<1>1. ASSUME 1 \in 1..n, NEW s \in Sounds, NEW R, 1 \in 1..Len(s), Gives(s, 1, R)
      PROVE  GetsAll(rd[1][s][k], 1, k, R)
  <2>. HIDE DEF k
  <2>. QED BY <1>0, <1>1, FirstReads
<1>2. ASSUME NEW i \in 2..n, NEW s \in Sounds
      PROVE  rd[i][s][k] = DecoderRead(rd[i - 1], s, i, k)
  <2>. HIDE DEF k
  <2>. QED BY <1>0, NextReads
<1>3. \A i \in 1..n : SaneReader(rd[i], i) /\ (i = 1 => GivesCipher(rd[i]))
  BY ReadersSane
<1>4. \A i \in 1..n : WellReader(rd[i], i) /\ (i = 1 => FullReader(rd[i]))
  BY ReadersWell
<1>. HIDE DEF rd
<1>5. 0 \in In
  OBVIOUS
<1>6. ASSUME NEW j \in Nat, j \in In PROVE j + 1 \in In
  <2>. DEFINE i == j + 1
  <2>0. i \in Nat /\ i - 1 = j /\ j \in Nat
    OBVIOUS
  <2>. HIDE DEF i
  <2>. SUFFICES ASSUME i \in 1..n, NEW s \in Sounds, NEW R, i \in 1..Len(s), Gives(s, i, R), Prompt(s, i)
                PROVE  GetsAll(rd[i][s][k], i, k, R)
    BY <2>0 DEF i
  <2>1. CASE i = 1
    BY <1>1, <2>1
  <2>2. CASE i # 1
    <3>1. i - 1 \in 1..n /\ i \in 2..n /\ (i = 2 => i - 1 = 1) /\ i \in 2..Len(s) /\ i >= 2
      BY <2>0, <2>2
    <3>2. ReadsFrom(rd[i - 1], i)
      BY <1>3, <1>4, <3>1 DEF ReadsFrom
    <3>3. rd[i][s][k] = DecoderRead(rd[i - 1], s, i, k)
      BY <1>2, <3>1
    <3>4. CASE PromptSelf(s[i])
      <4>1. GetsAll(DecoderRead(rd[i - 1], s, i, HeaderSize), i, HeaderSize, R)
        BY <2>0, <3>1, <3>2, <3>4, SelfPrompt
      <4>. QED BY <3>3, <4>1
    <3>5. CASE s[i].method = "COPY" /\ Prompt(s, i - 1)
      <4>. DEFINE r == rd[i - 1][s][k]
      <4>1. Gives(s, i - 1, R)
        BY <2>0, <3>1, <3>5, CopyDown
      <4>2. i - 1 \in 1..Len(s)
        <5>1. Len(s) \in Nat
          BY SoundIs
        <5>. QED BY <3>1, <5>1
      <4>3. GetsAll(r, i - 1, k, R)
        BY <1>6, <2>0, <3>1, <3>5, <4>1, <4>2
      <4>4. Kept(s, r.stack, i - 1)
        <5>. HIDE DEF k
        <5>. QED BY <1>0, <1>3, <3>1, <4>2, SaneRead
      <4>5. DecoderRead(rd[i - 1], s, i, k) = r
        BY <3>5, DecoderReadIs
      <4>. HIDE DEF r
      <4>6. PICK rest : Left(r, i - 1, R, rest) /\ (Len(r.got) = k \/ rest = <<>>)
        BY <4>3 DEF GetsAll
      <4>7. Left(r, i, R, rest)
        BY <3>1, <3>5, <4>4, <4>6, CopyLeft
      <4>8. GetsAll(r, i, k, R)
        BY <4>6, <4>7 DEF GetsAll
      <4>. QED BY <3>3, <4>5, <4>8
    <3>. QED BY <2>0, <3>1, <3>4, <3>5, PromptFrom
  <2>. QED BY <2>1, <2>2
<1>7. Nat \subseteq In
  <2>. HIDE DEF In
  <2>. QED BY <1>5, <1>6, SetInduction
<1>. QED BY <1>7 DEF rd

\* A read from the top of the stack.
LEMMA ReadWell ==
  ASSUME NEW s \in Sounds, Len(s) > 0, NEW R, Gives(s, Len(s), R)
  PROVE  /\ \A k \in Nat \ {0} : GetsSome(Read(s, k), Len(s), R)
         /\ Prompt(s, Len(s)) => GetsAll(Read(s, HeaderSize), Len(s), HeaderSize, R)
<1>. DEFINE n == Len(s)
<1>1. n \in Nat /\ n \in 1..n
  <2>1. s \in Seq(Decoders)
    BY DEF Sounds, Stacks
  <2>. QED BY <2>1, LenProperties
<1>2. \A k : Read(s, k) = Readers(n)[n][s][k]
  BY DEF Read
<1>3. Gives(s, n, R) /\ n \in 1..Len(s)
  BY <1>1
<1>. HIDE DEF n
<1>4. WellReader(Readers(n)[n], n)
  BY <1>1, ReadersWell
<1>5. \A k \in Nat \ {0} : GetsSome(Read(s, k), n, R)
  BY <1>2, <1>3, <1>4 DEF WellReader
<1>6. Prompt(s, n) => GetsAll(Readers(n)[n][s][HeaderSize], n, HeaderSize, R)
  BY <1>1, <1>3, PromptReads
<1>. QED BY <1>2, <1>5, <1>6 DEF n

\* What a stack gives with one more decoder on it.
LEMMA AppendGives ==
  ASSUME NEW l \in Nat \ {0}, NEW s, NEW t, NEW d, NEW B, NEW R \in Seq(Units), Gives(s, l, B), Level(d, R, B),
         t[l + 1] = d, \A i \in 1..l : t[i] = s[i]
  PROVE  Gives(t, l + 1, R)
<1>. DEFINE j == l + 1
<1>1. j \in Nat /\ j >= 2 /\ j - 1 = l
  OBVIOUS
<1>2. Gives(t, l, B)
  BY GivesSame
<1>3. t[j] = d
  OBVIOUS
<1>. HIDE DEF j
<1>4. Gives(t, j - 1, B) /\ Level(t[j], R, B)
  BY <1>1, <1>2, <1>3
<1>5. Gives(t, j, R)
  BY <1>1, <1>4, GivesUp
<1>. QED BY <1>5 DEF j

\* A decoder that reads nothing when it is made.
LEMMA AddPlain ==
  ASSUME NEW s \in Sounds, Len(s) > 0, NEW m \in AllMethods \ Framed, NEW B, NEW R \in Seq(Units),
         m = "AES" => Len(s) = 1 /\ s[1].ready \in Seq(Cipher), Gives(s, Len(s), B), Level(NewDecoder(m), R, B)
  PROVE  /\ add_decoder(s, m).ok /\ Gives(add_decoder(s, m).stack, Len(s) + 1, R)
         /\ add_decoder(s, m).stack[Len(s) + 1] = NewDecoder(m)
         /\ \A i \in 1..Len(s) : add_decoder(s, m).stack[i] = s[i]
<1>. DEFINE d == NewDecoder(m)
            t == Append(s, d)
            n == Len(s)
<1>1. /\ d \in Decoders /\ d.method = m /\ d.pending_len = 0 /\ (m = "AES" => d.held = <<>>) /\ m # "SOURCE"
  BY NewDecoderIs DEF AllMethods, Swaps
<1>2. add_decoder(s, m).stack = t /\ add_decoder(s, m).ok = TRUE
  BY AddIs DEF Result
<1>3. Level(d, R, B)
  OBVIOUS
<1>. HIDE DEF d
<1>4. d.method = "AES" => Len(s) = 1 /\ s[1].ready \in Seq(Cipher) /\ d.held \in Seq(Cipher)
  <2>1. <<>> \in Seq(Cipher)
    OBVIOUS
  <2>. QED BY <1>1, <2>1
<1>5. t[n + 1] = d /\ \A i \in 1..n : t[i] = s[i]
  BY <1>1, <1>4, SoundAppend
<1>6. n \in Nat \ {0}
  <2>1. s \in Seq(Decoders)
    BY DEF Sounds, Stacks
  <2>. QED BY <2>1, LenProperties
<1>7. Gives(s, n, B)
  OBVIOUS
<1>. HIDE DEF n, t
<1>8. Gives(t, n + 1, R)
  BY <1>3, <1>5, <1>6, <1>7, AppendGives
<1>. QED BY <1>2, <1>5, <1>8 DEF n, d

\* A stream of frames starts with the header of the first one.
StartsWith(ps, z, H, C) ==
  /\ ps[1] \in Seq(Plain) /\ From(ps, 1) \in Packets /\ H = FrameHeader(Len(ps[1]) + 1)
  /\ C = Append(ps[1], EndMark) \o (Framing(From(ps, 1)) \o z)
  /\ FlattenSeq(ps) = ps[1] \o FlattenSeq(From(ps, 1)) /\ FlattenSeq(ps) \in Seq(Units)
  /\ Framing(ps) \o z = H \o C /\ H \in Seq(Units) /\ C \in Seq(Units)
  /\ IsHeader(H) /\ H[1][2] = Len(ps[1]) + 1 /\ Len(H) = HeaderSize

\* It does.
LEMMA FramesStart ==
  ASSUME NEW z \in Zeros, NEW ps \in Packets, ps # <<>>
  PROVE  \E H : \E C : StartsWith(ps, z, H, C)
<1>. DEFINE p == ps[1]
            qs == From(ps, 1)
            n == Len(p) + 1
            H == FrameHeader(n)
            E == Append(p, EndMark)
            F == Framing(qs)
            C == E \o (F \o z)
            R == FlattenSeq(ps)
<1>1. /\ p \in Seq(Plain) /\ qs \in Packets /\ H \in Seq(Plain) /\ E \in Seq(Plain)
      /\ Framing(ps) = H \o (E \o F) /\ R = p \o FlattenSeq(qs)
  BY FramesFront
<1>2. R \in Seq(Units)
  <2>1. R \in Seq(Plain)
    BY FramesIn
  <2>. QED BY <2>1, UnitsAre
<1>3. n \in Nat
  BY <1>1, LenProperties
<1>4. IsHeader(H) /\ H[1][2] = n /\ Len(H) = HeaderSize
  BY <1>3, HeaderRead
<1>. HIDE DEF p, qs, n
<1>5. F \in Seq(Units) /\ z \in Seq(Units) /\ H \in Seq(Units) /\ E \in Seq(Units)
  <2>1. <<>> \in Seq(Units)
    OBVIOUS
  <2>2. F \in Seq(Units) /\ z \in Seq(Units)
    BY <1>1, <2>1, PartsIn
  <2>. QED BY <1>1, <2>2, UnitsAre
<1>. HIDE DEF H, E, F
<1>6. Framing(ps) \o z = H \o C /\ C \in Seq(Units)
  <2>. DEFINE EF == E \o F
              Fz == F \o z
  <2>1. EF \in Seq(Units) /\ Fz \in Seq(Units)
    BY <1>5, UnitsJoined DEF Joined
  <2>2. EF \o z = E \o Fz
    <3>1. Associates(E, F, z)
      BY <1>5, Associate
    <3>. QED BY <3>1 DEF Associates
  <2>3. Framing(ps) = H \o EF
    BY <1>1
  <2>. HIDE DEF EF
  <2>4. (H \o EF) \o z = H \o (EF \o z)
    <3>1. Associates(H, EF, z)
      BY <1>5, <2>1, Associate
    <3>. QED BY <3>1 DEF Associates
  <2>. HIDE DEF Fz
  <2>5. E \o Fz \in Seq(Units)
    BY <1>5, <2>1, UnitsJoined DEF Joined
  <2>. QED BY <2>2, <2>3, <2>4, <2>5 DEF Fz
<1>7. StartsWith(ps, z, H, C)
  <2>1. H = FrameHeader(Len(ps[1]) + 1) /\ C = Append(ps[1], EndMark) \o (Framing(From(ps, 1)) \o z)
    BY DEF H, E, F, p, qs, n
  <2>. HIDE DEF C
  <2>. QED BY <1>1, <1>2, <1>4, <1>5, <1>6, <2>1 DEF p, qs, n, StartsWith
<1>. QED BY <1>7

\* A decoder of frames on a stream of frames.
LEMMA AddFramed ==
  ASSUME NEW s \in Sounds, Len(s) > 0, NEW m \in Framed, NEW ps \in Packets, NEW z \in Zeros, ps # <<>>, Solid(ps),
         Gives(s, Len(s), Framing(ps) \o z), Prompt(s, Len(s))
  PROVE  /\ add_decoder(s, m).ok /\ Gives(add_decoder(s, m).stack, Len(s) + 1, FlattenSeq(ps))
         /\ FlattenSeq(ps) \in Seq(Units)
         /\ Len(ps[1]) >= HeaderSize => PromptSelf(add_decoder(s, m).stack[Len(s) + 1])
<1>1. PICK H, C : StartsWith(ps, z, H, C)
  BY FramesStart
<1>. DEFINE p == ps[1]
            qs == From(ps, 1)
            R == FlattenSeq(ps)
            B == Framing(ps) \o z
            h == First2(s)
            u == h.stack
            l == Len(s)
            n == Len(p) + 1
            c == NewDecoder(m)
            d == SetRemaining(c, n)
            t == Append(u, d)
<1>2. /\ p \in Seq(Plain) /\ qs \in Packets /\ R = p \o FlattenSeq(qs) /\ R \in Seq(Units)
      /\ B = H \o C /\ H \in Seq(Units) /\ C \in Seq(Units) /\ C = Append(p, EndMark) \o (Framing(qs) \o z)
      /\ IsHeader(H) /\ H[1][2] = n /\ Len(H) = HeaderSize
  BY <1>1 DEF StartsWith
<1>3. Solid(qs) /\ (p = <<>> => qs = <<>>)
  BY SolidFront
<1>4. l \in Nat \ {0} /\ n \in Nat /\ Len(p) \in Nat
  <2>1. s \in Seq(Decoders)
    BY DEF Sounds, Stacks
  <2>. QED BY <1>2, <2>1, LenProperties
<1>5. GetsAll(h, l, HeaderSize, B) /\ Sane(h, s, l, HeaderSize)
  <2>1. HeaderSize \in Nat \ {0}
    BY HeaderSizeIs
  <2>. QED BY <2>1, ReadWell, ReadSane DEF First2
<1>6. add_decoder(s, m) = Result(Append(u, SetRemaining(c, Announced(h.got))), <<>>, h.ok /\ IsHeader(h.got))
  BY AddIs
<1>7. c \in Decoders /\ c.method = m /\ c.ready = <<>> /\ c.pending_len = 0 /\ c.ended = FALSE
  BY NewDecoderIs DEF Framed
<1>. HIDE DEF h, p, qs, B, R, c
<1>8. u \in Sounds /\ Len(u) = l /\ h.got \in Seq(Units) /\ Len(h.got) <= HeaderSize
  BY <1>5 DEF Sane, Kept
<1>. HIDE DEF l
<1>9. WholeRead(h, l, H, C)
  <2>. DEFINE k == HeaderSize
  <2>1. GetsAll(h, l, k, H \o C) /\ k = Len(H) /\ Len(h.got) <= k
    BY <1>2, <1>5, <1>8
  <2>. HIDE DEF k
  <2>. QED BY <1>2, <1>8, <2>1, ReadWhole
<1>10. h.ok /\ h.got = H /\ Gives(u, l, C)
  BY <1>9 DEF WholeRead
<1>11. Announced(h.got) = n
  BY <1>2, <1>10 DEF Announced
<1>. HIDE DEF n
<1>12. add_decoder(s, m).stack = t /\ add_decoder(s, m).ok
  <2>1. add_decoder(s, m) = Result(t, <<>>, h.ok /\ IsHeader(H))
    BY <1>6, <1>10, <1>11
  <2>. DEFINE ok == h.ok /\ IsHeader(H)
  <2>2. ok
    BY <1>2, <1>10
  <2>. HIDE DEF t, ok
  <2>3. add_decoder(s, m) = Result(t, <<>>, ok)
    BY <2>1 DEF ok
  <2>4. Result(t, <<>>, ok).stack = t /\ Result(t, <<>>, ok).ok = ok
    BY ResultIs
  <2>. QED BY <2>2, <2>3, <2>4
<1>13. d \in Decoders /\ d.method = m /\ d.remaining = n /\ d.ended = FALSE /\ d.ready = <<>> /\ d.pending_len = 0
  BY <1>4, <1>7 DEF Decoders, SetRemaining
<1>. HIDE DEF d
<1>14. t[l + 1] = d /\ \A i \in 1..l : t[i] = u[i]
  <2>1. d.method # "SOURCE" /\ d.method # "AES" /\ Len(u) > 0
    BY <1>4, <1>8, <1>13 DEF Framed
  <2>. QED BY <1>8, <1>13, <2>1, SoundAppend
<1>15. Level(d, R, C)
  <2>1. InFrame(d, R, C)
    <3>1. d.remaining = Len(p) + 1 /\ ~d.ended /\ d.ready = <<>>
      BY <1>13 DEF n
    <3>. QED BY <1>2, <1>3, <3>1 DEF InFrame
  <2>2. d.method \in Framed /\ d.method \notin {"COPY", "SWAP2", "AES"}
    BY <1>13 DEF Framed
  <2>. QED BY <2>1, <2>2 DEF Level, FramedLevel
<1>. HIDE DEF t, u
<1>16. Gives(t, l + 1, R)
  BY <1>2, <1>4, <1>10, <1>14, <1>15, AppendGives
<1>17. Len(p) >= HeaderSize => PromptSelf(d)
  <2>1. d.remaining = Len(p) + 1 /\ HeaderSize \in Nat
    BY <1>13, HeaderSizeIs DEF n
  <2>. QED BY <1>4, <1>13, <2>1 DEF PromptSelf
<1>. QED BY <1>2, <1>12, <1>14, <1>16, <1>17 DEF p, R, l

\* What a new decoder gives of the stream below it.
LEMMA NewLevels ==
  /\ \A R : Level(NewDecoder("COPY"), R, R)
  /\ \A x \in Seq(Plain) : Level(NewDecoder("SWAP2"), x, Swapped(x))
  /\ \A gs \in AesBlocks : Level(NewDecoder("AES"), FlattenSeq(gs), Coded("AES", gs))
<1>1. ASSUME NEW R PROVE Level(NewDecoder("COPY"), R, R)
  <2>1. NewDecoder("COPY").method = "COPY"
    BY NewDecoderIs
  <2>. QED BY <2>1 DEF Level, Framed
<1>2. ASSUME NEW x \in Seq(Plain) PROVE Level(NewDecoder("SWAP2"), x, Swapped(x))
  <2>. DEFINE d == NewDecoder("SWAP2")
  <2>1. d.method = "SWAP2" /\ d.pending_len = 0 /\ Len(d.held) = Unit("SWAP2") - 1
    BY NewDecoderIs DEF Swaps
  <2>2. Len(d.held) = 1 /\ d.pending_len <= 1
    <3>1. Unit("SWAP2") = 2
      BY DEF Unit
    <3>. HIDE DEF d
    <3>. QED BY <2>1, <3>1
  <2>. HIDE DEF d
  <2>3. Level(d, Emit(d, d.pending_len) \o x, Swapped(x))
    BY <2>1, <2>2, SwapLevelIs
  <2>4. Emit(d, d.pending_len) \o x = x
    <3>1. Emit(d, d.pending_len) = <<>>
      BY <2>1, EmitNone
    <3>2. x \in Seq(Units)
      BY UnitsAre
    <3>. QED BY <3>1, <3>2, ConcatEmptySeq
  <2>. QED BY <2>3, <2>4 DEF d
<1>3. ASSUME NEW gs \in AesBlocks PROVE Level(NewDecoder("AES"), FlattenSeq(gs), Coded("AES", gs))
  <2>. DEFINE d == NewDecoder("AES")
              x == FlattenSeq(gs)
  <2>1. d.method = "AES" /\ d.held = <<>> /\ d.ready = <<>> /\ d.ended = FALSE
    BY NewDecoderIs DEF Swaps
  <2>2. x = d.ready \o x
    <3>1. x \in Seq(Plain)
      BY DecryptsBlocks DEF Decrypts
    <3>2. x \in Seq(Units)
      BY <3>1, UnitsAre
    <3>. HIDE DEF d, x
    <3>. QED BY <2>1, <3>2, ConcatEmptySeq
  <2>. HIDE DEF d
  <2>3. AesLevel(d, x, Coded("AES", gs))
    BY <2>1, <2>2 DEF AesLevel, AesBlocks
  <2>4. Level(d, x, Coded("AES", gs))
    BY <2>1, <2>3 DEF Level, Framed
  <2>. QED BY <2>4 DEF d
<1>. QED BY <1>1, <1>2, <1>3

\* Whether the next method above the i-th that is not a copy is one of frames.
FramedAbove(ch, i) ==
  \E l \in (i + 1)..Len(ch) : ch[l] \in Framed /\ \A m \in (i + 1)..(l - 1) : ch[m] = "COPY"

\* X is the frames that Y was cut into; the first is as long as a header, when one is
\* looked for above.
FramedFrom(ch, i, X, Y) ==
  \E ps \in Packets : /\ X = Framing(ps) /\ Y = FlattenSeq(ps) /\ ps # <<>> /\ Solid(ps)
                      /\ FramedAbove(ch, i) => Len(ps[1]) >= HeaderSize

\* X is the blocks that Y was encrypted in, the last one filled up.
PaddedFrom(X, Y) ==
  \E gs \in AesBlocks : \E z \in Zeros : X = Coded("AES", gs) /\ FlattenSeq(gs) = Y \o z

\* What the i-th encoder made of Y is X.
CodedAt(ch, i, X, Y) ==
  /\ ch[i] \in {"COPY", "SWAP2", "AES"} \cup Framed
  /\ ch[i] = "COPY" => X = Y
  /\ ch[i] = "SWAP2" => Y \in Seq(Plain) /\ X = Swapped(Y)
  /\ ch[i] = "AES" => PaddedFrom(X, Y)
  /\ ch[i] \in Framed => FramedFrom(ch, i, X, Y)

\* Y[i] are the units that reached the i-th encoder, Y[0] those that were packed.
Decodable(ch, Y) ==
  /\ \A i \in 0..Len(ch) : Y[i] \in Seq(Units)
  /\ \A i \in 1..Len(ch) : CodedAt(ch, i, Y[i - 1], Y[i])
  /\ ch[1] = "AES" => \A i \in 1..Len(ch) : ch[i] # "SWAP2"

\* The stack of j decoders gives what reached the j-th encoder, and the zeros that
\* filled up a block.
GivesPadded(ch, s, j, R) == \E z \in Zeros : Gives(s, j + 1, R \o z) /\ (ch[1] # "AES" => z = <<>>)

\* The stack of the first j decoders.
Opened(ch, Y, j, r) ==
  /\ r.ok /\ r.stack \in Sounds /\ Len(r.stack) = j + 1
  /\ j = 0 => r.stack[1].ready = Y[0]
  /\ GivesPadded(ch, r.stack, j, Y[j])
  /\ FramedAbove(ch, j) => Prompt(r.stack, j + 1)

\* The next one is put on it.
Put(ch, Y, j, r) == Opened(ch, Y, j + 1, add_decoder(r.stack, ch[j + 1]))
Opening(ch, Y, j, r) ==
  /\ ch \in AnyChains /\ Decodable(ch, Y) /\ j \in Nat /\ j + 1 \in 1..Len(ch) /\ Opened(ch, Y, j, r)

\* Zeros are units, and there may be none.
LEMMA ZerosIn == Zeros \subseteq Seq(Units) /\ <<>> \in Zeros
<1>1. ZeroByte \in Units
  BY PlainUnits, UnitsAre
<1>2. {ZeroByte} \subseteq Units
  BY <1>1
<1>. HIDE DEF Units, ZeroByte
<1>. QED BY <1>2 DEF Zeros

\* A copy on a prompt stack is prompt, and so is a decoder that is on its own.
LEMMA PromptNext ==
  ASSUME NEW s, NEW t, NEW i \in Nat \ {0}, Prompt(s, i), \A m \in 1..i : t[m] = s[m], t[i + 1].method = "COPY"
  PROVE  Prompt(t, i + 1)
<1>1. PICK l \in 1..i : (l = 1 \/ PromptSelf(s[l])) /\ \A m \in (l + 1)..i : s[m].method = "COPY"
  BY DEF Prompt
<1>2. l \in 1..(i + 1) /\ t[l] = s[l]
  OBVIOUS
<1>3. ASSUME NEW m \in (l + 1)..(i + 1) PROVE t[m].method = "COPY"
  <2>1. CASE m = i + 1
    BY <2>1
  <2>2. CASE m # i + 1
    <3>1. m \in (l + 1)..i /\ m \in 1..i
      BY <2>2
    <3>. QED BY <1>1, <3>1
  <2>. QED BY <2>1, <2>2
<1>. QED BY <1>1, <1>2, <1>3 DEF Prompt

\* A source or a prompt decoder on top.
LEMMA PromptTop ==
  ASSUME NEW t, NEW i \in Nat \ {0}, i = 1 \/ PromptSelf(t[i])
  PROVE  Prompt(t, i)
<1>1. i \in 1..i /\ \A m \in (i + 1)..i : FALSE
  OBVIOUS
<1>. QED BY <1>1 DEF Prompt

\* Where frames are looked for above.
LEMMA AboveNext ==
  ASSUME NEW ch, Len(ch) \in Nat, NEW i \in 1..Len(ch)
  PROVE  /\ ch[i] \in Framed => FramedAbove(ch, i - 1)
         /\ ch[i] = "COPY" => (FramedAbove(ch, i - 1) <=> FramedAbove(ch, i))
         /\ ch[i] \notin Framed /\ ch[i] # "COPY" => ~FramedAbove(ch, i - 1)
<1>. DEFINE n == Len(ch)
<1>0. n \in Nat /\ i \in 1..n /\ (i - 1) + 1 = i
  OBVIOUS
<1>. HIDE DEF n
<1>1. FramedAbove(ch, i - 1) <=> \E l \in i..n : ch[l] \in Framed /\ \A m \in i..(l - 1) : ch[m] = "COPY"
  BY <1>0 DEF FramedAbove, n
<1>2. FramedAbove(ch, i) <=> \E l \in (i + 1)..n : ch[l] \in Framed /\ \A m \in (i + 1)..(l - 1) : ch[m] = "COPY"
  BY DEF FramedAbove, n
<1>3. ch[i] \in Framed => FramedAbove(ch, i - 1)
  <2>1. i \in i..n /\ \A m \in i..(i - 1) : FALSE
    BY <1>0
  <2>. QED BY <1>1, <2>1
<1>4. ASSUME ch[i] \notin Framed, FramedAbove(ch, i - 1) PROVE ch[i] = "COPY" /\ FramedAbove(ch, i)
  <2>1. PICK l \in i..n : ch[l] \in Framed /\ \A m \in i..(l - 1) : ch[m] = "COPY"
    BY <1>1, <1>4
  <2>2. l # i
    BY <1>4, <2>1
  <2>3. i \in i..(l - 1) /\ l \in (i + 1)..n /\ \A m \in (i + 1)..(l - 1) : m \in i..(l - 1)
    BY <1>0, <2>2
  <2>. QED BY <1>2, <2>1, <2>3
<1>5. ASSUME ch[i] = "COPY", FramedAbove(ch, i) PROVE FramedAbove(ch, i - 1)
  <2>1. PICK l \in (i + 1)..n : ch[l] \in Framed /\ \A m \in (i + 1)..(l - 1) : ch[m] = "COPY"
    BY <1>2, <1>5
  <2>2. l \in i..n
    BY <1>0
  <2>3. ASSUME NEW m \in i..(l - 1) PROVE ch[m] = "COPY"
    <3>1. m = i \/ m \in (i + 1)..(l - 1)
      BY <1>0
    <3>. QED BY <1>5, <2>1, <3>1
  <2>. QED BY <1>1, <2>1, <2>2, <2>3
<1>6. ch[i] = "COPY" => ch[i] \notin Framed
  BY DEF Framed
<1>. QED BY <1>3, <1>4, <1>5, <1>6

\* Nothing is above the last coder.
LEMMA AboveTop ==
  ASSUME NEW ch, Len(ch) \in Nat
  PROVE  ~FramedAbove(ch, Len(ch))
<1>1. \A l \in (Len(ch) + 1)..Len(ch) : FALSE
  OBVIOUS
<1>. QED BY <1>1 DEF FramedAbove

\* What is known when the next decoder is put on.
LEMMA OpeningIs ==
  ASSUME NEW ch, NEW Y, NEW j, NEW r, Opening(ch, Y, j, r)
  PROVE  /\ ch \in AnyChains /\ Len(ch) \in Nat /\ j \in Nat /\ j + 1 \in 1..Len(ch) /\ ch[j + 1] \in AllMethods
         /\ ch[j + 1] = "AES" => j = 0
         /\ r.ok /\ r.stack \in Sounds /\ Len(r.stack) = j + 1
         /\ j = 0 => r.stack[1].ready = Y[0]
         /\ GivesPadded(ch, r.stack, j, Y[j])
         /\ FramedAbove(ch, j) => Prompt(r.stack, j + 1)
         /\ CodedAt(ch, j + 1, Y[j], Y[j + 1]) /\ Y[j] \in Seq(Units) /\ Y[j + 1] \in Seq(Units)
         /\ ch[1] = "AES" => ch[j + 1] # "SWAP2"
<1>1. ch \in AnyChains /\ Decodable(ch, Y) /\ j \in Nat /\ j + 1 \in 1..Len(ch) /\ Opened(ch, Y, j, r)
  BY DEF Opening
<1>2. Len(ch) \in Nat /\ ch[j + 1] \in AllMethods
  BY <1>1, ChainIs
<1>3. ch[j + 1] = "AES" => j = 0
  <2>1. \A i \in 2..Len(ch) : ch[i] # "AES"
    BY <1>1 DEF AnyChains
  <2>2. j # 0 => j + 1 \in 2..Len(ch)
    BY <1>1
  <2>. QED BY <2>1, <2>2
<1>4. j \in 0..Len(ch) /\ j + 1 \in 0..Len(ch) /\ (j + 1) - 1 = j
  BY <1>1, <1>2
<1>5. CodedAt(ch, j + 1, Y[j], Y[j + 1]) /\ Y[j] \in Seq(Units) /\ Y[j + 1] \in Seq(Units)
  <2>1. CodedAt(ch, j + 1, Y[(j + 1) - 1], Y[j + 1])
    BY <1>1 DEF Decodable
  <2>. QED BY <1>1, <1>4, <2>1 DEF Decodable
<1>6. ch[1] = "AES" => ch[j + 1] # "SWAP2"
  BY <1>1 DEF Decodable
<1>7. /\ r.ok /\ r.stack \in Sounds /\ Len(r.stack) = j + 1
      /\ j = 0 => r.stack[1].ready = Y[0]
      /\ GivesPadded(ch, r.stack, j, Y[j])
      /\ FramedAbove(ch, j) => Prompt(r.stack, j + 1)
  BY <1>1 DEF Opened
<1>. QED BY <1>1, <1>2, <1>3, <1>5, <1>6, <1>7

\* It was put on when it gives what it should.
LEMMA OpenedNext ==
  ASSUME NEW ch, NEW Y, NEW j, NEW r, Opening(ch, Y, j, r), NEW z \in Zeros,
         ch[j + 1] = "AES" => r.stack[1].ready \in Seq(Cipher),
         add_decoder(r.stack, ch[j + 1]).ok,
         Gives(add_decoder(r.stack, ch[j + 1]).stack, j + 2, Y[j + 1] \o z), ch[1] # "AES" => z = <<>>,
         FramedAbove(ch, j + 1) => Prompt(add_decoder(r.stack, ch[j + 1]).stack, j + 2)
  PROVE  Put(ch, Y, j, r)
<1>. DEFINE s == r.stack
            m == ch[j + 1]
            t == add_decoder(s, m)
            l == j + 1
<1>1. /\ j \in Nat /\ m \in AllMethods /\ (m = "AES" => j = 0) /\ s \in Sounds /\ Len(s) = j + 1
  BY OpeningIs
<1>2. t.ok /\ Gives(t.stack, j + 2, Y[l] \o z) /\ (FramedAbove(ch, l) => Prompt(t.stack, j + 2))
      /\ (m = "AES" => s[1].ready \in Seq(Cipher))
  OBVIOUS
<1>. HIDE DEF s, m
<1>3. t.stack \in Sounds /\ Len(t.stack) = Len(s) + 1
  <2>1. Len(s) > 0 /\ (m = "AES" => Len(s) = 1 /\ s[1].ready \in Seq(Cipher))
    BY <1>1, <1>2
  <2>. HIDE DEF t
  <2>. QED BY <1>1, <2>1, AddSane DEF t
<1>. HIDE DEF t
<1>4. l + 1 = j + 2 /\ l # 0 /\ Len(t.stack) = l + 1
  BY <1>1, <1>3
<1>. HIDE DEF l
<1>5. GivesPadded(ch, t.stack, l, Y[l])
  BY <1>2, <1>4 DEF GivesPadded
<1>6. Opened(ch, Y, l, t)
  BY <1>2, <1>3, <1>4, <1>5 DEF Opened
<1>. QED BY <1>6 DEF Put, t, s, m, l

\* A copy.
LEMMA PutCopy ==
  ASSUME NEW ch, NEW Y, NEW j, NEW r, Opening(ch, Y, j, r), ch[j + 1] = "COPY"
  PROVE  Put(ch, Y, j, r)
<1>. DEFINE s == r.stack
            m == ch[j + 1]
            t == add_decoder(s, m)
            i == j + 1
<1>1. /\ j \in Nat /\ s \in Sounds /\ Len(s) = i /\ GivesPadded(ch, s, j, Y[j])
      /\ FramedAbove(ch, j) => Prompt(s, i)
      /\ CodedAt(ch, i, Y[j], Y[i]) /\ Len(ch) \in Nat /\ i \in 1..Len(ch) /\ Y[i] \in Seq(Units)
  BY OpeningIs
<1>2. i \in Nat \ {0} /\ i - 1 = j /\ i + 1 = j + 2 /\ Len(s) > 0
  BY <1>1
<1>3. PICK z \in Zeros : Gives(s, i, Y[j] \o z) /\ (ch[1] # "AES" => z = <<>>)
  BY <1>1 DEF GivesPadded
<1>4. Y[j] = Y[i]
  BY <1>1 DEF CodedAt
<1>5. Y[i] \o z \in Seq(Units)
  <2>1. z \in Seq(Units)
    BY ZerosIn
  <2>. DEFINE y == Y[i]
  <2>2. y \in Seq(Units)
    BY <1>1
  <2>. HIDE DEF y
  <2>3. y \o z \in Seq(Units)
    BY <2>1, <2>2, UnitsJoined DEF Joined
  <2>. QED BY <2>3 DEF y
<1>6. m = "COPY" /\ m \in AllMethods \ Framed
  BY DEF AllMethods, Framed
<1>7. NewDecoder(m).method = "COPY"
  BY <1>6, NewDecoderIs
<1>. DEFINE R == Y[i] \o z
<1>8. Gives(s, Len(s), R) /\ R \in Seq(Units)
  BY <1>1, <1>3, <1>4, <1>5
<1>9. Level(NewDecoder(m), R, R)
  BY <1>6, NewLevels
<1>10. FramedAbove(ch, i) => FramedAbove(ch, j)
  BY <1>1, <1>2, <1>6, AboveNext
<1>. HIDE DEF s, m, i, R
<1>11. /\ t.ok /\ Gives(t.stack, Len(s) + 1, R) /\ t.stack[Len(s) + 1] = NewDecoder(m)
       /\ \A k \in 1..Len(s) : t.stack[k] = s[k]
  BY <1>1, <1>2, <1>6, <1>8, <1>9, AddPlain
<1>. HIDE DEF t
<1>12. FramedAbove(ch, i) => Prompt(t.stack, i + 1)
  <2>. DEFINE u == t.stack
  <2>1. u[i + 1].method = "COPY" /\ \A k \in 1..i : u[k] = s[k]
    BY <1>1, <1>7, <1>11
  <2>. HIDE DEF u
  <2>2. Prompt(s, i) => Prompt(u, i + 1)
    BY <1>2, <2>1, PromptNext
  <2>. QED BY <1>1, <1>10, <2>2 DEF u
<1>13. Gives(t.stack, i + 1, R)
  BY <1>1, <1>11
<1>14. Gives(t.stack, j + 2, Y[i] \o z) /\ (FramedAbove(ch, i) => Prompt(t.stack, j + 2))
  BY <1>2, <1>12, <1>13 DEF R
<1>. QED BY <1>3, <1>6, <1>11, <1>14, OpenedNext DEF t, s, m, i

\* A decoder of swapped bytes.
LEMMA PutSwap ==
  ASSUME NEW ch, NEW Y, NEW j, NEW r, Opening(ch, Y, j, r), ch[j + 1] = "SWAP2"
  PROVE  Put(ch, Y, j, r)
<1>. DEFINE s == r.stack
            m == ch[j + 1]
            t == add_decoder(s, m)
            i == j + 1
            y == Y[i]
<1>1. /\ j \in Nat /\ s \in Sounds /\ Len(s) = i /\ GivesPadded(ch, s, j, Y[j]) /\ ch[1] # "AES"
      /\ CodedAt(ch, i, Y[j], Y[i]) /\ y \in Seq(Units)
  BY OpeningIs
<1>2. i \in Nat \ {0} /\ i + 1 = j + 2 /\ Len(s) > 0
  BY <1>1
<1>3. PICK z \in Zeros : Gives(s, i, Y[j] \o z) /\ z = <<>>
  BY <1>1 DEF GivesPadded
<1>4. y \in Seq(Plain) /\ Y[j] = Swapped(y)
  BY <1>1 DEF CodedAt
<1>5. Gives(s, Len(s), Swapped(y)) /\ y = y \o z
  <2>1. Swapped(y) \in Seq(Units)
    BY <1>4, SwappedIn, UnitsAre
  <2>. DEFINE x == Swapped(y)
  <2>. HIDE DEF x, y
  <2>2. x \o <<>> = x /\ y \o <<>> = y
    BY <1>1, <2>1, ConcatEmptySeq DEF x
  <2>. QED BY <1>1, <1>3, <1>4, <2>2 DEF x
<1>6. m = "SWAP2" /\ m \in AllMethods \ Framed
  BY DEF AllMethods, Framed
<1>7. NewDecoder(m).method = "SWAP2"
  BY <1>6, NewDecoderIs
<1>8. Level(NewDecoder(m), y, Swapped(y))
  BY <1>4, <1>6, NewLevels
<1>. HIDE DEF s, m, i, y
<1>9. /\ t.ok /\ Gives(t.stack, Len(s) + 1, y) /\ t.stack[Len(s) + 1] = NewDecoder(m)
  <2>. DEFINE B == Swapped(y)
  <2>. HIDE DEF B
  <2>1. Gives(s, Len(s), B) /\ Level(NewDecoder(m), y, B)
    BY <1>5, <1>8 DEF B
  <2>. QED BY <1>1, <1>2, <1>6, <2>1, AddPlain
<1>. HIDE DEF t
<1>10. Prompt(t.stack, j + 2)
  <2>. DEFINE u == t.stack
              k == i + 1
  <2>1. u[k].method = "SWAP2" /\ k \in Nat \ {0} /\ k = j + 2
    BY <1>1, <1>2, <1>7, <1>9
  <2>. HIDE DEF u, k
  <2>2. Prompt(u, k)
    BY <2>1, PromptTop DEF PromptSelf
  <2>. QED BY <2>1, <2>2 DEF u
<1>11. Gives(t.stack, j + 2, y \o z)
  BY <1>1, <1>2, <1>5, <1>9
<1>. QED BY <1>3, <1>6, <1>9, <1>10, <1>11, OpenedNext DEF t, s, m, i, y

\* A decoder of encrypted blocks, on the source.
LEMMA PutAes ==
  ASSUME NEW ch, NEW Y, NEW j, NEW r, Opening(ch, Y, j, r), ch[j + 1] = "AES"
  PROVE  Put(ch, Y, j, r)
<1>. DEFINE s == r.stack
            m == ch[j + 1]
            t == add_decoder(s, m)
            i == j + 1
            y == Y[i]
<1>1. /\ j = 0 /\ s \in Sounds /\ Len(s) = i /\ s[1].ready = Y[0] /\ CodedAt(ch, i, Y[j], y) /\ y \in Seq(Units)
  BY OpeningIs
<1>2. i = 1 /\ j + 2 = 2 /\ Len(s) = 1
  BY <1>1
<1>3. PICK gs \in AesBlocks, z \in Zeros : Y[j] = Coded("AES", gs) /\ FlattenSeq(gs) = y \o z
  BY <1>1 DEF CodedAt, PaddedFrom
<1>. DEFINE R == FlattenSeq(gs)
            B == Coded("AES", gs)
<1>4. R \in Seq(Units) /\ B \in Seq(Cipher)
  <2>1. R \in Seq(Plain) /\ B \in Seq(Cipher)
    BY DecryptsBlocks DEF Decrypts
  <2>. QED BY <2>1, UnitsAre
<1>5. m = "AES" /\ m \in AllMethods \ Framed
  BY DEF AllMethods, Framed
<1>6. Level(NewDecoder(m), R, B)
  BY <1>5, NewLevels
<1>7. NewDecoder(m).method = "AES" /\ NewDecoder(m).ready = <<>>
  BY <1>5, NewDecoderIs
<1>8. s[1].ready = B
  BY <1>1, <1>3
<1>. HIDE DEF s, m, i, y, R, B
<1>9. Gives(s, Len(s), B) /\ Len(s) > 0
  <2>1. Len(s) > 0
    BY <1>2
  <2>2. Gives(s, 1, s[1].ready)
    BY <1>1, <2>1, GivesSource
  <2>. QED BY <1>2, <1>8, <2>1, <2>2
<1>10. /\ t.ok /\ Gives(t.stack, Len(s) + 1, R) /\ t.stack[Len(s) + 1] = NewDecoder(m)
  BY <1>1, <1>2, <1>4, <1>5, <1>6, <1>8, <1>9, AddPlain
<1>. HIDE DEF t
<1>11. Prompt(t.stack, j + 2)
  <2>. DEFINE u == t.stack
              k == j + 2
  <2>1. u[k].method = "AES" /\ u[k].ready = <<>> /\ k \in Nat \ {0}
    BY <1>1, <1>2, <1>7, <1>10
  <2>. HIDE DEF u, k
  <2>2. Prompt(u, k)
    BY <2>1, PromptTop DEF PromptSelf
  <2>. QED BY <2>2 DEF u, k
<1>12. Gives(t.stack, j + 2, y \o z)
  <2>1. j + 2 = Len(s) + 1 /\ y \o z = R
    BY <1>1, <1>2, <1>3 DEF R
  <2>. QED BY <1>10, <2>1
<1>13. ch[1] = "AES"
  BY <1>2, <1>5 DEF m, i
<1>. QED BY <1>4, <1>8, <1>10, <1>11, <1>12, <1>13, OpenedNext DEF t, s, m, i, y

\* A decoder of frames.
LEMMA PutFramed ==
  ASSUME NEW ch, NEW Y, NEW j, NEW r, Opening(ch, Y, j, r), ch[j + 1] \in Framed
  PROVE  Put(ch, Y, j, r)
<1>. DEFINE s == r.stack
            m == ch[j + 1]
            t == add_decoder(s, m)
            i == j + 1
            y == Y[i]
<1>1. /\ j \in Nat /\ s \in Sounds /\ Len(s) = i /\ GivesPadded(ch, s, j, Y[j])
      /\ FramedAbove(ch, j) => Prompt(s, i)
      /\ CodedAt(ch, i, Y[j], y) /\ Len(ch) \in Nat /\ i \in 1..Len(ch)
  BY OpeningIs
<1>2. i \in Nat \ {0} /\ i - 1 = j /\ i + 1 = j + 2 /\ Len(s) > 0
  BY <1>1
<1>3. PICK z \in Zeros : Gives(s, i, Y[j] \o z) /\ (ch[1] # "AES" => z = <<>>)
  BY <1>1 DEF GivesPadded
<1>4. PICK ps \in Packets : /\ Y[j] = Framing(ps) /\ y = FlattenSeq(ps) /\ ps # <<>> /\ Solid(ps)
                            /\ FramedAbove(ch, i) => Len(ps[1]) >= HeaderSize
  BY <1>1 DEF CodedAt, FramedFrom
<1>5. Prompt(s, i)
  BY <1>1, <1>2, AboveNext
<1>6. Gives(s, Len(s), Framing(ps) \o z) /\ Prompt(s, Len(s))
  BY <1>1, <1>3, <1>4, <1>5
<1>7. m \in Framed /\ m # "AES"
  BY DEF Framed
<1>. HIDE DEF s, m, i, y
<1>8. /\ t.ok /\ Gives(t.stack, Len(s) + 1, y) /\ y \in Seq(Units)
      /\ Len(ps[1]) >= HeaderSize => PromptSelf(t.stack[Len(s) + 1])
  BY <1>1, <1>2, <1>4, <1>6, <1>7, AddFramed
<1>. HIDE DEF t
<1>9. FramedAbove(ch, i) => Prompt(t.stack, j + 2)
  <2>. SUFFICES ASSUME FramedAbove(ch, i) PROVE Prompt(t.stack, j + 2)
    OBVIOUS
  <2>. DEFINE u == t.stack
              k == i + 1
  <2>1. PromptSelf(u[k]) /\ k \in Nat \ {0} /\ k = j + 2
    BY <1>1, <1>2, <1>4, <1>8
  <2>. HIDE DEF u, k
  <2>2. Prompt(u, k)
    BY <2>1, PromptTop
  <2>. QED BY <2>1, <2>2 DEF u
<1>10. Gives(t.stack, j + 2, y \o <<>>)
  <2>1. y \o <<>> = y
    BY <1>8, ConcatEmptySeq
  <2>2. Gives(t.stack, j + 2, y)
    BY <1>1, <1>2, <1>8
  <2>. QED BY <2>1, <2>2
<1>. DEFINE e == <<>>
<1>11. e \in Zeros /\ (ch[1] # "AES" => e = <<>>) /\ Gives(t.stack, j + 2, y \o e)
  BY <1>10, ZerosIn
<1>. HIDE DEF e
<1>. QED BY <1>7, <1>8, <1>9, <1>11, OpenedNext DEF t, s, m, i, y

\* The source is the stack of no decoders.
LEMMA OpenedFirst ==
  ASSUME NEW ch, NEW Y, Y[0] \in Seq(Units)
  PROVE  Opened(ch, Y, 0, OpenStart(Y[0]))
<1>. DEFINE B == Y[0]
            r == OpenStart(B)
            j == 0
<1>1. r.ok = TRUE /\ r.stack = <<PackedSource(B)>>
  BY DEF OpenStart, Result
<1>2. B \in Seq(Units) /\ j = 0 /\ j + 1 = 1
  OBVIOUS
<1>. HIDE DEF B
<1>3. r.stack \in Sounds
  BY <1>1, <1>2, SourceSound
<1>4. r.stack[1] = PackedSource(B) /\ Len(r.stack) = 1
  BY <1>1
<1>5. r.stack[1].ready = B
  BY <1>2, <1>4, PackedSourceIs
<1>. DEFINE s == r.stack
<1>6. s \in Sounds /\ Len(s) = 1 /\ s[1].ready = B
  BY <1>3, <1>4, <1>5
<1>. HIDE DEF s
<1>7. Gives(s, 1, B)
  <2>1. Len(s) > 0
    BY <1>6
  <2>. QED BY <1>6, <2>1, GivesSource
<1>8. B \o <<>> = B /\ <<>> \in Zeros
  BY <1>2, ConcatEmptySeq, ZerosIn
<1>9. GivesPadded(ch, s, j, B)
  <2>. DEFINE e == <<>>
  <2>1. e \in Zeros /\ e = <<>> /\ Gives(s, j + 1, B \o e)
    BY <1>2, <1>7, <1>8
  <2>. HIDE DEF e, j
  <2>. QED BY <2>1 DEF GivesPadded
<1>10. Prompt(s, j + 1)
  <2>. DEFINE k == j + 1
  <2>1. k = 1 /\ k \in Nat \ {0}
    OBVIOUS
  <2>. HIDE DEF k
  <2>2. Prompt(s, k)
    BY <2>1, PromptTop
  <2>. QED BY <2>2 DEF k
<1>11. Opened(ch, Y, j, r)
  <2>1. r.ok /\ r.stack \in Sounds /\ Len(r.stack) = j + 1 /\ r.stack[1].ready = B
    BY <1>1, <1>2, <1>3, <1>4, <1>5
  <2>2. GivesPadded(ch, r.stack, j, B) /\ Prompt(r.stack, j + 1)
    BY <1>9, <1>10 DEF s
  <2>3. Y[j] = B
    BY DEF B
  <2>. HIDE DEF r, j
  <2>. QED BY <1>2, <2>1, <2>2, <2>3 DEF Opened, B
<1>. QED BY <1>11 DEF B

\* The next decoder, whatever its method.
LEMMA PutWell ==
  ASSUME NEW ch, NEW Y, NEW j, NEW r, Opening(ch, Y, j, r)
  PROVE  Put(ch, Y, j, r)
<1>1. CodedAt(ch, j + 1, Y[j], Y[j + 1])
  BY OpeningIs
<1>2. ch[j + 1] \in {"COPY", "SWAP2", "AES"} \cup Framed
  BY <1>1 DEF CodedAt
<1>3. CASE ch[j + 1] = "COPY"
  BY <1>3, PutCopy
<1>4. CASE ch[j + 1] = "SWAP2"
  BY <1>4, PutSwap
<1>5. CASE ch[j + 1] = "AES"
  BY <1>5, PutAes
<1>6. CASE ch[j + 1] \in Framed
  BY <1>6, PutFramed
<1>. QED BY <1>2, <1>3, <1>4, <1>5, <1>6

\* The stack that the header says can be built, and gives what reached the last encoder.
LEMMA OpenWell ==
  ASSUME NEW ch \in AnyChains, Len(ch) > 0, NEW sizes, NEW Y, Decodable(ch, Y)
  PROVE  Opened(ch, Y, Len(ch), build_decode_stack(write_block(ch, sizes), Y[0]))
<1>. DEFINE n == Len(ch)
            f == OpenUpTo(ch, sizes, Y[0])
            In == {j \in Nat : j \in 0..n => Opened(ch, Y, j, f[j])}
<1>1. /\ build_decode_stack(write_block(ch, sizes), Y[0]) = f[n]
      /\ f[0] = OpenStart(Y[0])
      /\ \A j \in 1..n : f[j] = IF f[j - 1].ok THEN add_decoder(f[j - 1].stack, ch[j]) ELSE f[j - 1]
  BY OpenIs
<1>2. n \in Nat /\ n \in 0..n
  BY ChainIs
<1>3. Y[0] \in Seq(Units)
  <2>1. 0 \in 0..n
    BY <1>2
  <2>. QED BY <2>1 DEF Decodable
<1>. HIDE DEF f
<1>4. 0 \in In
  <2>1. Opened(ch, Y, 0, f[0])
    BY <1>1, <1>3, OpenedFirst
  <2>. QED BY <2>1
<1>5. ASSUME NEW j \in Nat, j \in In PROVE j + 1 \in In
  <2>. SUFFICES ASSUME j + 1 \in 0..n PROVE Opened(ch, Y, j + 1, f[j + 1])
    OBVIOUS
  <2>1. j \in 0..n /\ j + 1 \in 1..n /\ (j + 1) - 1 = j
    BY <1>2
  <2>. DEFINE r == f[j]
  <2>2. Opened(ch, Y, j, r)
    BY <1>5, <2>1
  <2>3. f[j + 1] = IF r.ok THEN add_decoder(r.stack, ch[j + 1]) ELSE r
    BY <1>1, <2>1
  <2>. HIDE DEF r
  <2>4. Opening(ch, Y, j, r)
    BY <2>1, <2>2 DEF Opening
  <2>5. Opened(ch, Y, j + 1, add_decoder(r.stack, ch[j + 1]))
    BY <2>4, PutWell DEF Put
  <2>6. r.ok
    BY <2>2 DEF Opened
  <2>. QED BY <2>3, <2>5, <2>6
<1>6. Nat \subseteq In
  <2>. HIDE DEF In
  <2>. QED BY <1>4, <1>5, SetInduction
<1>7. Opened(ch, Y, n, f[n])
  BY <1>2, <1>6
<1>. QED BY <1>1, <1>7

\* What the calls T have made of a new encoder, and what it has sent on.
Kept2(m, T) == Feed(m, NewEncoder, T).enc
Sent(m, T) == Feed(m, NewEncoder, T).calls

\* One more call on it: x is the encoder when its bytes are counted.
OneMore(m, T, c, x) ==
  /\ x \in Encs(m) /\ x.held = Kept2(m, T).held /\ x.finished = Kept2(m, T).finished
  /\ Kept2(m, Append(T, c)) = Call(m, x, c).enc
  /\ Sent(m, Append(T, c)) = Sent(m, T) \o Call(m, x, c).calls
  /\ Call(m, x, c).enc \in Encs(m) /\ Call(m, x, c).calls \in Seq(AnyCalls(OutOf(m)))
  /\ Sent(m, T) \in Seq(AnyCalls(OutOf(m))) /\ c.buf \in Seq(Plain)
  /\ x.held \in Seq(Plain) /\ Len(x.held) < Full(m)
  /\ Append(T, c) \in Seq(AnyCalls(Plain)) /\ Bytes(T) \in Seq(Plain) /\ Bytes(Append(T, c)) = Bytes(T) \o c.buf

\* A new encoder holds nothing.
LEMMA NewEncoderIs ==
  ASSUME NEW m \in AllMethods
  PROVE  NewEncoder \in Encs(m) /\ NewEncoder.held = <<>> /\ NewEncoder.finished = FALSE
<1>. DEFINE e == NewEncoder
<1>1. e = [held |-> <<>>, finished |-> FALSE, taken |-> 0]
  BY DEF NewEncoder
<1>2. <<>> \in Seq(Plain) /\ Len(<<>>) = 0
  OBVIOUS
<1>3. Full(m) \in Nat \ {0}
  BY FullPositive
<1>. HIDE DEF e
<1>4. e \in [held : Seq(Plain), finished : BOOLEAN, taken : Nat] /\ Len(e.held) = 0 /\ e.finished = FALSE
  BY <1>1, <1>2
<1>5. Len(e.held) < Full(m)
  BY <1>3, <1>4
<1>. QED BY <1>1, <1>4, <1>5 DEF Encs, e

\* One more call, with what it keeps of the types.
LEMMA FeedNext ==
  ASSUME NEW m \in AllMethods, NEW T \in Seq(AnyCalls(Plain)), NEW c \in AnyCalls(Plain)
  PROVE  \E x : OneMore(m, T, c, x)
<1>. DEFINE e == NewEncoder
            C == AnyCalls(Plain)
            acc == Feed(m, e, T)
            l == Len(c.buf)
            x == Counting(acc.enc, l)
            r == Call(m, x, c)
<1>1. e \in Encs(m)
  BY NewEncoderIs
<1>2. Feed(m, e, Append(T, c)) = Pass(m, acc, c)
  <2>. HIDE DEF C, e
  <2>1. T \in Seq(C) /\ c \in C
    BY DEF C
  <2>. QED BY <2>1, FeedAppend
<1>3. Pass(m, acc, c).enc = r.enc
  BY PassEnc
<1>4. Pass(m, acc, c).calls = acc.calls \o r.calls
  BY PassCalls
<1>5. c.buf \in Seq(Plain) /\ l \in Nat
  <2>1. c.buf \in Seq(Plain)
    BY CallKinds
  <2>. QED BY <2>1, LenProperties
<1>6. acc.enc \in Encs(m) /\ acc.calls \in Seq(AnyCalls(OutOf(m)))
  BY <1>1, FeedTypes
<1>7. acc = Feed(m, NewEncoder, T)
  OBVIOUS
<1>. HIDE DEF acc, l, e
<1>8. x \in Encs(m) /\ x.held = acc.enc.held /\ x.finished = acc.enc.finished
  BY <1>5, <1>6, CountingIs
<1>. HIDE DEF x
<1>9. r.enc \in Encs(m) /\ r.calls \in Seq(AnyCalls(OutOf(m)))
  BY <1>8, CallTypes
<1>10. x.held \in Seq(Plain) /\ Len(x.held) < Full(m)
  BY <1>8 DEF Encs
<1>11. Bytes(T) \in Seq(Plain) /\ Bytes(Append(T, c)) = Bytes(T) \o c.buf
  BY BytesAppend
<1>12. Append(T, c) \in Seq(C)
  <2>. HIDE DEF C
  <2>1. T \in Seq(C) /\ c \in C
    BY DEF C
  <2>. QED BY <2>1, AppendProperties
<1>. HIDE DEF r
<1>13. OneMore(m, T, c, x)
  BY <1>2, <1>3, <1>4, <1>5, <1>6, <1>7, <1>8, <1>9, <1>10, <1>11, <1>12 DEF OneMore, Kept2, Sent, r, e
<1>. QED BY <1>13

\* What the calls M that do not finish it make of an encoder of groups.
MidFed(m, M) ==
  /\ Sent(m, M) \in Seq(MidCalls(OutOf(m))) /\ Kept2(m, M).finished = FALSE
  /\ Kept2(m, M).held = Rest(Bytes(M), Full(m))
  /\ Bytes(Sent(m, M)) = Coded(m, Groups(Bytes(M), Full(m)))

\* Before the first call.
LEMMA MidNothing ==
  ASSUME NEW m \in AllMethods
  PROVE  MidFed(m, <<>>)
<1>1. Kept2(m, <<>>) = NewEncoder /\ Sent(m, <<>>) = <<>>
  BY FeedEmpty DEF Kept2, Sent
<1>2. NewEncoder.held = <<>> /\ NewEncoder.finished = FALSE
  BY NewEncoderIs
<1>3. Full(m) \in Nat \ {0}
  BY FullPositive
<1>4. <<>> \in Seq(MidCalls(OutOf(m))) /\ <<>> \in Seq(Plain)
  OBVIOUS
<1>5. Groups(<<>>, Full(m)) = <<>> /\ Rest(<<>>, Full(m)) = <<>>
  <2>. DEFINE n == Full(m)
              h == NewEncoder.held
  <2>1. h \in Seq(Plain) /\ Len(h) < n
    BY <1>2, <1>3
  <2>. HIDE DEF n, h
  <2>2. n \in Nat \ {0}
    BY <1>3 DEF n
  <2>3. Groups(h, n) = <<>> /\ Rest(h, n) = h
    BY <2>1, <2>2, GroupsOfFew
  <2>. QED BY <1>2, <2>3 DEF n, h
<1>6. Bytes(<<>>) = <<>> /\ Coded(m, <<>>) = <<>>
  BY BytesEmpty, CodedEmpty
<1>. QED BY <1>1, <1>2, <1>4, <1>5, <1>6 DEF MidFed

\* A flush.
LEMMA MidFlush ==
  ASSUME NEW m \in {"SWAP2", "AES"}, NEW M \in Seq(MidCalls(Plain)), MidFed(m, M)
  PROVE  MidFed(m, Append(M, Flush))
<1>. DEFINE U == OutOf(m)
            S == Sent(m, M)
            D == MidCalls(U)
            N == Append(M, Flush)
<1>1. m \in AllMethods
  BY DEF AllMethods
<1>2. M \in Seq(AnyCalls(Plain)) /\ Flush \in AnyCalls(Plain) /\ Flush.buf = <<>>
  <2>1. MidCalls(Plain) \subseteq AnyCalls(Plain)
    BY CallKinds
  <2>. QED BY <2>1, CallKinds, SeqMonotonic
<1>3. PICK x : OneMore(m, M, Flush, x)
  BY <1>1, <1>2, FeedNext
<1>4. /\ x \in Encs(m) /\ x.held = Kept2(m, M).held /\ x.finished = Kept2(m, M).finished
      /\ Kept2(m, N) = Call(m, x, Flush).enc /\ Sent(m, N) = S \o Call(m, x, Flush).calls
      /\ Bytes(M) \in Seq(Plain) /\ Bytes(N) = Bytes(M) \o <<>>
  BY <1>2, <1>3 DEF OneMore
<1>5. S \in Seq(D) /\ Bytes(S) = Coded(m, Groups(Bytes(M), Full(m))) /\ Kept2(m, M).finished = FALSE
      /\ Kept2(m, M).held = Rest(Bytes(M), Full(m))
  BY DEF MidFed
<1>6. Bytes(N) = Bytes(M)
  BY <1>4, ConcatEmptySeq
<1>7. Call(m, x, Flush).enc = x /\ (Call(m, x, Flush).calls = <<>> \/ Call(m, x, Flush).calls = <<Flush>>)
  <2>1. m \in Swaps \/ m = "AES"
    BY DEF Swaps
  <2>2. Call(m, x, Flush) = [enc |-> x, calls |-> <<>>] \/ Call(m, x, Flush) = [enc |-> x, calls |-> <<Flush>>]
    BY <1>1, <1>4, <2>1, EndCalls
  <2>. QED BY <2>2
<1>8. Flush \in D /\ D \subseteq AnyCalls(U) /\ Flush \in AnyCalls(U)
  BY CallKinds
<1>. HIDE DEF S, D, N, U
<1>9. Sent(m, N) \in Seq(D) /\ Bytes(Sent(m, N)) = Bytes(S)
  <2>1. CASE Call(m, x, Flush).calls = <<>>
    <3>1. Sent(m, N) = S
      BY <1>4, <1>5, <2>1, ConcatEmptySeq
    <3>. QED BY <1>5, <3>1
  <2>2. CASE Call(m, x, Flush).calls = <<Flush>>
    <3>1. Sent(m, N) = Append(S, Flush)
      BY <1>4, <1>5, <2>2, AppendIsConcat
    <3>2. S \in Seq(AnyCalls(U))
      BY <1>5, <1>8, SeqMonotonic
    <3>3. Bytes(S) \in Seq(U) /\ Bytes(Append(S, Flush)) = Bytes(S) \o Flush.buf
      BY <1>8, <3>2, BytesAppend
    <3>4. Bytes(Append(S, Flush)) = Bytes(S)
      BY <1>2, <3>3, ConcatEmptySeq
    <3>. QED BY <1>5, <1>8, <3>1, <3>4, AppendProperties
  <2>. QED BY <1>7, <2>1, <2>2
<1>10. Kept2(m, N) = x
  BY <1>4, <1>7
<1>. QED BY <1>4, <1>5, <1>6, <1>9, <1>10 DEF MidFed, N, D, U

\* A write.
LEMMA MidData ==
  ASSUME NEW m \in {"SWAP2", "AES"}, NEW M \in Seq(MidCalls(Plain)), NEW c \in DataCalls(Plain), MidFed(m, M)
  PROVE  MidFed(m, Append(M, c))
<1>. DEFINE U == OutOf(m)
            S == Sent(m, M)
            D == MidCalls(U)
            N == Append(M, c)
            B == Bytes(M)
            b == c.buf
            n == Full(m)
            h == Rest(B, n)
            all == h \o b
<1>1. m \in AllMethods
  BY DEF AllMethods
<1>2. M \in Seq(AnyCalls(Plain)) /\ c \in AnyCalls(Plain)
  <2>1. MidCalls(Plain) \subseteq AnyCalls(Plain)
    BY CallKinds
  <2>. QED BY <2>1, CallKinds, SeqMonotonic
<1>3. PICK x : OneMore(m, M, c, x)
  BY <1>1, <1>2, FeedNext
<1>4. /\ x \in Encs(m) /\ x.held = Kept2(m, M).held /\ x.finished = Kept2(m, M).finished
      /\ Kept2(m, N) = Call(m, x, c).enc /\ Sent(m, N) = S \o Call(m, x, c).calls
      /\ B \in Seq(Plain) /\ Bytes(N) = B \o b /\ b \in Seq(Plain)
  BY <1>3 DEF OneMore
<1>5. S \in Seq(D) /\ Bytes(S) = Coded(m, Groups(B, n)) /\ Kept2(m, M).finished = FALSE
      /\ Kept2(m, M).held = h
  BY DEF MidFed
<1>6. ~x.finished /\ all = x.held \o c.buf
  BY <1>4, <1>5
<1>. HIDE DEF all
<1>7. /\ Call(m, x, c).enc = Holding(x, Rest(all, n)) /\ Call(m, x, c).calls \in Seq(DataCalls(U))
      /\ Bytes(Call(m, x, c).calls) = Coded(m, Groups(all, n)) /\ Groups(all, n) \in Seq(Parts(m))
  BY <1>1, <1>4, <1>6, WriteCall
<1>8. n \in Nat \ {0}
  BY <1>1, FullPositive
<1>9. DataCalls(U) \subseteq D /\ D \subseteq AnyCalls(U)
  BY CallKinds
<1>10. Groups(B, n) \in Seq(Parts(m))
  BY <1>1, <1>4, GroupsTaken
<1>. DEFINE e == Call(m, x, c).calls
<1>. HIDE DEF S, D, N, U, B, b, n, e
<1>11. Groups(B \o b, n) = Groups(B, n) \o Groups(all, n) /\ Rest(B \o b, n) = Rest(all, n)
  BY <1>4, <1>8, GroupsConcat DEF all
<1>12. Sent(m, N) \in Seq(D) /\ Bytes(Sent(m, N)) = Bytes(S) \o Bytes(e)
  <2>1. e \in Seq(D) /\ S \in Seq(AnyCalls(U)) /\ e \in Seq(AnyCalls(U))
    <3>1. e \in Seq(D)
      BY <1>7, <1>9, SeqMonotonic DEF e
    <3>. QED BY <1>5, <1>9, <3>1, SeqMonotonic
  <2>2. Bytes(S \o e) = Bytes(S) \o Bytes(e)
    BY <2>1, BytesConcat
  <2>3. S \o e \in Seq(D)
    BY <1>5, <2>1, ConcatProperties
  <2>. QED BY <1>4, <2>2, <2>3 DEF e
<1>13. Bytes(Sent(m, N)) = Coded(m, Groups(Bytes(N), n))
  <2>. DEFINE gs == Groups(B, n)
              hs == Groups(all, n)
  <2>1. gs \in Seq(Parts(m)) /\ hs \in Seq(Parts(m)) /\ Bytes(S) = Coded(m, gs) /\ Bytes(e) = Coded(m, hs)
        /\ Groups(Bytes(N), n) = gs \o hs
    BY <1>4, <1>5, <1>7, <1>10, <1>11 DEF e
  <2>. HIDE DEF gs, hs
  <2>2. Coded(m, gs \o hs) = Coded(m, gs) \o Coded(m, hs)
    BY <1>1, <2>1, CodedConcat
  <2>. QED BY <1>12, <2>1, <2>2
<1>14. Kept2(m, N).held = Rest(Bytes(N), n) /\ Kept2(m, N).finished = FALSE
  <2>. DEFINE k == Rest(all, n)
  <2>1. Kept2(m, N) = Holding(x, k) /\ Rest(Bytes(N), n) = k /\ x.finished = FALSE
    BY <1>4, <1>5, <1>7, <1>11
  <2>. HIDE DEF k
  <2>2. Holding(x, k).held = k /\ Holding(x, k).finished = x.finished
    BY <1>4 DEF Holding, Encs
  <2>. QED BY <2>1, <2>2
<1>. QED BY <1>12, <1>13, <1>14 DEF MidFed, N, D, U, n

\* All of them.
LEMMA MidFeed ==
  ASSUME NEW m \in {"SWAP2", "AES"}, NEW M \in Seq(MidCalls(Plain))
  PROVE  MidFed(m, M)
<1>. DEFINE C == MidCalls(Plain)
            T == {s \in Seq(C) : MidFed(m, s)}
<1>1. <<>> \in T
  <2>1. m \in AllMethods
    BY DEF AllMethods
  <2>2. <<>> \in Seq(C)
    OBVIOUS
  <2>. QED BY <2>1, <2>2, MidNothing
<1>2. ASSUME NEW s \in Seq(C), NEW c \in C, s \in T PROVE Append(s, c) \in T
  <2>1. c \in DataCalls(Plain) \/ c = Flush
    BY DEF MidCalls
  <2>2. MidFed(m, s)
    BY <1>2
  <2>3. MidFed(m, Append(s, c))
    BY <2>1, <2>2, MidData, MidFlush
  <2>4. Append(s, c) \in Seq(C)
    <3>. HIDE DEF C
    <3>. QED BY AppendProperties
  <2>. QED BY <2>3, <2>4
<1>3. Seq(C) \subseteq T
  <2>. HIDE DEF T, C
  <2>. QED BY <1>1, <1>2, SeqInduction
<1>. QED BY <1>3

\* Two sequences of calls and one more.
JoinedCalls(U, S, d, c) ==
  /\ S \o d \in Seq(MidCalls(U)) /\ S \o (d \o <<c>>) = Append(S \o d, c)
  /\ Append(S \o d, c) \in Seq(AnyCalls(U)) /\ Bytes(Append(S \o d, c)) = (Bytes(S) \o Bytes(d)) \o c.buf
  /\ Bytes(S) \in Seq(U) /\ Bytes(d) \in Seq(U) /\ S \in Seq(AnyCalls(U)) /\ d \in Seq(AnyCalls(U))

\* Calls behind calls, and a last one.
LEMMA CallsJoined ==
  ASSUME NEW U, NEW S \in Seq(MidCalls(U)), NEW d \in Seq(MidCalls(U)), NEW c \in AnyCalls(U)
  PROVE  JoinedCalls(U, S, d, c)
<1>. DEFINE D == MidCalls(U)
            C == AnyCalls(U)
<1>1. D \subseteq C
  BY CallKinds
<1>. HIDE DEF D, C
<1>2. S \in Seq(D) /\ d \in Seq(D) /\ c \in C /\ S \in Seq(C) /\ d \in Seq(C)
  BY <1>1, SeqMonotonic DEF D, C
<1>3. S \o d \in Seq(D)
  BY <1>2, ConcatProperties
<1>4. <<c>> \in Seq(C)
  BY <1>2
<1>5. S \o (d \o <<c>>) = (S \o d) \o <<c>>
  <2>1. Associates(S, d, <<c>>)
    BY <1>2, <1>4, Associate
  <2>. QED BY <2>1 DEF Associates
<1>6. S \o d \in Seq(C)
  BY <1>1, <1>3, SeqMonotonic
<1>7. (S \o d) \o <<c>> = Append(S \o d, c)
  BY <1>2, <1>6, AppendIsConcat
<1>8. Bytes(Append(S \o d, c)) = Bytes(S \o d) \o c.buf
  BY <1>2, <1>6, BytesAppend DEF C
<1>9. Bytes(S \o d) = Bytes(S) \o Bytes(d) /\ Bytes(S) \in Seq(U) /\ Bytes(d) \in Seq(U)
  BY <1>2, BytesConcat, BytesIn DEF C
<1>10. Append(S \o d, c) \in Seq(C)
  BY <1>2, <1>6, AppendProperties
<1>. QED BY <1>2, <1>3, <1>5, <1>7, <1>8, <1>9, <1>10 DEF JoinedCalls, D, C

\* Two of them are one behind the other.
LEMMA PairIs ==
  ASSUME NEW f, NEW g
  PROVE  <<f, g>> = <<f>> \o <<g>>
<1>. DEFINE A == {f, g}
            a == <<f>>
            b == <<g>>
            c == <<f, g>>
<1>1. a \in Seq(A) /\ b \in Seq(A) /\ c \in Seq(A) /\ Len(a) = 1 /\ Len(b) = 1 /\ Len(c) = 2
      /\ a[1] = f /\ b[1] = g /\ c[1] = f /\ c[2] = g
  OBVIOUS
<1>. HIDE DEF A, a, b, c
<1>2. /\ a \o b \in Seq(A) /\ Len(a \o b) = Len(a) + Len(b)
      /\ \A i \in 1..(Len(a) + Len(b)) : (a \o b)[i] = IF i <= Len(a) THEN a[i] ELSE b[i - Len(a)]
  BY <1>1, ConcatProperties
<1>3. Len(a \o b) = 2 /\ (a \o b)[1] = f /\ (a \o b)[2] = g
  BY <1>1, <1>2
<1>4. \A i \in 1..Len(c) : i = 1 \/ i = 2
  BY <1>1
<1>. DEFINE d == a \o b
<1>5. d \in Seq(A) /\ Len(c) = Len(d) /\ \A i \in 1..Len(c) : c[i] = d[i]
  BY <1>1, <1>2, <1>3, <1>4
<1>. HIDE DEF d
<1>6. c = d
  BY <1>1, <1>5, SeqEqual
<1>. QED BY <1>6 DEF a, b, c, d

\* What the end of a push makes of an encoder of swapped bytes: the last byte is sent on as
\* it is, and the encoder below is finished.
SwapSent(M) ==
  \E N \in Seq(MidCalls(Plain)) :
    /\ Sent("SWAP2", Append(M, Finish)) = Append(N, Finish)
    /\ Bytes(Append(N, Finish)) = Swapped(Bytes(Append(M, Finish)))

\* The empty write brings out the unit that is not full.
LEMMA SwapEnds ==
  ASSUME NEW M \in Seq(MidCalls(Plain))
  PROVE  SwapSent(M)
<1>. DEFINE m == "SWAP2"
            S == Sent(m, M)
            D == MidCalls(Plain)
            C == AnyCalls(Plain)
            B == Bytes(M)
            T == Append(M, Finish)
<1>1. m \in AllMethods /\ m \in {"SWAP2", "AES"} /\ m \in Swaps /\ Full(m) = 2 /\ OutOf(m) = Plain
  BY DEF AllMethods, Swaps, Full, Unit, OutOf
<1>2. D \subseteq C /\ Flush \in D /\ Flush \in C /\ Finish \in C /\ Flush.buf = <<>> /\ Finish.buf = <<>>
  BY CallKinds
<1>. HIDE DEF m, D, C
<1>3. M \in Seq(C)
  BY <1>2, SeqMonotonic DEF D
<1>4. PICK x : OneMore(m, M, Finish, x)
  BY <1>1, <1>2, <1>3, FeedNext DEF C
<1>5. /\ x \in Encs(m) /\ x.held = Kept2(m, M).held
      /\ Sent(m, T) = S \o Call(m, x, Finish).calls
      /\ B \in Seq(Plain) /\ Bytes(T) = B \o Finish.buf /\ x.held \in Seq(Plain) /\ Len(x.held) < 2
  BY <1>1, <1>4 DEF OneMore
<1>6. S \in Seq(D) /\ Bytes(S) = Coded(m, Groups(B, 2)) /\ x.held = Rest(B, 2)
  <2>1. MidFed(m, M)
    BY <1>1, MidFeed
  <2>. QED BY <1>1, <1>5, <2>1 DEF MidFed, D
<1>7. Call(m, x, Finish).calls = SwapTail(x) \o <<Flush, Finish>>
  <2>1. Call(m, x, Finish) = SwapFinish(x)
    BY <1>1, <1>2, CallOf, CallKinds
  <2>. QED BY <2>1 DEF SwapFinish, SwapTail, Step
<1>. DEFINE t == SwapTail(x)
            d == t \o <<Flush>>
            N == S \o d
<1>8. t \in Seq(DataCalls(Plain)) /\ Bytes(t) = x.held
  <2>1. Reverse(x.held) = x.held
    <3>. DEFINE h == x.held
    <3>1. h \in Seq(Plain) /\ Len(h) < 2
      BY <1>5
    <3>. HIDE DEF h
    <3>2. Reverse(h) = h
      BY <3>1, ReverseFew
    <3>. QED BY <3>2 DEF h
  <2>2. t \in Seq(DataCalls(Plain)) /\ Bytes(t) = Reverse(x.held)
    BY <1>5, SwapTailIs
  <2>. QED BY <2>1, <2>2
<1>. HIDE DEF t
<1>9. t \in Seq(D) /\ t \in Seq(C)
  <2>1. DataCalls(Plain) \subseteq D
    BY CallKinds DEF D
  <2>. QED BY <1>2, <1>8, <2>1, SeqMonotonic
<1>10. d \in Seq(D) /\ d = Append(t, Flush) /\ t \o <<Flush, Finish>> = d \o <<Finish>> /\ Bytes(d) = x.held
  <2>1. <<Flush>> \in Seq(C) /\ <<Finish>> \in Seq(C) /\ <<Flush, Finish>> = <<Flush>> \o <<Finish>>
    <3>. DEFINE f == Flush
                g == Finish
    <3>1. f \in C /\ g \in C
      BY <1>2
    <3>. HIDE DEF f, g
    <3>2. <<f>> \in Seq(C) /\ <<g>> \in Seq(C)
      BY <3>1
    <3>3. <<f, g>> = <<f>> \o <<g>>
      BY PairIs
    <3>. QED BY <3>2, <3>3 DEF f, g
  <2>2. t \o (<<Flush>> \o <<Finish>>) = (t \o <<Flush>>) \o <<Finish>>
    <3>1. Associates(t, <<Flush>>, <<Finish>>)
      BY <1>9, <2>1, Associate
    <3>. QED BY <3>1 DEF Associates
  <2>3. d = Append(t, Flush)
    BY <1>9, AppendIsConcat
  <2>4. Bytes(Append(t, Flush)) = Bytes(t) \o Flush.buf
    BY <1>2, <1>9, BytesAppend DEF C
  <2>5. Bytes(t) \o <<>> = Bytes(t)
    BY <1>5, <1>8, ConcatEmptySeq
  <2>6. Append(t, Flush) \in Seq(D)
    BY <1>2, <1>9, AppendProperties
  <2>. QED BY <1>2, <1>8, <2>1, <2>2, <2>3, <2>4, <2>5, <2>6
<1>. HIDE DEF d, S
<1>11. /\ N \in Seq(D) /\ S \o (d \o <<Finish>>) = Append(N, Finish)
       /\ Bytes(Append(N, Finish)) = (Bytes(S) \o Bytes(d)) \o Finish.buf
  <2>. DEFINE g == Finish
  <2>1. S \in Seq(MidCalls(Plain)) /\ d \in Seq(MidCalls(Plain)) /\ g \in AnyCalls(Plain)
    BY <1>2, <1>6, <1>10 DEF D, C
  <2>. HIDE DEF g
  <2>2. JoinedCalls(Plain, S, d, g)
    BY <2>1, CallsJoined
  <2>. QED BY <2>2 DEF JoinedCalls, D, g
<1>12. Sent(m, T) = Append(N, Finish)
  BY <1>5, <1>7, <1>10, <1>11 DEF t
<1>13. Bytes(Append(N, Finish)) = Swapped(Bytes(T))
  <2>. DEFINE y == Bytes(T)
  <2>1. y = B
    BY <1>2, <1>5, ConcatEmptySeq
  <2>2. Swapped(B) = Bytes(S) \o Bytes(d)
    BY <1>6, <1>10 DEF Swapped, m
  <2>3. Swapped(B) \in Seq(Plain)
    BY <1>5, SwappedIn
  <2>. HIDE DEF y
  <2>4. Swapped(B) \o <<>> = Swapped(B)
    BY <2>3, ConcatEmptySeq
  <2>. QED BY <1>2, <1>11, <2>1, <2>2, <2>4 DEF y
<1>. HIDE DEF N
<1>. QED BY <1>11, <1>12, <1>13 DEF SwapSent, D, T, m

\* The last block is its bytes and zeros.
LEMMA PaddedIs ==
  ASSUME NEW h \in Seq(Plain), Len(h) < AesBlock
  PROVE  \E z \in Zeros : Padded(h) = h \o z
<1>. DEFINE n == Len(h)
            z == [j \in 1..(AesBlock - n) |-> ZeroByte]
<1>1. n \in Nat /\ AesBlock \in Nat /\ AesBlock - n \in Nat /\ n <= AesBlock
  BY EncoderAssumption, LenProperties
<1>. DEFINE l == AesBlock - n
<1>2. l \in Nat /\ n + l = AesBlock
  BY <1>1
<1>. HIDE DEF n, l
<1>3. z = [j \in 1..l |-> ZeroByte]
  BY DEF l
<1>. HIDE DEF z
<1>4. z \in Seq({ZeroByte}) /\ Len(z) = l /\ \A j \in 1..l : z[j] = ZeroByte
  BY <1>2, <1>3
<1>5. h \o z = [j \in 1..(n + l) |-> IF j <= n THEN h[j] ELSE z[j - n]]
  <2>1. h \in Seq(Units) /\ z \in Seq(Units) /\ Len(h) = n /\ Len(z) = l
    BY <1>4, UnitsAre, ZerosIn DEF Zeros, n
  <2>. HIDE DEF n
  <2>2. h \o z \in Seq(Units) /\ Len(h \o z) = n + l /\ \A j \in 1..(n + l) : (h \o z)[j] = IF j <= n THEN h[j] ELSE z[j - n]
    BY <2>1, ConcatProperties
  <2>3. h \o z = [j \in 1..(n + l) |-> (h \o z)[j]]
    <3>. DEFINE w == h \o z
    <3>1. w \in Seq(Units) /\ Len(w) = n + l
      BY <2>2
    <3>. HIDE DEF w
    <3>2. w = [j \in 1..(n + l) |-> w[j]]
      BY <3>1
    <3>. QED BY <3>2 DEF w
  <2>. QED BY <2>2, <2>3
<1>6. Padded(h) = [j \in 1..AesBlock |-> IF j <= n THEN h[j] ELSE ZeroByte]
  BY DEF Padded, n
<1>7. \A j \in 1..AesBlock : ~(j <= n) => z[j - n] = ZeroByte
  <2>. SUFFICES ASSUME NEW j \in 1..AesBlock, ~(j <= n) PROVE z[j - n] = ZeroByte
    OBVIOUS
  <2>1. j - n \in 1..l
    BY <1>1, <1>2
  <2>. QED BY <1>4, <2>1
<1>8. Padded(h) = h \o z
  BY <1>2, <1>5, <1>6, <1>7
<1>. QED BY <1>4, <1>8 DEF Zeros

\* What the end of a push makes of an encoder of encrypted blocks.
LEMMA AesEnds ==
  ASSUME NEW M \in Seq(MidCalls(Plain))
  PROVE  PaddedFrom(Bytes(Sent("AES", Append(M, Finish))), Bytes(Append(M, Finish)))
<1>. DEFINE m == "AES"
            S == Sent(m, M)
            D == MidCalls(Plain)
            C == AnyCalls(Plain)
            B == Bytes(M)
            T == Append(M, Finish)
            n == AesBlock
            gs == Groups(B, n)
<1>1. m \in AllMethods /\ m \in {"SWAP2", "AES"} /\ Full(m) = n /\ OutOf(m) = Cipher
  BY DEF AllMethods, Full, OutOf
<1>2. D \subseteq C /\ Finish \in C /\ Finish.buf = <<>> /\ Finish \in AnyCalls(Cipher)
  BY CallKinds
<1>. HIDE DEF D, C
<1>3. M \in Seq(C)
  BY <1>2, SeqMonotonic DEF D
<1>. HIDE DEF m, n
<1>4. PICK x : OneMore(m, M, Finish, x)
  BY <1>1, <1>2, <1>3, FeedNext DEF C
<1>. DEFINE h == x.held
<1>5. /\ x \in Encs(m) /\ h = Kept2(m, M).held
      /\ Sent(m, T) = S \o Call(m, x, Finish).calls
      /\ B \in Seq(Plain) /\ Bytes(T) = B \o Finish.buf /\ h \in Seq(Plain) /\ Len(h) < n
  BY <1>1, <1>4 DEF OneMore
<1>6. S \in Seq(MidCalls(Cipher)) /\ Bytes(S) = Coded(m, gs) /\ h = Rest(B, n)
  <2>1. MidFed(m, M)
    BY <1>1, MidFeed
  <2>. QED BY <1>1, <1>5, <2>1 DEF MidFed
<1>7. Call(m, x, Finish).calls = AesTail(x) \o <<Finish>>
  <2>1. Call(m, x, Finish) = AesFinish(x)
    BY <1>1, <1>2, CallOf, CallKinds DEF m
  <2>. QED BY <2>1 DEF AesFinish, AesTail, Step
<1>. DEFINE t == AesTail(x)
            hs == IF h = <<>> THEN <<>> ELSE <<Padded(h)>>
<1>8. t \in Seq(DataCalls(Cipher)) /\ Padded(h) \in Parts("AES") /\ Bytes(t) = Coded("AES", hs)
  BY <1>5, AesTailIs DEF n
<1>9. t \in Seq(MidCalls(Cipher))
  <2>1. DataCalls(Cipher) \subseteq MidCalls(Cipher)
    BY CallKinds
  <2>. HIDE DEF t
  <2>. QED BY <1>8, <2>1, SeqMonotonic
<1>10. hs \in Seq(Parts("AES")) /\ gs \in Seq(Parts("AES"))
  <2>1. gs \in Seq(Parts("AES"))
    BY <1>1, <1>5, GroupsTaken DEF m
  <2>. DEFINE p == Padded(h)
              P == Parts("AES")
  <2>2. p \in P
    BY <1>8
  <2>. HIDE DEF p, P
  <2>3. <<>> \in Seq(P) /\ <<p>> \in Seq(P)
    BY <2>2
  <2>. QED BY <2>1, <2>3 DEF p, P
<1>11. \E z \in Zeros : FlattenSeq(hs) = h \o z
  <2>1. CASE h = <<>>
    <3>1. FlattenSeq(<<>>) = <<>> /\ <<>> \in Zeros /\ <<>> \o <<>> = <<>>
      BY NoFrames, ZerosIn
    <3>. QED BY <2>1, <3>1
  <2>2. CASE h # <<>>
    <3>1. PICK z \in Zeros : Padded(h) = h \o z
      BY <1>5, PaddedIs DEF n
    <3>. DEFINE p == Padded(h)
    <3>2. p \in Seq(Plain)
      <4>1. Parts("AES") = Blocks(AesBlock, Plain)
        BY DEF Parts, Framed, Full
      <4>2. AesBlock \in Nat
        BY EncoderAssumption
      <4>. QED BY <1>8, <4>1, <4>2, GroupsAreSeqs
    <3>. HIDE DEF p
    <3>3. FlattenSeq(<<p>>) = p
      BY <3>2, FlattenOne
    <3>. QED BY <2>2, <3>1, <3>3 DEF p
  <2>. QED BY <2>1, <2>2
<1>. HIDE DEF hs, t, h, gs, B, S, T
<1>12. PICK z \in Zeros : FlattenSeq(hs) = h \o z
  BY <1>11
<1>13. /\ Sent(m, T) = Append(S \o t, Finish) /\ Bytes(Sent(m, T)) = (Bytes(S) \o Bytes(t)) \o <<>>
       /\ Bytes(S) \in Seq(Cipher) /\ Bytes(t) \in Seq(Cipher)
  <2>. DEFINE g == Finish
  <2>1. g \in AnyCalls(Cipher) /\ g.buf = <<>> /\ Sent(m, T) = S \o (t \o <<g>>)
    BY <1>2, <1>5, <1>7 DEF t
  <2>. HIDE DEF g
  <2>2. JoinedCalls(Cipher, S, t, g)
    BY <1>6, <1>9, <2>1, CallsJoined
  <2>. QED BY <2>1, <2>2 DEF JoinedCalls, g
<1>14. Bytes(Sent(m, T)) = Coded("AES", gs \o hs)
  <2>. DEFINE a == Bytes(S)
              b == Bytes(t)
  <2>1. a \in Seq(Cipher) /\ b \in Seq(Cipher) /\ Bytes(Sent(m, T)) = (a \o b) \o <<>>
    BY <1>13
  <2>2. Coded("AES", gs \o hs) = Coded("AES", gs) \o Coded("AES", hs)
    BY <1>1, <1>10, CodedConcat DEF m
  <2>3. a = Coded("AES", gs) /\ b = Coded("AES", hs)
    BY <1>6, <1>8 DEF m
  <2>. HIDE DEF a, b
  <2>4. (a \o b) \o <<>> = a \o b
    <3>1. a \o b \in Seq(Cipher)
      BY <2>1, ConcatProperties
    <3>. QED BY <3>1, ConcatEmptySeq
  <2>. QED BY <2>1, <2>2, <2>3, <2>4
<1>15. gs \o hs \in AesBlocks
  <2>. DEFINE P == Parts("AES")
  <2>1. gs \in Seq(P) /\ hs \in Seq(P)
    BY <1>10
  <2>. HIDE DEF P
  <2>2. gs \o hs \in Seq(P)
    BY <2>1, ConcatProperties
  <2>. QED BY <2>2, AesParts DEF P
<1>16. FlattenSeq(gs \o hs) = B \o z
  <2>1. gs \in Seq(Seq(Plain)) /\ hs \in Seq(Seq(Plain))
    <3>1. Parts("AES") = Blocks(AesBlock, Plain)
      BY DEF Parts, Framed, Full
    <3>2. AesBlock \in Nat
      BY EncoderAssumption
    <3>3. Seq(Parts("AES")) \subseteq Seq(Seq(Plain))
      BY <3>1, <3>2, GroupsAreSeqs
    <3>. QED BY <1>10, <3>3
  <2>2. FlattenSeq(gs \o hs) = FlattenSeq(gs) \o FlattenSeq(hs)
    BY <2>1, FlattenConcat
  <2>3. FlattenSeq(gs) \in Seq(Plain)
    BY <2>1, FramesIn DEF Packets
  <2>4. FlattenSeq(gs) \o h = B
    <3>1. n \in Nat \ {0}
      BY EncoderAssumption DEF n
    <3>. QED BY <1>5, <1>6, <3>1, GroupsParts DEF gs
  <2>. DEFINE f == FlattenSeq(gs)
  <2>5. f \in Seq(Units) /\ h \in Seq(Units) /\ z \in Seq(Units)
    BY <1>5, <2>3, UnitsAre, ZerosIn
  <2>. HIDE DEF f
  <2>6. (f \o h) \o z = f \o (h \o z)
    <3>1. Associates(f, h, z)
      BY <2>5, Associate
    <3>. QED BY <3>1 DEF Associates
  <2>. QED BY <1>12, <2>2, <2>4, <2>6 DEF f
<1>17. Bytes(T) = B
  BY <1>2, <1>5, ConcatEmptySeq
<1>. QED BY <1>14, <1>15, <1>16, <1>17 DEF PaddedFrom, T, m

\* The calls that are no writes of data.
Ends == {Flush, Finish}

\* No such call comes when just one byte was written: a frame of one byte cannot be told
\* from no frame by the one that looks for a header in it.
NotOne(T) == \A k \in 1..Len(T) : T[k] \in Ends => Len(Bytes(First(T, k - 1))) # 1

\* The calls that write nothing, and those that write.
LEMMA EndsAre ==
  /\ Ends \subseteq AnyCalls(Plain) /\ DataCalls(Plain) \subseteq AnyCalls(Plain) /\ DataCalls(Plain) \subseteq MidCalls(Plain)
  /\ MidCalls(Plain) \subseteq AnyCalls(Plain) /\ Seq(MidCalls(Plain)) \subseteq Seq(AnyCalls(Plain))
  /\ Seq(DataCalls(Plain)) \subseteq Seq(AnyCalls(Plain)) /\ Seq(DataCalls(Plain)) \subseteq Seq(MidCalls(Plain))
  /\ \A c \in Ends : c.buf = <<>>
  /\ \A c \in DataCalls(Plain) : c \notin Ends /\ c.buf \in Seq(Plain) /\ c.buf # <<>>
  /\ \A c \in AnyCalls(Plain) : c \in DataCalls(Plain) \/ c \in Ends
<1>1. /\ DataCalls(Plain) \subseteq MidCalls(Plain) /\ MidCalls(Plain) \subseteq AnyCalls(Plain)
      /\ Flush \in MidCalls(Plain) /\ Finish \in AnyCalls(Plain)
      /\ Flush.buf = <<>> /\ Finish.buf = <<>>
      /\ \A c \in DataCalls(Plain) : c # Flush /\ c # Finish /\ c.buf \in Seq(Plain) \ {<<>>}
  BY CallKinds
<1>2. \A c \in AnyCalls(Plain) : c \in DataCalls(Plain) \/ c = Flush \/ c = Finish
  BY DEF AnyCalls, MidCalls
<1>. DEFINE A == AnyCalls(Plain)
            M == MidCalls(Plain)
            D == DataCalls(Plain)
<1>3. D \subseteq M /\ M \subseteq A /\ D \subseteq A
  BY <1>1
<1>. HIDE DEF A, M, D
<1>4. Seq(M) \subseteq Seq(A) /\ Seq(D) \subseteq Seq(A) /\ Seq(D) \subseteq Seq(M)
  BY <1>3, SeqMonotonic
<1>. QED BY <1>1, <1>2, <1>3, <1>4 DEF Ends, A, M, D

\* What comes before a call does not change when another one follows.
LEMMA FirstsAppend ==
  ASSUME NEW S, NEW T \in Seq(S), NEW c \in S
  PROVE  /\ \A k \in 0..Len(T) : First(Append(T, c), k) = First(T, k)
         /\ First(Append(T, c), Len(T)) = T /\ Len(Append(T, c)) = Len(T) + 1 /\ Len(T) \in Nat
         /\ Append(T, c)[Len(T) + 1] = c /\ \A k \in 1..Len(T) : Append(T, c)[k] = T[k]
<1>. DEFINE A == Append(T, c)
            n == Len(T)
<1>1. n \in Nat
  BY LenProperties
<1>2. A \in Seq(S) /\ Len(A) = n + 1 /\ A[n + 1] = c /\ \A k \in 1..n : A[k] = T[k]
  BY <1>1, AppendProperties
<1>. HIDE DEF A
<1>3. ASSUME NEW k \in 0..n PROVE First(A, k) = First(T, k)
  <2>. DEFINE a == First(A, k)
              b == First(T, k)
  <2>1. k \in 0..Len(A)
    BY <1>1, <1>2
  <2>2. a \in Seq(S) /\ Len(a) = k /\ \A j \in 1..k : a[j] = A[j]
    BY <1>2, <2>1, CutIs
  <2>3. b \in Seq(S) /\ Len(b) = k /\ \A j \in 1..k : b[j] = T[j]
    BY CutIs
  <2>4. \A j \in 1..k : j \in 1..n
    BY <1>1
  <2>. HIDE DEF a, b
  <2>5. Len(a) = Len(b) /\ \A j \in 1..Len(a) : a[j] = b[j]
    BY <1>2, <2>2, <2>3, <2>4
  <2>6. a = b
    BY <2>2, <2>3, <2>5, SeqEqual
  <2>. QED BY <2>6 DEF a, b
<1>4. First(T, n) = T
  <2>. DEFINE b == First(T, n)
  <2>1. n \in 0..Len(T)
    BY <1>1
  <2>2. b \in Seq(S) /\ Len(b) = n /\ \A j \in 1..n : b[j] = T[j]
    BY <2>1, CutIs
  <2>. HIDE DEF b
  <2>3. b = T
    BY <2>2, SeqEqual
  <2>. QED BY <2>3 DEF b
<1>. QED BY <1>1, <1>2, <1>3, <1>4 DEF A

\* One more call.
LEMMA NotOneAppend ==
  ASSUME NEW T \in Seq(AnyCalls(Plain)), NEW c \in AnyCalls(Plain)
  PROVE  NotOne(Append(T, c)) <=> NotOne(T) /\ (c \in Ends => Len(Bytes(T)) # 1)
<1>. DEFINE S == AnyCalls(Plain)
            A == Append(T, c)
            n == Len(T)
<1>1. T \in Seq(S) /\ c \in S
  OBVIOUS
<1>. HIDE DEF S
<1>2. /\ \A k \in 0..n : First(A, k) = First(T, k)
      /\ First(A, n) = T /\ Len(A) = n + 1 /\ n \in Nat /\ A[n + 1] = c /\ \A k \in 1..n : A[k] = T[k]
  BY <1>1, FirstsAppend
<1>. HIDE DEF A, n
<1>3. \A k \in 1..n : k \in 1..(n + 1) /\ k - 1 \in 0..n
  BY <1>2
<1>4. ASSUME NotOne(A) PROVE NotOne(T) /\ (c \in Ends => Len(Bytes(T)) # 1)
  <2>1. \A k \in 1..(n + 1) : A[k] \in Ends => Len(Bytes(First(A, k - 1))) # 1
    BY <1>2, <1>4 DEF NotOne
  <2>2. \A k \in 1..n : T[k] \in Ends => Len(Bytes(First(T, k - 1))) # 1
    BY <1>2, <1>3, <2>1
  <2>3. n + 1 \in 1..(n + 1) /\ (n + 1) - 1 = n
    BY <1>2
  <2>4. c \in Ends => Len(Bytes(T)) # 1
    BY <1>2, <2>1, <2>3
  <2>. QED BY <2>2, <2>4 DEF NotOne, n
<1>5. ASSUME NotOne(T), c \in Ends => Len(Bytes(T)) # 1 PROVE NotOne(A)
  <2>1. \A k \in 1..n : T[k] \in Ends => Len(Bytes(First(T, k - 1))) # 1
    BY <1>5 DEF NotOne, n
  <2>2. ASSUME NEW k \in 1..(n + 1), A[k] \in Ends PROVE Len(Bytes(First(A, k - 1))) # 1
    <3>1. CASE k = n + 1
      <4>1. k - 1 = n
        BY <1>2, <3>1
      <4>. QED BY <1>2, <1>5, <2>2, <3>1, <4>1
    <3>2. CASE k # n + 1
      <4>1. k \in 1..n
        BY <1>2, <3>2
      <4>. QED BY <1>2, <1>3, <2>1, <2>2, <4>1
    <3>. QED BY <3>1, <3>2
  <2>. QED BY <1>2, <2>2 DEF NotOne
<1>. QED BY <1>4, <1>5 DEF A

\* Of no calls.
LEMMA NotOneEmpty == NotOne(<<>>)
BY DEF NotOne

\* Writes do not matter.
LEMMA NotOneData ==
  ASSUME NEW T \in Seq(AnyCalls(Plain)), NotOne(T), NEW ds \in Seq(DataCalls(Plain))
  PROVE  NotOne(T \o ds)
<1>. DEFINE D == DataCalls(Plain)
            C == AnyCalls(Plain)
            In == {d \in Seq(D) : NotOne(T \o d)}
<1>0. D \subseteq C /\ Seq(D) \subseteq Seq(C) /\ \A c \in D : c \notin Ends
  BY EndsAre
<1>1. <<>> \in In
  <2>1. T \o <<>> = T /\ <<>> \in Seq(D)
    BY ConcatEmptySeq
  <2>. QED BY <2>1
<1>2. ASSUME NEW d \in Seq(D), NEW c \in D, d \in In PROVE Append(d, c) \in In
  <2>1. NotOne(T \o d) /\ T \in Seq(C)
    BY <1>2
  <2>. HIDE DEF C, D
  <2>2. d \in Seq(C) /\ c \in C /\ <<c>> \in Seq(C) /\ T \in Seq(C)
    BY <1>0, <2>1
  <2>3. Append(d, c) = d \o <<c>> /\ T \o (d \o <<c>>) = (T \o d) \o <<c>> /\ T \o d \in Seq(C)
    <3>1. Append(d, c) = d \o <<c>> /\ T \o d \in Seq(C)
      BY <2>2, AppendIsConcat, ConcatProperties
    <3>2. Associates(T, d, <<c>>)
      BY <2>2, Associate
    <3>. QED BY <3>1, <3>2 DEF Associates
  <2>4. (T \o d) \o <<c>> = Append(T \o d, c)
    BY <2>2, <2>3, AppendIsConcat
  <2>5. NotOne(Append(T \o d, c))
    BY <1>0, <2>1, <2>2, <2>3, NotOneAppend DEF C
  <2>6. Append(d, c) \in Seq(D)
    BY AppendProperties
  <2>. QED BY <2>3, <2>4, <2>5, <2>6
<1>3. Seq(D) \subseteq In
  <2>. HIDE DEF In, D
  <2>. QED BY <1>1, <1>2, SeqInduction
<1>. QED BY <1>3

\* Frames are nothing, or more than a header.
LEMMA FramingLen ==
  ASSUME NEW ps \in Packets
  PROVE  /\ ps # <<>> => Len(Framing(ps)) >= 3 /\ Framing(ps) # <<>>
         /\ Len(Framing(ps)) # 1
<1>1. CASE ps = <<>>
  <2>1. Framing(ps) = <<>>
    BY <1>1, NoFrames
  <2>. QED BY <1>1, <2>1
<1>2. CASE ps # <<>>
  <2>. DEFINE p == ps[1]
              qs == From(ps, 1)
              H == FrameHeader(Len(p) + 1)
              E == Append(p, EndMark)
              F == Framing(qs)
  <2>1. /\ p \in Seq(Plain) /\ qs \in Packets /\ H \in Seq(Plain) /\ E \in Seq(Plain)
        /\ Framing(ps) = H \o (E \o F)
    BY <1>2, FramesFront
  <2>2. Len(p) \in Nat
    BY <2>1, LenProperties
  <2>3. Len(H) = 2 /\ Len(E) = Len(p) + 1
    <3>1. Len(p) + 1 \in Nat
      BY <2>2
    <3>. HIDE DEF p
    <3>2. Len(E) = Len(p) + 1
      BY <2>1, PlainUnits, AppendProperties
    <3>. QED BY <3>1, <3>2, PlainUnits
  <2>4. F \in Seq(Plain)
    BY <2>1, FramesIn
  <2>. HIDE DEF H, E, F
  <2>5. E \o F \in Seq(Plain) /\ Len(E \o F) = Len(E) + Len(F) /\ Len(F) \in Nat
    BY <2>1, <2>4, ConcatProperties, LenProperties
  <2>. DEFINE G == E \o F
  <2>6. G \in Seq(Plain) /\ Len(G) = Len(E) + Len(F)
    BY <2>5
  <2>. HIDE DEF G
  <2>7. H \o G \in Seq(Plain) /\ Len(H \o G) = Len(H) + Len(G)
    BY <2>1, <2>6, ConcatProperties
  <2>8. Len(Framing(ps)) >= 3 /\ Len(Framing(ps)) # 1
    <3>1. Len(Framing(ps)) = Len(H) + Len(G)
      BY <2>1, <2>7 DEF G
    <3>. QED BY <2>2, <2>3, <2>5, <2>6, <3>1
  <2>9. Framing(ps) # <<>>
    <3>1. Len(<<>>) = 0
      OBVIOUS
    <3>. QED BY <2>8, <3>1
  <2>. QED BY <2>8, <2>9
<1>. QED BY <1>1, <1>2

\* Frames after frames.
FramesJoined(ps, qs) ==
  /\ ps \o qs \in Packets /\ Framing(ps \o qs) = Framing(ps) \o Framing(qs)
  /\ FlattenSeq(ps \o qs) = FlattenSeq(ps) \o FlattenSeq(qs)

\* The frames of packets behind packets.
LEMMA FramesJoin ==
  ASSUME NEW ps \in Packets, NEW qs \in Packets
  PROVE  FramesJoined(ps, qs)
<1>1. "LZ4" \in AllMethods /\ Parts("LZ4") = Seq(Plain)
  BY DEF AllMethods, Parts, Framed
<1>2. Framing(ps \o qs) = Framing(ps) \o Framing(qs)
  BY <1>1, CodedConcat DEF Framing, Packets
<1>. DEFINE P == Seq(Plain)
<1>3. ps \in Seq(P) /\ qs \in Seq(P)
  BY DEF Packets
<1>4. FlattenSeq(ps \o qs) = FlattenSeq(ps) \o FlattenSeq(qs)
  BY <1>3, FlattenConcat
<1>5. ps \o qs \in Seq(P)
  <2>. HIDE DEF P
  <2>. QED BY <1>3, ConcatProperties
<1>. QED BY <1>2, <1>4, <1>5 DEF FramesJoined, Packets

\* No part is empty.
Sliced(ps) == \A g \in 1..Len(ps) : ps[g] # <<>>

SlicesJoined(ps, qs) ==
  /\ Sliced(ps) /\ Sliced(qs) => Sliced(ps \o qs)
  /\ ps # <<>> => (ps \o qs)[1] = ps[1]
  /\ ps = <<>> => ps \o qs = qs

\* Packets that are not empty, behind such packets.
LEMMA SlicesJoin ==
  ASSUME NEW ps \in Packets, NEW qs \in Packets
  PROVE  SlicesJoined(ps, qs)
<1>. DEFINE P == Seq(Plain)
            a == ps \o qs
            k == Len(ps)
            l == Len(qs)
<1>1. ps \in Seq(P) /\ qs \in Seq(P)
  BY DEF Packets
<1>. HIDE DEF P
<1>2. a \in Seq(P) /\ Len(a) = k + l /\ \A i \in 1..(k + l) : a[i] = IF i <= k THEN ps[i] ELSE qs[i - k]
  BY <1>1, ConcatProperties
<1>3. k \in Nat /\ l \in Nat /\ (ps # <<>> => k >= 1)
  BY <1>1, LenProperties, EmptySeq
<1>4. ASSUME Sliced(ps), Sliced(qs), NEW i \in 1..Len(a) PROVE a[i] # <<>>
  <2>1. i \in 1..(k + l)
    BY <1>2
  <2>2. CASE i <= k
    <3>1. i \in 1..k /\ a[i] = ps[i]
      BY <1>2, <1>3, <2>1, <2>2
    <3>. QED BY <1>4, <3>1 DEF Sliced
  <2>3. CASE ~(i <= k)
    <3>1. i - k \in 1..l /\ a[i] = qs[i - k]
      BY <1>2, <1>3, <2>1, <2>3
    <3>. QED BY <1>4, <3>1 DEF Sliced
  <2>. QED BY <2>2, <2>3
<1>5. ps # <<>> => a[1] = ps[1]
  <2>. SUFFICES ASSUME ps # <<>> PROVE a[1] = ps[1]
    OBVIOUS
  <2>1. 1 \in 1..(k + l) /\ 1 <= k
    BY <1>3
  <2>. HIDE DEF a
  <2>. QED BY <1>2, <2>1
<1>6. ps = <<>> => a = qs
  BY <1>1, ConcatEmptySeq
<1>. QED BY <1>4, <1>5, <1>6 DEF SlicesJoined, Sliced

\* The bytes of the calls T are those of the frames ps that were sent on by the calls S, and
\* those that are kept.
Slices(T, h, S, ps) ==
  /\ ps \in Packets /\ Sliced(ps) /\ h \in Seq(Plain) /\ S \in Seq(AnyCalls(Plain))
  /\ FlattenSeq(ps) \o h = Bytes(T) /\ Bytes(S) = Framing(ps)
  /\ NotOne(T) /\ ps # <<>> => Len(ps[1]) >= HeaderSize

\* More frames, of what was kept and what is new.
MoreSlices(T, c, h, ps, ds, qs, h2) ==
  /\ qs \in Packets /\ Sliced(qs) /\ h2 \in Seq(Plain) /\ ds \in Seq(AnyCalls(Plain))
  /\ FlattenSeq(qs) \o h2 = h \o c.buf /\ Bytes(ds) = Framing(qs)
  /\ NotOne(Append(T, c)) /\ ps = <<>> /\ qs # <<>> => Len(qs[1]) >= HeaderSize

\* One more call keeps what Slices says.
LEMMA SlicesNext ==
  ASSUME NEW T \in Seq(AnyCalls(Plain)), NEW c \in AnyCalls(Plain), NEW h, NEW S, NEW ps, Slices(T, h, S, ps),
         NEW ds, NEW qs, NEW h2, MoreSlices(T, c, h, ps, ds, qs, h2)
  PROVE  Slices(Append(T, c), h2, S \o ds, ps \o qs)
<1>. DEFINE N == Append(T, c)
            b == c.buf
            B == Bytes(T)
            f == FlattenSeq(ps)
            g == FlattenSeq(qs)
            C == AnyCalls(Plain)
<1>1. /\ ps \in Packets /\ Sliced(ps) /\ h \in Seq(Plain) /\ S \in Seq(C) /\ f \o h = B /\ Bytes(S) = Framing(ps)
      /\ NotOne(T) /\ ps # <<>> => Len(ps[1]) >= HeaderSize
  BY DEF Slices
<1>2. /\ qs \in Packets /\ Sliced(qs) /\ h2 \in Seq(Plain) /\ ds \in Seq(C)
      /\ g \o h2 = h \o b /\ Bytes(ds) = Framing(qs)
      /\ NotOne(N) /\ ps = <<>> /\ qs # <<>> => Len(qs[1]) >= HeaderSize
  BY DEF MoreSlices
<1>3. B \in Seq(Plain) /\ Bytes(N) = B \o b /\ b \in Seq(Plain)
  BY BytesAppend, CallKinds
<1>4. f \in Seq(Plain) /\ g \in Seq(Plain)
  BY <1>1, <1>2, FramesIn
<1>5. ps \o qs \in Packets /\ Framing(ps \o qs) = Framing(ps) \o Framing(qs) /\ FlattenSeq(ps \o qs) = f \o g
  BY <1>1, <1>2, FramesJoin DEF FramesJoined
<1>6. Sliced(ps \o qs) /\ (ps # <<>> => (ps \o qs)[1] = ps[1]) /\ (ps = <<>> => ps \o qs = qs)
  <2>1. SlicesJoined(ps, qs)
    BY <1>1, <1>2, SlicesJoin
  <2>. QED BY <1>1, <1>2, <2>1 DEF SlicesJoined
<1>7. Bytes(S \o ds) = Bytes(S) \o Bytes(ds) /\ S \o ds \in Seq(C)
  <2>1. Bytes(S \o ds) = Bytes(S) \o Bytes(ds)
    BY <1>1, <1>2, BytesConcat
  <2>. HIDE DEF C
  <2>. QED BY <1>1, <1>2, <2>1, ConcatProperties
<1>8. NotOne(N) => NotOne(T)
  BY NotOneAppend
<1>. HIDE DEF N, b, B, f, g, C
<1>9. (f \o g) \o h2 = Bytes(N)
  <2>1. f \in Seq(Plain) /\ g \in Seq(Plain) /\ h \in Seq(Plain) /\ h2 \in Seq(Plain) /\ b \in Seq(Plain)
    BY <1>1, <1>2, <1>3, <1>4
  <2>2. (f \o g) \o h2 = f \o (g \o h2)
    <3>1. Associates(f, g, h2)
      BY <2>1, Associate
    <3>. QED BY <3>1 DEF Associates
  <2>3. (f \o h) \o b = f \o (h \o b)
    <3>1. Associates(f, h, b)
      BY <2>1, Associate
    <3>. QED BY <3>1 DEF Associates
  <2>. QED BY <1>1, <1>2, <1>3, <2>2, <2>3
<1>10. NotOne(N) /\ ps \o qs # <<>> => Len((ps \o qs)[1]) >= HeaderSize
  <2>1. CASE ps = <<>>
    BY <1>2, <1>6, <2>1
  <2>2. CASE ps # <<>>
    BY <1>1, <1>6, <1>8, <2>2
  <2>. QED BY <2>1, <2>2
<1>11. Bytes(S \o ds) = Framing(ps \o qs)
  BY <1>1, <1>2, <1>5, <1>7
<1>. QED BY <1>2, <1>5, <1>6, <1>7, <1>9, <1>10, <1>11 DEF Slices, N, C

\* The groups of a frame each.
LEMMA SlicesOf ==
  ASSUME NEW s \in Seq(Plain)
  PROVE  /\ Groups(s, FrameSize) \in Packets /\ Sliced(Groups(s, FrameSize))
         /\ Groups(s, FrameSize) # <<>> => Len(Groups(s, FrameSize)[1]) >= HeaderSize
         /\ Rest(s, FrameSize) \in Seq(Plain) /\ Len(Rest(s, FrameSize)) < FrameSize
         /\ FlattenSeq(Groups(s, FrameSize)) \o Rest(s, FrameSize) = s
<1>. DEFINE n == FrameSize
            gs == Groups(s, n)
            A == Blocks(n, Plain)
<1>1. n \in Nat \ {0} /\ HeaderSize <= n
  BY EncoderAssumption, DecoderAssumption
<1>. HIDE DEF n
<1>2. gs \in Seq(A) /\ Rest(s, n) \in Seq(Plain) /\ Len(Rest(s, n)) < n /\ FlattenSeq(gs) \o Rest(s, n) = s
  BY <1>1, GroupsParts
<1>3. A \subseteq Seq(Plain) /\ (\A g \in A : Len(g) = n) /\ Seq(A) \subseteq Seq(Seq(Plain))
  BY <1>1, GroupsAreSeqs
<1>. HIDE DEF gs, A
<1>4. \A i \in 1..Len(gs) : gs[i] \in A
  BY <1>2
<1>5. \A i \in 1..Len(gs) : Len(gs[i]) = n
  BY <1>3, <1>4
<1>6. Sliced(gs)
  <2>1. Len(<<>>) = 0
    OBVIOUS
  <2>. QED BY <1>1, <1>5, <2>1 DEF Sliced
<1>7. gs # <<>> => Len(gs[1]) >= HeaderSize
  <2>1. gs # <<>> => 1 \in 1..Len(gs)
    BY <1>2, EmptySeq, LenProperties
  <2>. QED BY <1>1, <1>5, <2>1
<1>. QED BY <1>2, <1>3, <1>6, <1>7 DEF gs, n, Packets

\* What calls make of an encoder of frames that writes no empty ones.
Lz4Fed(T) ==
  /\ \E ps : Slices(T, Kept2("LZ4", T).held, Sent("LZ4", T), ps)
  /\ NotOne(Sent("LZ4", T))

\* Before the first call.
LEMMA Lz4Nothing == Lz4Fed(<<>>)
<1>. DEFINE m == "LZ4"
            e == <<>>
<1>1. m \in AllMethods
  BY DEF AllMethods
<1>2. Kept2(m, e) = NewEncoder /\ Sent(m, e) = <<>>
  BY FeedEmpty DEF Kept2, Sent
<1>3. NewEncoder.held = <<>>
  BY <1>1, NewEncoderIs
<1>4. <<>> \in Packets /\ <<>> \in Seq(Plain) /\ <<>> \in Seq(AnyCalls(Plain)) /\ <<>> \o <<>> = <<>>
  BY DEF Packets
<1>5. Bytes(<<>>) = <<>> /\ FlattenSeq(<<>>) = <<>> /\ Framing(<<>>) = <<>> /\ NotOne(<<>>)
  BY BytesEmpty, NoFrames, NotOneEmpty
<1>6. Sliced(<<>>)
  BY DEF Sliced
<1>7. Slices(e, e, e, e)
  BY <1>4, <1>5, <1>6 DEF Slices
<1>8. Kept2(m, e).held = e /\ Sent(m, e) = e
  BY <1>2, <1>3
<1>. HIDE DEF e
<1>9. Lz4Fed(e)
  BY <1>5, <1>7, <1>8 DEF Lz4Fed, e
<1>. QED BY <1>9 DEF e

\* All methods of frames write the same frames.
LEMMA FramedAlike ==
  ASSUME NEW m \in Framed, NEW g
  PROVE  EncodedBy(m, g) = EncodedBy("LZ4", g)
<1>. DEFINE l == "LZ4"
<1>1. l \in Framed
  BY DEF Framed
<1>. HIDE DEF l
<1>2. EncodedBy(l, g) = FrameHeader(Len(g) + 1) \o Append(g, EndMark)
  BY <1>1, EncodedIs
<1>3. EncodedBy(m, g) = FrameHeader(Len(g) + 1) \o Append(g, EndMark)
  BY EncodedIs
<1>. QED BY <1>2, <1>3 DEF l

\* So they write a list of packets in the same way.
LEMMA CodedAlike ==
  ASSUME NEW m \in Framed, NEW ps
  PROVE  Coded(m, ps) = Framing(ps)
<1>1. \A i : EncodedBy(m, ps[i]) = EncodedBy("LZ4", ps[i])
  BY FramedAlike
<1>. DEFINE l == "LZ4"
<1>. HIDE DEF l
<1>2. \A i : EncodedBy(m, ps[i]) = EncodedBy(l, ps[i])
  BY <1>1 DEF l
<1>3. [i \in DOMAIN ps |-> EncodedBy(m, ps[i])] = [i \in DOMAIN ps |-> EncodedBy(l, ps[i])]
  BY <1>2
<1>. QED BY <1>3 DEF Coded, Framing, l

\* A write on an encoder of frames, and the call that ends one.
WritesFrames(m, x, c) ==
  /\ ~x.finished /\ Call(m, x, c).calls \in Seq(DataCalls(Plain))
  /\ Bytes(Call(m, x, c).calls) = Framing(Groups(x.held \o c.buf, FrameSize))
  /\ Call(m, x, c).enc.held = Rest(x.held \o c.buf, FrameSize) /\ x.held \o c.buf \in Seq(Plain)

\* So it is for LZ4 and BROTLI.
LEMMA FrameWrite ==
  ASSUME NEW m \in Framed, NEW x \in Encs(m), NEW c \in DataCalls(Plain)
  PROVE  WritesFrames(m, x, c)
<1>1. m \in AllMethods /\ m # "AES" /\ Full(m) = FrameSize /\ OutOf(m) = Plain
  BY DEF Framed, AllMethods, Full, OutOf
<1>. DEFINE all == x.held \o c.buf
<1>2. all \in Seq(Plain)
  <2>1. x.held \in Seq(Plain) /\ c.buf \in Seq(Plain)
    BY EndsAre DEF Encs
  <2>. QED BY <2>1, ConcatProperties
<1>3. ~x.finished
  BY <1>1 DEF Encs
<1>. HIDE DEF all
<1>4. /\ Call(m, x, c).enc = Holding(x, Rest(all, Full(m)))
      /\ Call(m, x, c).calls \in Seq(DataCalls(OutOf(m)))
      /\ Bytes(Call(m, x, c).calls) = Coded(m, Groups(all, Full(m)))
  BY <1>1, <1>3, WriteCall DEF all
<1>5. Coded(m, Groups(all, FrameSize)) = Framing(Groups(all, FrameSize))
  BY CodedAlike
<1>6. Call(m, x, c).enc.held = Rest(all, FrameSize)
  <2>. DEFINE k == Rest(all, FrameSize)
  <2>1. Call(m, x, c).enc = Holding(x, k)
    BY <1>1, <1>4
  <2>. HIDE DEF k
  <2>2. Holding(x, k).held = k
    BY DEF Holding, Encs
  <2>. QED BY <2>1, <2>2 DEF k
<1>. QED BY <1>1, <1>2, <1>3, <1>4, <1>5, <1>6 DEF WritesFrames, all

\* The last frame that m writes.
EndsFrame(m, x, c, ps) ==
  /\ ps \in Packets /\ ps = LastParts(m, x)
  /\ Call(m, x, c).enc.held = <<>>
  /\ \E ds \in Seq(DataCalls(Plain)) : Call(m, x, c).calls = ds \o <<c>> /\ Bytes(ds) = Framing(ps)

\* So it is for a flush, and for the empty write on LZ4.
LEMMA FrameEnd ==
  ASSUME NEW m \in Framed, NEW x \in Encs(m), NEW c \in Ends, m = "LZ4" \/ c = Flush
  PROVE  EndsFrame(m, x, c, LastParts(m, x))
<1>1. m \in AllMethods
  BY DEF Framed, AllMethods
<1>2. x.held \in Seq(Plain)
  BY DEF Encs
<1>. DEFINE ds == LastFrame(m, x)
            ps == LastParts(m, x)
<1>3. ds \in Seq(DataCalls(Plain)) /\ ps \in Packets /\ Bytes(ds) = Coded(m, ps)
  BY <1>2, LastFrameIs DEF Packets
<1>. HIDE DEF ds, ps
<1>4. Call(m, x, c) = Step(x, <<>>, ds \o <<c>>)
  <2>1. CASE c = Flush
    BY <1>1, <2>1, EndCalls DEF ds
  <2>2. CASE c # Flush
    BY <1>1, <2>2, EndCalls DEF ds, Ends
  <2>. QED BY <2>1, <2>2
<1>5. Step(x, <<>>, ds \o <<c>>).enc.held = <<>> /\ Step(x, <<>>, ds \o <<c>>).calls = ds \o <<c>>
  BY DEF Step, Encs
<1>6. Coded(m, ps) = Framing(ps)
  BY CodedAlike
<1>. QED BY <1>3, <1>4, <1>5, <1>6 DEF EndsFrame, ps

\* A write.
LEMMA Lz4Data ==
  ASSUME NEW T \in Seq(AnyCalls(Plain)), NEW c \in DataCalls(Plain), Lz4Fed(T)
  PROVE  Lz4Fed(Append(T, c))
<1>. DEFINE m == "LZ4"
            N == Append(T, c)
            S == Sent(m, T)
            C == AnyCalls(Plain)
<1>1. m \in AllMethods /\ m \in Framed
  BY DEF AllMethods, Framed
<1>2. c \in C
  BY EndsAre
<1>. HIDE DEF m, C
<1>3. PICK x : OneMore(m, T, c, x)
  BY <1>1, <1>2, FeedNext DEF C
<1>4. /\ x \in Encs(m) /\ x.held = Kept2(m, T).held /\ Kept2(m, N) = Call(m, x, c).enc
      /\ Sent(m, N) = S \o Call(m, x, c).calls
  BY <1>3 DEF OneMore
<1>. DEFINE h == x.held
            all == h \o c.buf
            ds == Call(m, x, c).calls
            qs == Groups(all, FrameSize)
            h2 == Rest(all, FrameSize)
<1>5. ds \in Seq(DataCalls(Plain)) /\ Bytes(ds) = Framing(qs) /\ Kept2(m, N).held = h2 /\ all \in Seq(Plain)
  BY <1>1, <1>4, FrameWrite DEF WritesFrames
<1>6. PICK ps : Slices(T, h, S, ps)
  BY <1>4 DEF Lz4Fed, m
<1>7. NotOne(S) /\ S \in Seq(C)
  BY <1>6 DEF Lz4Fed, m, Slices, C
<1>. HIDE DEF S, ds, all, h
<1>8. MoreSlices(T, c, h, ps, ds, qs, h2)
  <2>1. ds \in Seq(C)
    BY <1>5, EndsAre DEF C
  <2>2. /\ qs \in Packets /\ Sliced(qs) /\ (qs # <<>> => Len(qs[1]) >= HeaderSize)
        /\ h2 \in Seq(Plain) /\ FlattenSeq(qs) \o h2 = all
    BY <1>5, SlicesOf
  <2>. HIDE DEF qs, h2
  <2>. QED BY <1>5, <2>1, <2>2 DEF MoreSlices, C, all
<1>. HIDE DEF qs, h2
<1>9. Slices(N, h2, S \o ds, ps \o qs)
  BY <1>2, <1>6, <1>8, SlicesNext DEF C
<1>10. NotOne(S \o ds)
  BY <1>5, <1>7, NotOneData DEF C
<1>. HIDE DEF N
<1>11. Slices(N, Kept2(m, N).held, Sent(m, N), ps \o qs)
  BY <1>4, <1>5, <1>9 DEF ds
<1>12. NotOne(Sent(m, N))
  BY <1>4, <1>10 DEF ds
<1>. QED BY <1>11, <1>12 DEF Lz4Fed, N, m

\* The call that ends a frame.
LEMMA Lz4End ==
  ASSUME NEW T \in Seq(AnyCalls(Plain)), NEW c \in Ends, Lz4Fed(T)
  PROVE  Lz4Fed(Append(T, c)) /\ Kept2("LZ4", Append(T, c)).held = <<>>
<1>. DEFINE m == "LZ4"
            N == Append(T, c)
            S == Sent(m, T)
            C == AnyCalls(Plain)
<1>1. m \in AllMethods /\ m \in Framed
  BY DEF AllMethods, Framed
<1>2. c \in C /\ c.buf = <<>>
  BY EndsAre
<1>. HIDE DEF C
<1>3. PICK x : OneMore(m, T, c, x)
  BY <1>1, <1>2, FeedNext DEF C
<1>4. /\ x \in Encs(m) /\ x.held = Kept2(m, T).held /\ Kept2(m, N) = Call(m, x, c).enc
      /\ Sent(m, N) = S \o Call(m, x, c).calls
  BY <1>3 DEF OneMore
<1>. DEFINE h == x.held
            qs == LastParts(m, x)
<1>5. EndsFrame(m, x, c, qs)
  BY <1>1, <1>4, FrameEnd
<1>6. PICK ps : Slices(T, h, S, ps)
  BY <1>4 DEF Lz4Fed
<1>7. NotOne(S) /\ S \in Seq(C)
  BY <1>6 DEF Lz4Fed, Slices, C
<1>8. qs = IF h = <<>> THEN <<>> ELSE <<h>>
  BY DEF LastParts
<1>. HIDE DEF S, h, qs, m
<1>9. PICK ds \in Seq(DataCalls(Plain)) : Call(m, x, c).calls = ds \o <<c>> /\ Bytes(ds) = Framing(qs)
  BY <1>5 DEF EndsFrame
<1>10. qs \in Packets /\ Kept2(m, N).held = <<>>
  BY <1>4, <1>5 DEF EndsFrame
<1>. DEFINE es == ds \o <<c>>
            h2 == <<>>
<1>11. ds \in Seq(C) /\ es \in Seq(C) /\ Bytes(es) = Framing(qs) /\ es = Append(ds, c)
  <2>1. ds \in Seq(C) /\ es = Append(ds, c)
    BY <1>9, EndsAre, AppendIsConcat DEF C
  <2>2. Bytes(Append(ds, c)) = Bytes(ds) \o c.buf /\ Bytes(ds) \in Seq(Plain)
    BY <1>2, <2>1, BytesAppend DEF C
  <2>3. Bytes(ds) \o <<>> = Bytes(ds)
    BY <2>2, ConcatEmptySeq
  <2>4. Append(ds, c) \in Seq(C)
    BY <1>2, <2>1, AppendProperties
  <2>. QED BY <1>2, <1>9, <2>1, <2>2, <2>3, <2>4
<1>12. h \in Seq(Plain) /\ FlattenSeq(ps) \o h = Bytes(T) /\ Bytes(S) = Framing(ps) /\ ps \in Packets
  BY <1>6 DEF Slices
<1>13. FlattenSeq(qs) = h
  <2>1. CASE h = <<>>
    BY <1>8, <2>1, NoFrames
  <2>2. CASE h # <<>>
    BY <1>8, <1>12, <2>2, FlattenOne
  <2>. QED BY <2>1, <2>2
<1>14. Sliced(qs) /\ (qs # <<>> => qs[1] = h /\ h # <<>>)
  <2>1. CASE h = <<>>
    BY <1>8, <2>1 DEF Sliced
  <2>2. CASE h # <<>>
    <3>1. qs = <<h>>
      BY <1>8, <2>2
    <3>2. Len(qs) = 1 /\ qs[1] = h
      BY <3>1
    <3>3. \A i \in 1..Len(qs) : qs[i] = h
      BY <3>2
    <3>. QED BY <2>2, <3>2, <3>3 DEF Sliced
  <2>. QED BY <2>1, <2>2
<1>15. NotOne(N) /\ ps = <<>> /\ qs # <<>> => Len(qs[1]) >= HeaderSize
  <2>. SUFFICES ASSUME NotOne(N), ps = <<>>, qs # <<>> PROVE Len(qs[1]) >= HeaderSize
    OBVIOUS
  <2>1. Len(Bytes(T)) # 1
    BY <1>2, NotOneAppend DEF C
  <2>2. Bytes(T) = h
    <3>1. FlattenSeq(ps) = <<>>
      BY NoFrames
    <3>. QED BY <1>12, <3>1, ConcatEmptySeq
  <2>3. qs[1] = h /\ h # <<>>
    BY <1>14
  <2>4. Len(h) \in Nat /\ (Len(h) = 0 => h = <<>>)
    BY <1>12, LenProperties, EmptySeq
  <2>5. Len(h) # 0 /\ Len(h) # 1
    BY <2>1, <2>2, <2>3, <2>4
  <2>. DEFINE n == Len(h)
  <2>6. n \in Nat /\ n # 0 /\ n # 1
    BY <2>4, <2>5
  <2>. HIDE DEF n
  <2>7. n >= 2
    BY <2>6
  <2>. QED BY <2>3, <2>7, HeaderSizeIs DEF n
<1>16. MoreSlices(T, c, h, ps, es, qs, h2)
  <2>1. h2 \in Seq(Plain) /\ h2 = <<>>
    OBVIOUS
  <2>2. FlattenSeq(qs) \o h2 = h \o c.buf
    BY <1>2, <1>13
  <2>. HIDE DEF es, h2
  <2>. QED BY <1>10, <1>11, <1>14, <1>15, <2>1, <2>2 DEF MoreSlices, C
<1>17. NotOne(S \o es)
  <2>1. S \o ds \in Seq(C) /\ S \o es = Append(S \o ds, c) /\ Bytes(S \o ds) = Bytes(S) \o Bytes(ds)
    <3>1. Bytes(S \o ds) = Bytes(S) \o Bytes(ds)
      BY <1>7, <1>11, BytesConcat DEF C
    <3>2. <<c>> \in Seq(C)
      BY <1>2
    <3>3. S \o (ds \o <<c>>) = (S \o ds) \o <<c>> /\ S \o ds \in Seq(C)
      <4>1. Associates(S, ds, <<c>>)
        BY <1>7, <1>11, <3>2, Associate
      <4>2. S \o ds \in Seq(C)
        BY <1>7, <1>11, ConcatProperties
      <4>. QED BY <4>1, <4>2 DEF Associates
    <3>4. (S \o ds) \o <<c>> = Append(S \o ds, c)
      BY <1>2, <3>3, AppendIsConcat
    <3>. QED BY <3>1, <3>3, <3>4
  <2>2. NotOne(S \o ds)
    BY <1>7, <1>9, NotOneData DEF C
  <2>3. ps \o qs \in Packets /\ Framing(ps \o qs) = Framing(ps) \o Framing(qs)
    BY <1>10, <1>12, FramesJoin DEF FramesJoined
  <2>4. Bytes(S \o ds) = Framing(ps \o qs)
    BY <1>9, <1>12, <2>1, <2>3
  <2>5. Len(Bytes(S \o ds)) # 1
    BY <2>3, <2>4, FramingLen
  <2>6. NotOne(Append(S \o ds, c))
    BY <1>2, <2>1, <2>2, <2>5, NotOneAppend DEF C
  <2>. QED BY <2>1, <2>6
<1>18. Slices(N, h2, S \o es, ps \o qs)
  <2>. HIDE DEF es, h2
  <2>. QED BY <1>2, <1>6, <1>16, SlicesNext DEF C
<1>19. Sent(m, N) = S \o es
  BY <1>4, <1>9 DEF S
<1>. HIDE DEF N, es
<1>20. Lz4Fed(N)
  BY <1>10, <1>17, <1>18, <1>19 DEF Lz4Fed, m
<1>. QED BY <1>10, <1>20 DEF N, m

\* All of them.
LEMMA Lz4Feed ==
  ASSUME NEW T \in Seq(AnyCalls(Plain))
  PROVE  Lz4Fed(T)
<1>. DEFINE C == AnyCalls(Plain)
            In == {s \in Seq(C) : Lz4Fed(s)}
<1>1. <<>> \in In
  BY Lz4Nothing
<1>2. ASSUME NEW s \in Seq(C), NEW c \in C, s \in In PROVE Append(s, c) \in In
  <2>1. Lz4Fed(s) /\ (c \in DataCalls(Plain) \/ c \in Ends)
    BY <1>2, EndsAre
  <2>2. Lz4Fed(Append(s, c))
    BY <2>1, Lz4Data, Lz4End
  <2>3. Append(s, c) \in Seq(C)
    <3>. HIDE DEF C
    <3>. QED BY AppendProperties
  <2>. QED BY <2>2, <2>3
<1>3. Seq(C) \subseteq In
  <2>. HIDE DEF In, C
  <2>. QED BY <1>1, <1>2, SeqInduction
<1>. QED BY <1>3

\* The two ways in which the calls on an encoder end: with the empty write, which no
\* other comes before; or with a flush that no other comes before, and perhaps the
\* empty write.
EndsOnce(T) == \E M \in Seq(MidCalls(Plain)) : T = Append(M, Finish)
FlushedOnce(T) ==
  \E ds \in Seq(DataCalls(Plain)) : T = Append(ds, Flush) \/ T = Append(Append(ds, Flush), Finish)

\* What an LZ4 encoder sends for c, after T.
EndSent(T, c) ==
  \E ds \in Seq(DataCalls(Plain)) :
    /\ Sent("LZ4", Append(T, c)) = Sent("LZ4", T) \o (ds \o <<c>>)
    /\ Kept2("LZ4", T).held = <<>> => ds = <<>>

\* It sends c behind the frame it writes, and writes none of nothing.
LEMMA Lz4Sends ==
  ASSUME NEW T \in Seq(AnyCalls(Plain)), NEW c \in Ends
  PROVE  EndSent(T, c)
<1>. DEFINE m == "LZ4"
            N == Append(T, c)
            S == Sent(m, T)
<1>1. m \in AllMethods /\ m \in Framed /\ c \in AnyCalls(Plain)
  BY EndsAre DEF AllMethods, Framed
<1>2. PICK x : OneMore(m, T, c, x)
  BY <1>1, FeedNext
<1>3. x \in Encs(m) /\ x.held = Kept2(m, T).held /\ Sent(m, N) = S \o Call(m, x, c).calls
  BY <1>2 DEF OneMore
<1>. DEFINE ds == LastFrame(m, x)
<1>4. ds \in Seq(DataCalls(Plain))
  <2>1. x.held \in Seq(Plain)
    BY <1>3 DEF Encs
  <2>. QED BY <1>1, <2>1, LastFrameIs
<1>5. x.held = <<>> => ds = <<>>
  BY DEF LastFrame
<1>6. Call(m, x, c) = Step(x, <<>>, ds \o <<c>>)
  <2>1. CASE c = Flush
    BY <1>1, <1>3, <2>1, EndCalls
  <2>2. CASE c # Flush
    BY <1>1, <1>3, <2>2, EndCalls DEF Ends
  <2>. QED BY <2>1, <2>2
<1>. HIDE DEF ds
<1>7. Step(x, <<>>, ds \o <<c>>).calls = ds \o <<c>>
  BY DEF Step
<1>. QED BY <1>3, <1>4, <1>5, <1>6, <1>7 DEF EndSent

\* Before the empty write it sends none.
LEMMA Lz4Mid ==
  ASSUME NEW T \in Seq(MidCalls(Plain))
  PROVE  Sent("LZ4", T) \in Seq(MidCalls(Plain))
<1>. DEFINE m == "LZ4"
            C == MidCalls(Plain)
            In == {s \in Seq(C) : Sent(m, s) \in Seq(C)}
<1>1. m \in AllMethods /\ m \in Framed
  BY DEF AllMethods, Framed
<1>2. <<>> \in In
  <2>1. Sent(m, <<>>) = <<>>
    <3>1. Feed(m, NewEncoder, <<>>) = [enc |-> NewEncoder, calls |-> <<>>]
      BY FeedEmpty
    <3>. QED BY <3>1 DEF Sent
  <2>2. <<>> \in Seq(C)
    OBVIOUS
  <2>. HIDE DEF C, m
  <2>. QED BY <2>1, <2>2
<1>3. ASSUME NEW s \in Seq(C), NEW c \in C, s \in In PROVE Append(s, c) \in In
  <2>. DEFINE N == Append(s, c)
              S == Sent(m, s)
  <2>1. s \in Seq(AnyCalls(Plain)) /\ c \in AnyCalls(Plain) /\ (c \in DataCalls(Plain) \/ c = Flush) /\ S \in Seq(C)
    BY <1>3, EndsAre DEF MidCalls
  <2>2. PICK x : OneMore(m, s, c, x)
    BY <1>1, <2>1, FeedNext
  <2>3. x \in Encs(m) /\ Sent(m, N) = S \o Call(m, x, c).calls
    BY <2>2 DEF OneMore
  <2>. DEFINE e == Call(m, x, c).calls
  <2>4. e \in Seq(C)
    <3>1. CASE c \in DataCalls(Plain)
      <4>1. WritesFrames(m, x, c)
        BY <1>1, <2>3, <3>1, FrameWrite
      <4>. QED BY <4>1, EndsAre DEF WritesFrames
    <3>2. CASE c = Flush
      <4>1. c \in Ends
        BY <3>2 DEF Ends
      <4>2. EndsFrame(m, x, c, LastParts(m, x))
        BY <1>1, <2>3, <4>1, FrameEnd
      <4>3. PICK ds \in Seq(DataCalls(Plain)) : e = ds \o <<c>>
        BY <4>2 DEF EndsFrame
      <4>4. ds \in Seq(C) /\ <<c>> \in Seq(C)
        BY EndsAre
      <4>. HIDE DEF C, e
      <4>. QED BY <4>3, <4>4, ConcatProperties
    <3>. QED BY <2>1, <3>1, <3>2
  <2>. HIDE DEF C, S, e, m
  <2>5. S \o e \in Seq(C)
    BY <2>1, <2>4, ConcatProperties
  <2>6. N \in Seq(C)
    BY AppendProperties
  <2>7. Sent(m, N) = S \o e
    BY <2>3 DEF e
  <2>. QED BY <2>5, <2>6, <2>7
<1>4. Seq(C) \subseteq In
  <2>. HIDE DEF In, C
  <2>. QED BY <1>2, <1>3, SeqInduction
<1>. QED BY <1>4

\* It keeps the way in which the calls end.
LEMMA Lz4EndsOnce ==
  ASSUME NEW T, EndsOnce(T)
  PROVE  EndsOnce(Sent("LZ4", T))
<1>1. PICK M \in Seq(MidCalls(Plain)) : T = Append(M, Finish)
  BY DEF EndsOnce
<1>. DEFINE S == Sent("LZ4", M)
            f == Finish
<1>2. S \in Seq(MidCalls(Plain))
  BY Lz4Mid
<1>3. M \in Seq(AnyCalls(Plain)) /\ f \in Ends /\ f \in AnyCalls(Plain)
  BY EndsAre DEF Ends
<1>. HIDE DEF S, f
<1>4. EndSent(M, f)
  BY <1>3, Lz4Sends
<1>5. PICK ds \in Seq(DataCalls(Plain)) : Sent("LZ4", Append(M, f)) = S \o (ds \o <<f>>)
  BY <1>4 DEF EndSent, S
<1>6. ds \in Seq(MidCalls(Plain))
  BY EndsAre
<1>7. JoinedCalls(Plain, S, ds, f)
  BY <1>2, <1>3, <1>6, CallsJoined
<1>8. S \o ds \in Seq(MidCalls(Plain)) /\ S \o (ds \o <<f>>) = Append(S \o ds, f)
  BY <1>7 DEF JoinedCalls
<1>. QED BY <1>1, <1>5, <1>8 DEF EndsOnce, f

\* The units of data calls, and what LZ4 makes of them.
LEMMA Lz4Writes ==
  ASSUME NEW ds \in Seq(DataCalls(Plain))
  PROVE  Sent("LZ4", ds) \in Seq(DataCalls(Plain))
<1>. DEFINE m == "LZ4"
            e == NewEncoder
<1>1. m \in AllMethods /\ OutOf(m) = Plain
  BY DEF AllMethods, OutOf
<1>2. e \in Encs(m) /\ ~e.finished
  BY <1>1, NewEncoderIs
<1>. HIDE DEF m, e
<1>3. Feed(m, e, ds).calls \in Seq(DataCalls(OutOf(m)))
  BY <1>1, <1>2, FeedData
<1>. QED BY <1>1, <1>3 DEF Sent, m, e

\* It keeps that way of ending, too: after the flush there is nothing to frame.
LEMMA Lz4FlushedOnce ==
  ASSUME NEW T, FlushedOnce(T)
  PROVE  FlushedOnce(Sent("LZ4", T))
<1>1. PICK ds \in Seq(DataCalls(Plain)) : T = Append(ds, Flush) \/ T = Append(Append(ds, Flush), Finish)
  BY DEF FlushedOnce
<1>. DEFINE S == Sent("LZ4", ds)
            f == Flush
            g == Finish
            D == DataCalls(Plain)
            T1 == Append(ds, f)
<1>2. S \in Seq(D)
  BY Lz4Writes
<1>3. ds \in Seq(AnyCalls(Plain)) /\ f \in Ends /\ g \in Ends /\ f \in AnyCalls(Plain) /\ g \in AnyCalls(Plain)
  BY EndsAre DEF Ends
<1>. HIDE DEF S, f, g, D
<1>4. PICK es \in Seq(D) : Sent("LZ4", T1) = S \o (es \o <<f>>)
  <2>1. EndSent(ds, f)
    BY <1>3, Lz4Sends
  <2>. QED BY <2>1 DEF EndSent, S, D
<1>5. S \o es \in Seq(D) /\ S \o (es \o <<f>>) = Append(S \o es, f)
  <2>1. S \in Seq(MidCalls(Plain)) /\ es \in Seq(MidCalls(Plain))
    BY <1>2, EndsAre DEF D
  <2>2. JoinedCalls(Plain, S, es, f)
    BY <1>3, <2>1, CallsJoined
  <2>3. S \o es \in Seq(D)
    BY <1>2, ConcatProperties
  <2>. QED BY <2>2, <2>3 DEF JoinedCalls
<1>6. T1 \in Seq(AnyCalls(Plain)) /\ Kept2("LZ4", T1).held = <<>>
  <2>1. Lz4Fed(ds)
    BY <1>3, Lz4Feed
  <2>2. T1 \in Seq(AnyCalls(Plain))
    BY <1>3, AppendProperties
  <2>. QED BY <1>3, <2>1, <2>2, Lz4End
<1>. HIDE DEF T1
<1>7. Sent("LZ4", Append(T1, g)) = Append(Sent("LZ4", T1), g)
  <2>1. PICK e \in Seq(D) : Sent("LZ4", Append(T1, g)) = Sent("LZ4", T1) \o (e \o <<g>>) /\ e = <<>>
    <3>1. EndSent(T1, g)
      BY <1>3, <1>6, Lz4Sends
    <3>. QED BY <1>6, <3>1 DEF EndSent, D
  <2>. DEFINE t == Sent("LZ4", T1)
  <2>2. t \in Seq(AnyCalls(Plain))
    <3>1. S \o es \in Seq(AnyCalls(Plain))
      BY <1>5, EndsAre DEF D
    <3>. DEFINE u == S \o es
                C == AnyCalls(Plain)
    <3>2. u \in Seq(C) /\ f \in C /\ t = Append(u, f)
      BY <1>3, <1>4, <1>5, <3>1
    <3>. HIDE DEF u, t, C
    <3>3. Append(u, f) \in Seq(C)
      BY <3>2, AppendProperties
    <3>. QED BY <3>2, <3>3 DEF C
  <2>. HIDE DEF t
  <2>3. <<>> \o <<g>> = <<g>>
    OBVIOUS
  <2>4. t \o <<g>> = Append(t, g)
    BY <1>3, <2>2, AppendIsConcat
  <2>. QED BY <2>1, <2>3, <2>4 DEF t
<1>8. T = T1 \/ T = Append(T1, g)
  BY <1>1 DEF T1, f, g
<1>9. Sent("LZ4", T) = Append(S \o es, f) \/ Sent("LZ4", T) = Append(Append(S \o es, f), g)
  BY <1>4, <1>5, <1>7, <1>8
<1>. QED BY <1>5, <1>9 DEF FlushedOnce, f, g, D

\* The frames that m has sent for T: they hold the units of T, and the first has room
\* for a header unless T may.
FramesSent(m, T) ==
  /\ \E ps \in Packets :
       /\ Solid(ps) /\ ps # <<>> /\ Bytes(T) = FlattenSeq(ps) /\ Bytes(Sent(m, T)) = Framing(ps)
       /\ NotOne(T) /\ Bytes(T) # <<>> => Len(ps[1]) >= HeaderSize
  /\ NotOne(Sent(m, T)) /\ Sent(m, T) \in Seq(AnyCalls(Plain)) /\ Bytes(Sent(m, T)) # <<>>

\* Calls that end have a last one.
LEMMA LastCall ==
  ASSUME NEW T, EndsOnce(T) \/ FlushedOnce(T)
  PROVE  \E S \in Seq(AnyCalls(Plain)) : \E c \in Ends : T = Append(S, c)
<1>1. CASE EndsOnce(T)
  <2>1. PICK M \in Seq(MidCalls(Plain)) : T = Append(M, Finish)
    BY <1>1 DEF EndsOnce
  <2>2. M \in Seq(AnyCalls(Plain)) /\ Finish \in Ends
    BY EndsAre DEF Ends
  <2>. QED BY <2>1, <2>2
<1>2. CASE FlushedOnce(T)
  <2>. DEFINE f == Flush
              g == Finish
              C == AnyCalls(Plain)
  <2>1. PICK ds \in Seq(DataCalls(Plain)) : T = Append(ds, f) \/ T = Append(Append(ds, f), g)
    BY <1>2 DEF FlushedOnce
  <2>2. ds \in Seq(C) /\ f \in C /\ f \in Ends /\ g \in Ends
    BY EndsAre DEF Ends
  <2>. HIDE DEF C, f, g
  <2>3. Append(ds, f) \in Seq(C)
    BY <2>2, AppendProperties
  <2>. QED BY <2>1, <2>2, <2>3 DEF C
<1>. QED BY <1>1, <1>2

\* LZ4 sends frames of what is not nothing.
LEMMA Lz4Frames ==
  ASSUME NEW T, EndsOnce(T) \/ FlushedOnce(T), Bytes(T) # <<>>
  PROVE  FramesSent("LZ4", T)
<1>. DEFINE m == "LZ4"
            S == Sent(m, T)
            e == <<>>
<1>1. PICK T0 \in Seq(AnyCalls(Plain)), c \in Ends : T = Append(T0, c)
  BY LastCall
<1>2. Lz4Fed(T) /\ Kept2(m, T).held = e
  <2>1. Lz4Fed(T0)
    BY Lz4Feed
  <2>. QED BY <1>1, <2>1, Lz4End
<1>3. PICK ps : Slices(T, e, S, ps)
  BY <1>2 DEF Lz4Fed
<1>4. NotOne(S)
  BY <1>2 DEF Lz4Fed
<1>. HIDE DEF S, e
<1>5. /\ ps \in Packets /\ Sliced(ps) /\ S \in Seq(AnyCalls(Plain)) /\ FlattenSeq(ps) \o e = Bytes(T)
      /\ Bytes(S) = Framing(ps) /\ (NotOne(T) /\ ps # <<>> => Len(ps[1]) >= HeaderSize)
  BY <1>3 DEF Slices
<1>6. FlattenSeq(ps) = Bytes(T)
  <2>1. FlattenSeq(ps) \in Seq(Plain)
    BY <1>5, FramesIn
  <2>2. FlattenSeq(ps) \o <<>> = FlattenSeq(ps)
    BY <2>1, ConcatEmptySeq
  <2>. QED BY <1>5, <2>2 DEF e
<1>7. ps # <<>>
  BY <1>6, NoFrames
<1>8. Solid(ps)
  <2>. DEFINE n == Len(ps)
  <2>1. n \in Nat
    BY <1>5, LenProperties DEF Packets
  <2>2. \A g \in 1..n : ps[g] # <<>>
    BY <1>5 DEF Sliced
  <2>. HIDE DEF n
  <2>3. \A g \in 1..(n - 1) : ps[g] # <<>>
    BY <2>1, <2>2
  <2>. QED BY <2>3 DEF Solid, n
<1>9. Bytes(S) # <<>>
  BY <1>5, <1>7, FramingLen
<1>. QED BY <1>4, <1>5, <1>6, <1>7, <1>8, <1>9 DEF FramesSent, S, m

\* The groups of B and the rest as packets.
LEMMA LastPacket ==
  ASSUME NEW B \in Seq(Plain), NEW ps, ps = Append(Groups(B, FrameSize), Rest(B, FrameSize))
  PROVE  /\ ps \in Packets /\ Solid(ps) /\ ps # <<>> /\ FlattenSeq(ps) = B
         /\ Framing(ps) = Framing(Groups(B, FrameSize)) \o Framing(<<Rest(B, FrameSize)>>)
         /\ B # <<>> /\ Len(B) # 1 => Len(ps[1]) >= HeaderSize
<1>. DEFINE gs == Groups(B, FrameSize)
            r == Rest(B, FrameSize)
<1>1. /\ gs \in Packets /\ Sliced(gs) /\ (gs # <<>> => Len(gs[1]) >= HeaderSize)
      /\ r \in Seq(Plain) /\ FlattenSeq(gs) \o r = B
  BY SlicesOf
<1>2. ps = Append(gs, r)
  OBVIOUS
<1>. HIDE DEF gs, r
<1>3. ps = gs \o <<r>> /\ <<r>> \in Packets
  <2>. DEFINE P == Seq(Plain)
  <2>1. gs \in Seq(P) /\ r \in P
    BY <1>1 DEF Packets
  <2>. HIDE DEF P
  <2>2. Append(gs, r) = gs \o <<r>> /\ <<r>> \in Seq(P)
    BY <2>1, AppendIsConcat
  <2>. QED BY <1>2, <2>2 DEF Packets, P
<1>4. FramesJoined(gs, <<r>>)
  BY <1>1, <1>3, FramesJoin
<1>5. ps \in Packets /\ Framing(ps) = Framing(gs) \o Framing(<<r>>) /\ FlattenSeq(ps) = FlattenSeq(gs) \o FlattenSeq(<<r>>)
  BY <1>3, <1>4 DEF FramesJoined
<1>6. FlattenSeq(<<r>>) = r
  BY <1>1, FlattenOne
<1>7. Len(gs) \in Nat /\ Len(ps) = Len(gs) + 1 /\ \A g \in 1..Len(gs) : ps[g] = gs[g]
  <2>1. gs \in Seq(Seq(Plain))
    BY <1>1 DEF Packets
  <2>2. Len(gs) \in Nat
    BY <2>1, LenProperties
  <2>3. Len(Append(gs, r)) = Len(gs) + 1 /\ \A g \in 1..Len(gs) : Append(gs, r)[g] = gs[g]
    BY <1>1, <2>1, AppendProperties
  <2>. QED BY <1>2, <2>2, <2>3
<1>. DEFINE n == Len(gs)
            k == Len(ps)
<1>8. n \in Nat /\ k = n + 1 /\ (\A g \in 1..n : ps[g] = gs[g]) /\ \A g \in 1..n : gs[g] # <<>>
  BY <1>1, <1>7 DEF Sliced
<1>9. ps # <<>>
  BY <1>8
<1>10. Solid(ps)
  <2>. HIDE DEF n, k
  <2>1. k - 1 = n
    BY <1>8
  <2>2. \A g \in 1..(k - 1) : ps[g] = gs[g] /\ gs[g] # <<>>
    BY <1>8, <2>1
  <2>3. \A g \in 1..(k - 1) : ps[g] # <<>>
    BY <2>2
  <2>. QED BY <2>3 DEF Solid, k
<1>11. ASSUME B # <<>>, Len(B) # 1 PROVE Len(ps[1]) >= HeaderSize
  <2>1. CASE gs # <<>>
    <3>1. n # 0
      BY <1>1, <2>1, EmptySeq DEF Packets
    <3>. HIDE DEF n, k
    <3>2. ps[1] = gs[1]
      BY <1>8, <3>1
    <3>. QED BY <1>1, <2>1, <3>2
  <2>2. CASE gs = <<>>
    <3>1. ps[1] = r
      BY <1>2, <2>2
    <3>2. r = B
      <4>1. FlattenSeq(gs) = <<>>
        BY <2>2, NoFrames
      <4>. QED BY <1>1, <4>1, ConcatEmptySeq
    <3>. DEFINE l == Len(B)
    <3>3. l \in Nat /\ l # 0 /\ l # 1
      BY <1>11, LenProperties, EmptySeq
    <3>. HIDE DEF l
    <3>4. l >= 2
      BY <3>3
    <3>. QED BY <3>1, <3>2, <3>4, HeaderSizeIs DEF l
  <2>. QED BY <2>1, <2>2
<1>. QED BY <1>1, <1>5, <1>6, <1>9, <1>10, <1>11 DEF gs, r

\* BROTLI writes its last frame on a flush, and lets the empty write pass without one.
BrotliSent(ds) ==
  /\ Sent("BROTLI", Append(Append(ds, Flush), Finish)) = Sent("BROTLI", Append(ds, Flush))
  /\ \E es \in Seq(DataCalls(Plain)) :
       /\ Sent("BROTLI", Append(ds, Flush)) = Append(es, Flush)
       /\ Bytes(es) = Framing(Append(Groups(Bytes(ds), FrameSize), Rest(Bytes(ds), FrameSize)))

\* So it is.
LEMMA BrotliSends ==
  ASSUME NEW ds \in Seq(DataCalls(Plain))
  PROVE  BrotliSent(ds)
<1>. DEFINE m == "BROTLI"
            f == Flush
            g == Finish
            T1 == Append(ds, f)
            C == AnyCalls(Plain)
            D == DataCalls(Plain)
            B == Bytes(ds)
            S == Sent(m, ds)
<1>1. m \in AllMethods /\ m \in Framed /\ m # "LZ4" /\ Full(m) = FrameSize /\ OutOf(m) = Plain
  BY DEF AllMethods, Framed, Full, OutOf
<1>2. ds \in Seq(C) /\ f \in C /\ g \in C /\ f \in Ends /\ f = Flush /\ g.buf = <<>>
  BY EndsAre DEF Ends
<1>3. B \in Seq(Plain)
  BY <1>2, BytesIn
<1>4. Kept2(m, ds).held = Rest(B, FrameSize) /\ S \in Seq(D) /\ Bytes(S) = Framing(Groups(B, FrameSize))
  <2>. DEFINE e == NewEncoder
  <2>1. e \in Encs(m) /\ e.held = <<>> /\ ~e.finished
    BY <1>1, NewEncoderIs
  <2>2. e.held \o B = B
    BY <1>3, <2>1, ConcatEmptySeq
  <2>. HIDE DEF e, m
  <2>3. /\ Feed(m, e, ds).enc.held = Rest(e.held \o B, Full(m)) /\ Feed(m, e, ds).calls \in Seq(DataCalls(OutOf(m)))
        /\ Bytes(Feed(m, e, ds).calls) = Coded(m, Groups(e.held \o B, Full(m)))
    BY <1>1, <2>1, FeedData
  <2>4. Coded(m, Groups(B, FrameSize)) = Framing(Groups(B, FrameSize))
    BY <1>1, CodedAlike
  <2>. QED BY <1>1, <2>2, <2>3, <2>4 DEF Kept2, Sent, e
<1>. HIDE DEF m, f, g, C, D, B, S
<1>5. PICK x : OneMore(m, ds, f, x)
  BY <1>1, <1>2, FeedNext DEF C
<1>6. x \in Encs(m) /\ x.held = Rest(B, FrameSize) /\ Sent(m, T1) = S \o Call(m, x, f).calls /\ T1 \in Seq(C)
  BY <1>4, <1>5 DEF OneMore, S, C
<1>7. LastParts(m, x) = <<Rest(B, FrameSize)>>
  BY <1>1, <1>6 DEF LastParts
<1>8. PICK es \in Seq(D) : Call(m, x, f).calls = es \o <<f>> /\ Bytes(es) = Framing(<<Rest(B, FrameSize)>>)
  <2>1. EndsFrame(m, x, f, LastParts(m, x))
    BY <1>1, <1>2, <1>6, FrameEnd DEF D
  <2>. QED BY <1>7, <2>1 DEF EndsFrame, D
<1>9. S \o es \in Seq(D) /\ S \o (es \o <<f>>) = Append(S \o es, f) /\ Bytes(S \o es) = Bytes(S) \o Bytes(es)
  <2>1. S \in Seq(MidCalls(Plain)) /\ es \in Seq(MidCalls(Plain)) /\ S \in Seq(C) /\ es \in Seq(C)
    BY <1>4, <1>8, EndsAre DEF D, C
  <2>2. JoinedCalls(Plain, S, es, f)
    BY <1>2, <2>1, CallsJoined DEF C
  <2>3. S \o es \in Seq(D)
    BY <1>4, <1>8, ConcatProperties
  <2>4. Bytes(S \o es) = Bytes(S) \o Bytes(es)
    BY <2>1, BytesConcat DEF C
  <2>. QED BY <2>2, <2>3, <2>4 DEF JoinedCalls
<1>. DEFINE ps == Append(Groups(B, FrameSize), Rest(B, FrameSize))
<1>10. Bytes(S \o es) = Framing(ps)
  <2>1. Framing(ps) = Framing(Groups(B, FrameSize)) \o Framing(<<Rest(B, FrameSize)>>)
    BY <1>3, LastPacket
  <2>. QED BY <1>4, <1>8, <1>9, <2>1
<1>11. Sent(m, Append(T1, g)) = Sent(m, T1)
  <2>1. PICK y : OneMore(m, T1, g, y)
    BY <1>1, <1>2, <1>6, FeedNext DEF C
  <2>2. y \in Encs(m) /\ Sent(m, Append(T1, g)) = Sent(m, T1) \o Call(m, y, g).calls
        /\ Sent(m, T1) \in Seq(AnyCalls(OutOf(m)))
    BY <2>1 DEF OneMore
  <2>3. Call(m, y, g) = [enc |-> y, calls |-> <<>>]
    BY <1>1, <2>2, EndCalls DEF m, g
  <2>4. Call(m, y, g).calls = <<>>
    BY <2>3
  <2>. DEFINE t == Sent(m, T1)
  <2>. HIDE DEF t
  <2>5. t \o <<>> = t
    BY <2>2, ConcatEmptySeq DEF t
  <2>. QED BY <2>2, <2>4, <2>5 DEF t
<1>12. Sent(m, T1) = Append(S \o es, f)
  BY <1>6, <1>8, <1>9
<1>. QED BY <1>9, <1>10, <1>11, <1>12 DEF BrotliSent, m, f, g, B, D, T1

\* Ends write nothing.
LEMMA BytesEnd ==
  ASSUME NEW S \in Seq(AnyCalls(Plain)), NEW c \in Ends
  PROVE  /\ Append(S, c) \in Seq(AnyCalls(Plain)) /\ Bytes(Append(S, c)) = Bytes(S) /\ Bytes(S) \in Seq(Plain)
         /\ NotOne(Append(S, c)) <=> NotOne(S) /\ Len(Bytes(S)) # 1
<1>1. c \in AnyCalls(Plain) /\ c.buf = <<>>
  BY EndsAre
<1>2. Append(S, c) \in Seq(AnyCalls(Plain))
  <2>. DEFINE C == AnyCalls(Plain)
  <2>1. c \in C /\ S \in Seq(C)
    BY <1>1
  <2>. HIDE DEF C
  <2>2. Append(S, c) \in Seq(C)
    BY <2>1, AppendProperties
  <2>. QED BY <2>2 DEF C
<1>3. Bytes(Append(S, c)) = Bytes(S) \o c.buf /\ Bytes(S) \in Seq(Plain)
  BY <1>1, BytesAppend
<1>4. Bytes(S) \o <<>> = Bytes(S)
  BY <1>3, ConcatEmptySeq
<1>5. NotOne(Append(S, c)) <=> NotOne(S) /\ Len(Bytes(S)) # 1
  BY <1>1, NotOneAppend
<1>. QED BY <1>1, <1>2, <1>3, <1>4, <1>5

\* What BROTLI sends for calls that are flushed once.
LEMMA BrotliFrames ==
  ASSUME NEW T, FlushedOnce(T)
  PROVE  FramesSent("BROTLI", T) /\ FlushedOnce(Sent("BROTLI", T))
<1>. DEFINE m == "BROTLI"
            f == Flush
            g == Finish
            C == AnyCalls(Plain)
            D == DataCalls(Plain)
<1>1. PICK ds \in Seq(D) : T = Append(ds, f) \/ T = Append(Append(ds, f), g)
  BY DEF FlushedOnce
<1>. DEFINE T1 == Append(ds, f)
            B == Bytes(ds)
            S == Sent(m, T1)
            ps == Append(Groups(B, FrameSize), Rest(B, FrameSize))
<1>2. BrotliSent(ds)
  BY BrotliSends
<1>3. PICK es \in Seq(D) : S = Append(es, f) /\ Bytes(es) = Framing(ps)
  BY <1>2 DEF BrotliSent
<1>4. Sent(m, Append(T1, g)) = S
  BY <1>2 DEF BrotliSent
<1>5. ds \in Seq(C) /\ es \in Seq(C) /\ f \in Ends /\ g \in Ends
  BY EndsAre DEF Ends
<1>6. B \in Seq(Plain)
  BY <1>5, BytesIn
<1>. HIDE DEF m, f, g, D, B, S, ps
<1>7. T1 \in Seq(C) /\ Bytes(T1) = B /\ (NotOne(T1) => Len(B) # 1)
  BY <1>5, BytesEnd DEF B
<1>8. Bytes(T) = B /\ (NotOne(T) => Len(B) # 1)
  <2>. HIDE DEF T1
  <2>1. Bytes(Append(T1, g)) = Bytes(T1) /\ (NotOne(Append(T1, g)) => NotOne(T1))
    BY <1>5, <1>7, BytesEnd
  <2>. QED BY <1>1, <1>7, <2>1 DEF T1
<1>9. /\ ps \in Packets /\ Solid(ps) /\ ps # <<>> /\ FlattenSeq(ps) = B
      /\ B # <<>> /\ Len(B) # 1 => Len(ps[1]) >= HeaderSize
  BY <1>6, LastPacket DEF ps
<1>10. Sent(m, T) = S
  <2>. HIDE DEF T1
  <2>1. T = T1 \/ T = Append(T1, g)
    BY <1>1 DEF T1
  <2>. QED BY <1>4, <2>1 DEF S
<1>11. S \in Seq(C) /\ Bytes(S) = Framing(ps) /\ NotOne(S)
  <2>1. NotOne(es)
    <3>1. NotOne(<<>> \o es)
      <4>1. <<>> \in Seq(C) /\ es \in Seq(DataCalls(Plain))
        BY DEF D
      <4>. QED BY <4>1, NotOneEmpty, NotOneData
    <3>2. <<>> \o es = es
      BY <1>5, ConcatEmptySeq
    <3>. QED BY <3>1, <3>2
  <2>2. Len(Bytes(es)) # 1
    BY <1>3, <1>9, FramingLen
  <2>. QED BY <1>3, <1>5, <2>1, <2>2, BytesEnd
<1>12. Bytes(S) # <<>>
  BY <1>9, <1>11, FramingLen
<1>13. FramesSent(m, T)
  BY <1>8, <1>9, <1>10, <1>11, <1>12 DEF FramesSent
<1>14. FlushedOnce(Sent(m, T))
  BY <1>3, <1>10 DEF FlushedOnce, f, D
<1>. QED BY <1>13, <1>14 DEF m

\* COPY sends what it is called with.
LEMMA CopySends ==
  ASSUME NEW T \in Seq(AnyCalls(Plain))
  PROVE  Sent("COPY", T) = T
<1>. DEFINE m == "COPY"
            C == AnyCalls(Plain)
            In == {s \in Seq(C) : Sent(m, s) = s}
<1>1. m \in AllMethods
  BY DEF AllMethods
<1>2. <<>> \in In
  <2>1. Sent(m, <<>>) = <<>>
    <3>1. Feed(m, NewEncoder, <<>>) = [enc |-> NewEncoder, calls |-> <<>>]
      BY FeedEmpty
    <3>. QED BY <3>1 DEF Sent
  <2>2. <<>> \in Seq(C)
    OBVIOUS
  <2>. HIDE DEF C, m
  <2>. QED BY <2>1, <2>2
<1>3. ASSUME NEW s \in Seq(C), NEW c \in C, s \in In PROVE Append(s, c) \in In
  <2>1. Sent(m, s) = s
    BY <1>3
  <2>2. PICK x : OneMore(m, s, c, x)
    BY <1>1, FeedNext
  <2>3. Sent(m, Append(s, c)) = s \o Call(m, x, c).calls
    BY <2>1, <2>2 DEF OneMore
  <2>4. Call(m, x, c) = Passes(x, c)
    BY CallOf
  <2>5. Call(m, x, c).calls = <<c>>
    BY <2>4 DEF Passes, Step
  <2>. HIDE DEF C, m
  <2>6. s \o <<c>> = Append(s, c) /\ Append(s, c) \in Seq(C)
    BY AppendIsConcat, AppendProperties
  <2>. QED BY <2>3, <2>5, <2>6
<1>4. Seq(C) \subseteq In
  <2>. HIDE DEF In, C
  <2>. QED BY <1>2, <1>3, SeqInduction
<1>. QED BY <1>4

\* The chains and data that Excepted leaves.
HasIn(ch, m) == \E i \in 1..Len(ch) : ch[i] = m
OverIn(ch, m, n) == \E i \in 1..Len(ch) : \E j \in 1..Len(ch) : i > j /\ ch[i] = m /\ ch[j] = n
GivesBack(ch, data) ==
  /\ ~HasIn(ch, "SWAP4")
  /\ ~OverIn(ch, "BROTLI", "AES") /\ ~OverIn(ch, "BROTLI", "SWAP2")
  /\ ~OverIn(ch, "SWAP2", "BROTLI") /\ ~OverIn(ch, "SWAP2", "AES")
  /\ HasIn(ch, "LZ4") => data # <<>>

\* What the calls T on encoder i are like.
Fed(ch, i, T) ==
  /\ T \in Seq(AnyCalls(Plain))
  /\ HasIn(ch, "LZ4") => Bytes(T) # <<>>
  /\ FramedAbove(ch, i) => NotOne(T) /\ Bytes(T) # <<>>
  /\ IF HasIn(ch, "BROTLI") THEN FlushedOnce(T) ELSE EndsOnce(T)

\* Then so are those that it sends, and their units decode to those of T.
PassedOn(ch, i, T) ==
  /\ CodedAt(ch, i, Bytes(Sent(ch[i], T)), Bytes(T))
  /\ i > 1 => Fed(ch, i - 1, Sent(ch[i], T))

\* A pair of swapped units is a pair.
LEMMA SwappedSome ==
  ASSUME NEW x \in Seq(Plain), x # <<>>
  PROVE  Swapped(x) # <<>>
<1>. DEFINE g == Groups(x, 2)
            r == Rest(x, 2)
            k == 2
<1>1. k \in Nat \ {0}
  OBVIOUS
<1>2. CASE Len(x) < 2
  BY <1>2, SwappedFew
<1>3. CASE ~(Len(x) < 2)
  <2>. DEFINE p == First(x, k)
              y == From(x, k)
  <2>1. Len(x) \in Nat /\ k \in 0..Len(x)
    BY <1>3, LenProperties
  <2>. HIDE DEF k
  <2>2. p \in Seq(Plain) /\ Len(p) = k /\ y \in Seq(Plain) /\ p \o y = x
    BY <2>1, CutIs
  <2>. HIDE DEF p, y
  <2>3. p \in Blocks(2, Plain)
    <3>1. Len(p) = 2
      BY <2>2 DEF k
    <3>2. p \in [1..Len(p) -> Plain]
      BY <2>2, LenProperties
    <3>. QED BY <3>1, <3>2 DEF Blocks
  <2>4. Swapped(p \o y) = Reverse(p) \o Swapped(y)
    BY <2>2, <2>3, SwappedPair
  <2>5. Reverse(p) \in Seq(Plain) /\ Len(Reverse(p)) = k /\ Swapped(y) \in Seq(Plain)
    BY <2>2, Reversed, SwappedIn
  <2>. DEFINE a == Reverse(p)
              b == Swapped(y)
  <2>. HIDE DEF a, b
  <2>6. a # <<>>
    BY <1>1, <2>5 DEF a, k
  <2>7. a \o b # <<>>
    BY <2>5, <2>6, ConcatIs DEF a, b
  <2>. QED BY <2>2, <2>4, <2>7 DEF a, b
<1>. QED BY <1>2, <1>3

\* COPY.
LEMMA CopyPasses ==
  ASSUME NEW ch \in AnyChains, NEW i \in 1..Len(ch), NEW T, Fed(ch, i, T), ch[i] = "COPY"
  PROVE  PassedOn(ch, i, T)
<1>1. Sent(ch[i], T) = T
  BY CopySends DEF Fed
<1>2. FramedAbove(ch, i - 1) <=> FramedAbove(ch, i)
  BY ChainIs, AboveNext
<1>3. Fed(ch, i - 1, T)
  BY <1>2 DEF Fed
<1>4. CodedAt(ch, i, Bytes(T), Bytes(T))
  <2>1. ch[i] \notin Framed
    BY DEF Framed
  <2>. QED BY <2>1 DEF CodedAt
<1>. QED BY <1>1, <1>3, <1>4 DEF PassedOn

\* SWAP2.
LEMMA SwapPasses ==
  ASSUME NEW ch \in AnyChains, NEW i \in 1..Len(ch), NEW T, Fed(ch, i, T), ch[i] = "SWAP2",
         NEW data, GivesBack(ch, data)
  PROVE  PassedOn(ch, i, T)
<1>1. ~HasIn(ch, "BROTLI")
  <2>. SUFFICES ASSUME NEW j \in 1..Len(ch), ch[j] = "BROTLI" PROVE FALSE
    BY DEF HasIn
  <2>1. Len(ch) \in Nat /\ i # j
    BY ChainIs
  <2>2. i > j \/ j > i
    BY <2>1
  <2>3. OverIn(ch, "SWAP2", "BROTLI") \/ OverIn(ch, "BROTLI", "SWAP2")
    BY <2>2 DEF OverIn
  <2>. QED BY <2>3 DEF GivesBack
<1>2. PICK M \in Seq(MidCalls(Plain)) : T = Append(M, Finish)
  BY <1>1 DEF Fed, EndsOnce
<1>3. SwapSent(M)
  BY SwapEnds
<1>4. PICK N \in Seq(MidCalls(Plain)) : Sent("SWAP2", T) = Append(N, Finish) /\ Bytes(Append(N, Finish)) = Swapped(Bytes(T))
  BY <1>2, <1>3 DEF SwapSent
<1>. DEFINE S == Sent(ch[i], T)
<1>5. S = Append(N, Finish) /\ Bytes(S) = Swapped(Bytes(T))
  BY <1>4
<1>6. Bytes(T) \in Seq(Plain) /\ S \in Seq(AnyCalls(Plain))
  <2>1. T \in Seq(AnyCalls(Plain)) /\ N \in Seq(AnyCalls(Plain)) /\ Finish \in Ends
    BY EndsAre DEF Fed, Ends
  <2>. QED BY <1>5, <2>1, BytesIn, BytesEnd
<1>. HIDE DEF S
<1>7. CodedAt(ch, i, Bytes(S), Bytes(T))
  <2>1. ch[i] \notin Framed
    BY DEF Framed
  <2>. QED BY <1>5, <1>6, <2>1 DEF CodedAt
<1>8. EndsOnce(S)
  BY <1>5 DEF EndsOnce
<1>9. HasIn(ch, "LZ4") => Bytes(S) # <<>>
  BY <1>5, <1>6, SwappedSome DEF Fed
<1>10. ~FramedAbove(ch, i - 1)
  <2>1. ch[i] \notin Framed
    BY DEF Framed
  <2>. QED BY <2>1, ChainIs, AboveNext
<1>11. Fed(ch, i - 1, S)
  BY <1>1, <1>6, <1>8, <1>9, <1>10 DEF Fed
<1>. QED BY <1>7, <1>11 DEF PassedOn, S

\* AES, which is next to the output.
LEMMA AesPasses ==
  ASSUME NEW ch \in AnyChains, NEW i \in 1..Len(ch), NEW T, Fed(ch, i, T), ch[i] = "AES",
         NEW data, GivesBack(ch, data)
  PROVE  PassedOn(ch, i, T)
<1>1. Len(ch) \in Nat /\ i = 1
  <2>1. Len(ch) \in Nat
    BY ChainIs
  <2>2. \A j \in 2..Len(ch) : ch[j] # "AES"
    BY DEF AnyChains
  <2>. QED BY <2>1, <2>2
<1>2. ~HasIn(ch, "BROTLI")
  <2>. SUFFICES ASSUME NEW j \in 1..Len(ch), ch[j] = "BROTLI" PROVE FALSE
    BY DEF HasIn
  <2>1. j > i
    BY <1>1
  <2>2. OverIn(ch, "BROTLI", "AES")
    BY <2>1 DEF OverIn
  <2>. QED BY <2>2 DEF GivesBack
<1>3. PICK M \in Seq(MidCalls(Plain)) : T = Append(M, Finish)
  BY <1>2 DEF Fed, EndsOnce
<1>4. PaddedFrom(Bytes(Sent("AES", T)), Bytes(T))
  BY <1>3, AesEnds
<1>5. CodedAt(ch, i, Bytes(Sent(ch[i], T)), Bytes(T))
  <2>1. ch[i] \notin Framed
    BY DEF Framed
  <2>. QED BY <1>4, <2>1 DEF CodedAt
<1>. QED BY <1>1, <1>5 DEF PassedOn

\* LZ4 and BROTLI.
LEMMA FramesPass ==
  ASSUME NEW ch \in AnyChains, NEW i \in 1..Len(ch), NEW T, Fed(ch, i, T), ch[i] \in Framed, FramesSent(ch[i], T),
         IF HasIn(ch, "BROTLI") THEN FlushedOnce(Sent(ch[i], T)) ELSE EndsOnce(Sent(ch[i], T))
  PROVE  PassedOn(ch, i, T)
<1>. DEFINE S == Sent(ch[i], T)
<1>1. PICK ps \in Packets :
        /\ Solid(ps) /\ ps # <<>> /\ Bytes(T) = FlattenSeq(ps) /\ Bytes(S) = Framing(ps)
        /\ NotOne(T) /\ Bytes(T) # <<>> => Len(ps[1]) >= HeaderSize
  BY DEF FramesSent
<1>2. NotOne(S) /\ S \in Seq(AnyCalls(Plain)) /\ Bytes(S) # <<>>
  BY DEF FramesSent
<1>. HIDE DEF S
<1>3. FramedAbove(ch, i) => Len(ps[1]) >= HeaderSize
  BY <1>1 DEF Fed
<1>4. FramedFrom(ch, i, Bytes(S), Bytes(T))
  BY <1>1, <1>3 DEF FramedFrom
<1>5. CodedAt(ch, i, Bytes(S), Bytes(T))
  <2>1. ch[i] # "COPY" /\ ch[i] # "SWAP2" /\ ch[i] # "AES"
    BY DEF Framed
  <2>. QED BY <1>4, <2>1 DEF CodedAt
<1>6. Fed(ch, i - 1, S)
  BY <1>2 DEF Fed, S
<1>. QED BY <1>5, <1>6 DEF PassedOn, S

\* Every method of these chains.
LEMMA EachPasses ==
  ASSUME NEW ch \in AnyChains, NEW i \in 1..Len(ch), NEW T, Fed(ch, i, T), NEW data, GivesBack(ch, data)
  PROVE  PassedOn(ch, i, T)
<1>1. ch[i] \in AllMethods
  BY ChainIs
<1>2. ch[i] # "SWAP4"
  BY DEF GivesBack, HasIn
<1>3. CASE ch[i] = "LZ4"
  <2>1. Bytes(T) # <<>> /\ (EndsOnce(T) \/ FlushedOnce(T))
    <3>1. HasIn(ch, "LZ4")
      BY <1>3 DEF HasIn
    <3>. QED BY <3>1 DEF Fed
  <2>2. FramesSent(ch[i], T)
    BY <1>3, <2>1, Lz4Frames
  <2>3. IF HasIn(ch, "BROTLI") THEN FlushedOnce(Sent(ch[i], T)) ELSE EndsOnce(Sent(ch[i], T))
    BY <1>3, Lz4EndsOnce, Lz4FlushedOnce DEF Fed
  <2>4. ch[i] \in Framed
    BY <1>3 DEF Framed
  <2>. QED BY <2>2, <2>3, <2>4, FramesPass
<1>4. CASE ch[i] = "BROTLI"
  <2>1. HasIn(ch, "BROTLI")
    BY <1>4 DEF HasIn
  <2>2. FlushedOnce(T)
    BY <2>1 DEF Fed
  <2>3. FramesSent(ch[i], T) /\ FlushedOnce(Sent(ch[i], T))
    BY <1>4, <2>2, BrotliFrames
  <2>4. ch[i] \in Framed
    BY <1>4 DEF Framed
  <2>. QED BY <2>1, <2>3, <2>4, FramesPass
<1>5. CASE ch[i] \notin Framed
  <2>1. ch[i] \in {"COPY", "SWAP2", "AES"}
    BY <1>1, <1>2, <1>5 DEF AllMethods, Framed
  <2>. QED BY <2>1, CopyPasses, SwapPasses, AesPasses
<1>. QED BY <1>3, <1>4, <1>5 DEF Framed

\* The units that Y[0] holds decode, by way of those between each coder and the next,
\* to data.
DecodesTo(ch, data) == \E Y : Decodable(ch, Y) /\ Y[0] = PackedAtOnce(ch, data) /\ Y[Len(ch)] = data

\* The calls of a push that writes all of data at once.
LEMMA FirstFed ==
  ASSUME NEW ch \in AnyChains, NEW data \in Seq(Plain), GivesBack(ch, data)
  PROVE  /\ Fed(ch, Len(ch), AtOnce(data) \o EndOfPush)
         /\ Bytes(AtOnce(data) \o EndOfPush) = data
<1>. DEFINE f == Flush
            g == Finish
            ds == AtOnce(data)
            T == ds \o EndOfPush
            C == AnyCalls(Plain)
            D == MidCalls(Plain)
<1>1. ds \in Seq(DataCalls(Plain)) /\ ds \in Seq(C) /\ Bytes(ds) = data
  BY AtOnceIs
<1>2. f \in Ends /\ g \in Ends /\ f \in C /\ g \in C /\ f \in D /\ ds \in Seq(D)
  BY <1>1, EndsAre DEF Ends, MidCalls
<1>3. EndOfPush = <<f>> \o <<g>>
  BY PairIs DEF EndOfPush
<1>. HIDE DEF f, g, ds, T, C, D
<1>4. T = Append(Append(ds, f), g) /\ Append(ds, f) \in Seq(C) /\ Append(ds, f) \in Seq(D)
  <2>1. <<f>> \in Seq(C) /\ <<g>> \in Seq(C)
    BY <1>2
  <2>2. ds \o (<<f>> \o <<g>>) = (ds \o <<f>>) \o <<g>>
    <3>1. Associates(ds, <<f>>, <<g>>)
      BY <1>1, <2>1, Associate
    <3>. QED BY <3>1 DEF Associates
  <2>3. ds \o <<f>> = Append(ds, f)
    BY <1>1, <1>2, AppendIsConcat
  <2>4. Append(ds, f) \in Seq(C) /\ Append(ds, f) \in Seq(D)
    BY <1>1, <1>2, AppendProperties
  <2>. DEFINE u == Append(ds, f)
  <2>. HIDE DEF u
  <2>5. u \o <<g>> = Append(u, g)
    BY <1>2, <2>4, AppendIsConcat DEF u
  <2>. QED BY <1>3, <2>2, <2>3, <2>4, <2>5 DEF T, u
<1>. DEFINE u == Append(ds, f)
<1>5. Bytes(u) = data /\ u \in Seq(C)
  BY <1>1, <1>2, BytesEnd DEF C
<1>. HIDE DEF u
<1>6. T = Append(u, g) /\ u \in Seq(D)
  BY <1>4 DEF u
<1>7. T \in Seq(C) /\ Bytes(T) = data
  BY <1>2, <1>5, <1>6, BytesEnd DEF C
<1>8. EndsOnce(T)
  BY <1>6 DEF EndsOnce, g, D
<1>9. FlushedOnce(T)
  BY <1>1, <1>6 DEF FlushedOnce, f, g, u
<1>10. ~FramedAbove(ch, Len(ch))
  BY ChainIs, AboveTop
<1>11. HasIn(ch, "LZ4") => data # <<>>
  BY DEF GivesBack
<1>. QED BY <1>7, <1>8, <1>9, <1>10, <1>11 DEF Fed, T, C, ds

\* All of the chain.
LEMMA PushedDecodes ==
  ASSUME NEW ch \in AnyChains, Len(ch) > 0, NEW data \in Seq(Plain), GivesBack(ch, data)
  PROVE  DecodesTo(ch, data)
<1>. DEFINE n == Len(ch)
            new == NewChain(ch)
            all == AtOnce(data) \o EndOfPush
            K(i) == CallsOn(ch, new, all, i)
            In == {i \in 0..n : i = 0 \/ Fed(ch, i, K(i))}
            Y == [i \in 0..n |-> Bytes(K(i))]
<1>1. n \in Nat /\ n > 0
  BY ChainIs
<1>2. \A i \in 1..n : new[i] = NewEncoder
  BY DEF NewChain
<1>3. new \in ChainEncs(ch)
  <2>. DEFINE X == [i \in 0..n |-> <<>>]
  <2>1. Carries(ch, new, X)
    BY CarriesNothing
  <2>. HIDE DEF X, new
  <2>. QED BY <2>1 DEF Carries
<1>4. Fed(ch, n, all) /\ Bytes(all) = data /\ all \in Seq(AnyCalls(Plain))
  <2>1. Fed(ch, n, all) /\ Bytes(all) = data
    BY FirstFed
  <2>. QED BY <2>1 DEF Fed
<1>5. PackedAtOnce(ch, data) = RunChain(ch, new, all).units
  BY Zenon DEF PackedAtOnce, new, all, AtOnce, EndOfPush
<1>. HIDE DEF new, all
<1>6. RunChain(ch, new, all).units = Bytes(K(0))
  BY <1>1, RunIs
<1>7. K(n) = all
  BY <1>1, CallsOnTop
<1>8. \A i \in 1..n : K(i - 1) = Sent(ch[i], K(i))
  <2>1. \A i \in 1..n : K(i - 1) = Feed(ch[i], new[i], K(i)).calls
    BY <1>1, CallsOnNext
  <2>. HIDE DEF K
  <2>. QED BY <1>2, <2>1 DEF Sent
<1>9. \A i \in 0..n : K(i) \in Seq(AnyCalls(StreamOf(ch, i)))
  BY <1>1, <1>3, <1>4, CallsTypes
<1>. HIDE DEF K
<1>10. ASSUME NEW i \in 1..n, i \in In PROVE PassedOn(ch, i, K(i)) /\ i - 1 \in In
  <2>1. Fed(ch, i, K(i))
    BY <1>10
  <2>2. PassedOn(ch, i, K(i))
    BY <2>1, EachPasses
  <2>3. i - 1 \in 0..n /\ (i > 1 \/ i - 1 = 0)
    BY <1>1
  <2>4. i > 1 => Fed(ch, i - 1, K(i - 1))
    BY <1>8, <2>2 DEF PassedOn
  <2>. QED BY <2>2, <2>3, <2>4
<1>11. \A i \in 0..n : i \in In
  <2>1. n \in In
    BY <1>1, <1>4, <1>7
  <2>2. \A i \in 1..n : i \in In => i - 1 \in In
    BY <1>10
  <2>. HIDE DEF In, n
  <2>. QED BY <1>1, <2>1, <2>2, DownInduction
<1>12. \A i \in 0..n : Y[i] = Bytes(K(i)) /\ Y[i] \in Seq(Units)
  <2>. TAKE i \in 0..n
  <2>1. Bytes(K(i)) \in Seq(StreamOf(ch, i))
    BY <1>9, BytesIn
  <2>2. StreamOf(ch, i) = Plain \/ StreamOf(ch, i) = Cipher
    BY DEF StreamOf, OutOf
  <2>. QED BY <2>1, <2>2, UnitsAre
<1>13. \A i \in 1..n : CodedAt(ch, i, Y[i - 1], Y[i])
  <2>. TAKE i \in 1..n
  <2>1. i - 1 \in 0..n /\ i \in 0..n
    BY <1>1
  <2>2. PassedOn(ch, i, K(i))
    BY <1>10, <1>11, <2>1
  <2>3. CodedAt(ch, i, Bytes(K(i - 1)), Bytes(K(i)))
    BY <1>8, <2>2 DEF PassedOn
  <2>. HIDE DEF Y
  <2>. QED BY <1>12, <2>1, <2>3
<1>14. ASSUME ch[1] = "AES", NEW i \in 1..n, ch[i] = "SWAP2" PROVE FALSE
  <2>1. i > 1 /\ 1 \in 1..n
    BY <1>1, <1>14
  <2>2. OverIn(ch, "SWAP2", "AES")
    BY <1>14, <2>1 DEF OverIn
  <2>. QED BY <2>2 DEF GivesBack
<1>15. Decodable(ch, Y)
  <2>. HIDE DEF Y
  <2>. QED BY <1>12, <1>13, <1>14 DEF Decodable
<1>16. Y[0] = PackedAtOnce(ch, data) /\ Y[n] = data
  BY <1>1, <1>4, <1>5, <1>6, <1>7
<1>. QED BY <1>15, <1>16 DEF DecodesTo

\* rest is what the caller has still to get.
ToCome(rest) ==
  /\ rest \in Seq(Units) /\ Data(written) = out \o rest
  /\ phase = "end" => rest = <<>>
  /\ phase = "read" => \E z \in Zeros : Gives(stack, Len(stack), rest \o z)

\* The bytes read and those that the stack of decoders has still to give are those
\* pushed.
DecodeInv == ~Excepted => phase # "error" /\ \E rest : ToCome(rest)

\* What is not excepted.
LEMMA ExceptedIs ==
  ASSUME PushInv, ~Excepted
  PROVE  /\ chain \in AnyChains /\ Len(chain) \in Nat \ {0} /\ DOMAIN chain = 1..Len(chain) /\ written \in Nat
         /\ Data(written) \in Seq(Plain) /\ Len(Data(written)) = written
         /\ GivesBack(chain, Data(written))
<1>1. chain \in AnyChains /\ Len(chain) > 0 /\ Len(chain) \in Nat /\ DOMAIN chain = 1..Len(chain)
  BY ChainsIs DEF PushInv
<1>2. written \in Nat
  BY ChainAssumption DEF PushInv
<1>3. Data(written) \in Seq(Plain) /\ Len(Data(written)) = written
  BY <1>2, DataIs
<1>4. \A m : HasIn(chain, m) <=> Has(m)
  BY <1>1 DEF HasIn, Has
<1>5. \A m, n : OverIn(chain, m, n) <=> Over(m, n)
  BY <1>1 DEF OverIn, Over
<1>6. Data(written) = <<>> => written = 0
  BY <1>3
<1>7. GivesBack(chain, Data(written))
  BY <1>4, <1>5, <1>6 DEF GivesBack, Excepted
<1>. QED BY <1>1, <1>2, <1>3, <1>7

\* The size in the header is that of the entry.
LEMMA UnpackSizeIs ==
  ASSUME PushInv, ReadInv, phase # "push"
  PROVE  get_unpack_size(block) = written
<1>. DEFINE n == Len(chain)
            sizes == block.unpack_sizes
<1>1. chain \in AnyChains /\ n > 0 /\ n \in Nat /\ DOMAIN chain = 1..n
  BY ChainsIs DEF PushInv
<1>2. sizes[n] = written
  <2>1. n \in DOMAIN chain
    BY <1>1
  <2>. QED BY <2>1 DEF PushInv, CutsDoNotShow
<1>3. chain \in Seq(AllMethods) /\ chain # <<>>
  BY <1>1 DEF AnyChains
<1>4. get_unpack_size(write_block(chain, sizes)) = sizes[n]
  <2>. HIDE DEF sizes
  <2>. QED BY <1>3, CodersComeBackInOrder
<1>5. block = write_block(chain, sizes)
  BY DEF ReadInv
<1>. QED BY <1>2, <1>4, <1>5

\* Before the block is opened, everything has to come.
LEMMA BeforeReading ==
  ASSUME PushInv, ReadInv, phase \in {"push", "packed"}
  PROVE  DecodeInv
<1>. SUFFICES ASSUME ~Excepted PROVE phase # "error" /\ \E rest : ToCome(rest)
  BY DEF DecodeInv
<1>. DEFINE d == Data(written)
<1>1. d \in Seq(Units)
  BY ExceptedIs, UnitsAre
<1>2. out = <<>>
  BY DEF ReadInv
<1>3. phase # "error" /\ phase # "end" /\ phase # "read"
  OBVIOUS
<1>. HIDE DEF d
<1>4. <<>> \o d = d
  BY <1>1, ConcatEmptySeq
<1>5. ToCome(d)
  BY <1>1, <1>2, <1>3, <1>4 DEF ToCome, d
<1>. QED BY <1>3, <1>5

\* Opening it gives decoders that have all of it.
LEMMA OpenBlockDecodes ==
  ASSUME PushInv, ReadInv, DecodeInv, OpenBlock
  PROVE  DecodeInv'
<1>. DEFINE r == build_decode_stack(block, packed)
            n == Len(chain)
            d == Data(written)
<1>1. phase = "packed" /\ stack' = r.stack /\ phase' = (IF r.ok THEN "read" ELSE "error")
      /\ UNCHANGED <<chain, written, encs, packed, block, out>>
  BY DEF OpenBlock
<1>2. Excepted' <=> Excepted
  BY <1>1 DEF Excepted, Has, Over
<1>. SUFFICES ASSUME ~Excepted PROVE phase' # "error" /\ \E rest : ToCome(rest)'
  BY <1>2 DEF DecodeInv
<1>3. chain \in AnyChains /\ n \in Nat \ {0} /\ d \in Seq(Plain) /\ GivesBack(chain, d)
  BY ExceptedIs
<1>4. PICK Y : Decodable(chain, Y) /\ Y[0] = PackedAtOnce(chain, d) /\ Y[n] = d
  <2>1. DecodesTo(chain, d)
    BY <1>3, PushedDecodes
  <2>. QED BY <2>1 DEF DecodesTo
<1>5. packed = Y[0]
  BY <1>1, <1>4 DEF PushInv, CutsDoNotShow
<1>6. block = write_block(chain, block.unpack_sizes)
  BY DEF ReadInv
<1>7. Opened(chain, Y, n, r)
  <2>1. Opened(chain, Y, n, build_decode_stack(write_block(chain, block.unpack_sizes), Y[0]))
    BY <1>3, <1>4, OpenWell
  <2>. QED BY <1>5, <1>6, <2>1
<1>. HIDE DEF r
<1>8. r.ok /\ Len(r.stack) = n + 1 /\ GivesPadded(chain, r.stack, n, d)
  BY <1>4, <1>7 DEF Opened
<1>9. \E z \in Zeros : Gives(r.stack, Len(r.stack), d \o z)
  BY <1>8 DEF GivesPadded
<1>10. d \in Seq(Units) /\ out = <<>>
  BY <1>1, <1>3, UnitsAre DEF ReadInv
<1>. HIDE DEF d
<1>11. <<>> \o d = d
  BY <1>10, ConcatEmptySeq
<1>12. phase' = "read" /\ Data(written') = d
  BY <1>1, <1>8 DEF d
<1>13. PICK rest : rest = d
  OBVIOUS
<1>14. ToCome(rest)'
  BY <1>1, <1>9, <1>10, <1>11, <1>12, <1>13 DEF ToCome
<1>. QED BY <1>12, <1>14

\* The splits of units.
SplitAt(a, b, c, d) == \E e \in Seq(Units) : c = a \o e /\ b = e \o d

\* What is left of rest behind the part of it that was read.
LEMMA SplitUnits ==
  ASSUME NEW a \in Seq(Units), NEW b \in Seq(Units), NEW c \in Seq(Units), NEW d \in Seq(Units),
         a \o b = c \o d, Len(a) <= Len(c)
  PROVE  SplitAt(a, b, c, d)
<1>. DEFINE n == Len(a)
            f == First(c, n)
            e == From(c, n)
<1>1. n \in 0..Len(c)
  OBVIOUS
<1>2. f \in Seq(Units) /\ Len(f) = n /\ e \in Seq(Units) /\ f \o e = c
  BY <1>1, CutIs
<1>. HIDE DEF f, e, n
<1>3. (f \o e) \o d = f \o (e \o d) /\ e \o d \in Seq(Units)
  <2>1. f \in Seq(Units) /\ e \in Seq(Units)
    BY <1>2
  <2>2. (f \o e) \o d = f \o (e \o d)
    <3>1. Associates(f, e, d)
      BY <2>1, Associate
    <3>. QED BY <3>1 DEF Associates
  <2>3. e \o d \in Seq(Units)
    BY <2>1, ConcatProperties
  <2>. QED BY <2>2, <2>3
<1>4. a = f /\ b = e \o d
  <2>. DEFINE g == e \o d
  <2>1. g \in Seq(Units) /\ a \o b = f \o g /\ Len(a) = Len(f) /\ f \in Seq(Units)
    BY <1>2, <1>3 DEF n
  <2>. HIDE DEF g
  <2>2. a = f /\ b = g
    BY <2>1, SameCut
  <2>. QED BY <2>2 DEF g
<1>. QED BY <1>2, <1>4 DEF SplitAt

\* A read takes the next bytes, and the checksum fits.
LEMMA ReadEntryDecodes ==
  ASSUME PushInv, ReadInv, DecodeInv, NEW n \in ReadSizes, ReadEntry(n)
  PROVE  DecodeInv'
<1>. DEFINE left == written - Len(out)
            k == Asked(n)
            r == Read(stack, k)
            all == out \o r.got
            ok == r.ok /\ (Len(all) >= get_unpack_size(block) => all = Data(written))
            d == Data(written)
<1>1. phase = "read" /\ UNCHANGED <<chain, written, encs, packed, block>>
  BY DEF ReadEntry
<1>2. Excepted' <=> Excepted
  BY <1>1 DEF Excepted, Has, Over
<1>. SUFFICES ASSUME ~Excepted PROVE phase' # "error" /\ \E rest : ToCome(rest)'
  BY <1>2 DEF DecodeInv
<1>3. PICK rest : ToCome(rest)
  BY DEF DecodeInv
<1>4. PICK z \in Zeros : Gives(stack, Len(stack), rest \o z)
  BY <1>1, <1>3 DEF ToCome
<1>5. rest \in Seq(Units) /\ d = out \o rest /\ out \in Seq(Units) /\ z \in Seq(Units)
  BY <1>3, ZerosIn DEF ToCome, ReadInv
<1>6. Len(d) = written /\ written \in Nat /\ d' = d
  BY <1>1, ExceptedIs
<1>7. stack \in Sounds /\ Len(stack) > 0 /\ n \in Nat \ {0}
  BY <1>1, ChainAssumption DEF ReadInv
<1>. HIDE DEF d
<1>8. Len(out) \in Nat /\ Len(rest) \in Nat /\ left = Len(rest)
  <2>. DEFINE a == out
              l == Len(a)
              m == Len(rest)
  <2>1. l \in Nat /\ m \in Nat /\ Len(a \o rest) = l + m
    BY <1>5, ConcatIs
  <2>2. written = l + m
    BY <1>5, <1>6, <2>1
  <2>. HIDE DEF l, m
  <2>3. written - l = m
    BY <2>1, <2>2
  <2>. QED BY <2>1, <2>3 DEF l, m
<1>9. CASE left = 0
  <2>1. phase' = "end" /\ UNCHANGED <<stack, out>>
    BY <1>9 DEF ReadEntry
  <2>2. rest = <<>>
    BY <1>5, <1>8, <1>9, ConcatIs
  <2>3. Data(written') = d
    BY <1>6 DEF d
  <2>4. ToCome(rest)'
    BY <1>5, <2>1, <2>2, <2>3 DEF ToCome
  <2>. QED BY <2>1, <2>4
<1>10. CASE left # 0
  <2>1. stack' = r.stack /\ out' = (IF ok THEN all ELSE out)
        /\ (ok /\ r.got # <<>> => phase' = "read")
    BY <1>10, Zenon DEF ReadEntry, Answered, Asked, d
  <2>2. k \in Nat \ {0} /\ k <= left
    BY <1>6, <1>7, <1>8, <1>10 DEF Asked, AtMost
  <2>. HIDE DEF k
  <2>3. Kept(stack, r.stack, Len(stack)) /\ r.got \in Seq(Units) /\ Len(r.got) <= k
    BY <1>7, <2>2, ReadSane DEF Sane
  <2>4. GetsSome(r, Len(stack), rest \o z)
    BY <1>4, <1>7, <2>2, ReadWell
  <2>. DEFINE g == r.got
  <2>5. PICK next : Left(r, Len(stack), rest \o z, next)
    BY <2>4 DEF GetsSome
  <2>6. g = <<>> => rest \o z = <<>>
    BY <2>4 DEF GetsSome
  <2>7. next \in Seq(Units) /\ rest \o z = g \o next /\ r.ok /\ Gives(r.stack, Len(stack), next)
    BY <2>5 DEF Left
  <2>8. g \in Seq(Units) /\ Len(g) \in Nat /\ Len(g) <= Len(rest)
    <3>1. g \in Seq(Units) /\ Len(g) \in Nat /\ Len(g) <= k
      BY <2>3, LenProperties
    <3>. HIDE DEF g
    <3>. QED BY <1>8, <2>2, <3>1
  <2>9. Len(r.stack) = Len(stack)
    BY <2>3 DEF Kept
  <2>. HIDE DEF r, g, ok
  <2>10. PICK e \in Seq(Units) : rest = g \o e /\ next = e \o z
    <3>1. g \o next = rest \o z
      BY <2>7
    <3>2. g \in Seq(Units) /\ next \in Seq(Units) /\ rest \in Seq(Units) /\ z \in Seq(Units) /\ Len(g) <= Len(rest)
      BY <1>5, <2>7, <2>8
    <3>3. SplitAt(g, next, rest, z)
      BY <3>1, <3>2, SplitUnits
    <3>. QED BY <3>3 DEF SplitAt
  <2>11. g # <<>>
    <3>. SUFFICES ASSUME g = <<>> PROVE FALSE
      OBVIOUS
    <3>1. rest = <<>>
      BY <1>5, <2>6, ConcatIs
    <3>. QED BY <1>8, <1>10, <3>1
  <2>. DEFINE a == out
  <2>12. a \in Seq(Units) /\ d = (a \o g) \o e /\ a \o g \in Seq(Units)
    <3>1. a \in Seq(Units) /\ g \in Seq(Units) /\ e \in Seq(Units) /\ d = a \o (g \o e)
      BY <1>5, <2>8, <2>10
    <3>. HIDE DEF a
    <3>2. a \o (g \o e) = (a \o g) \o e
      <4>1. Associates(a, g, e)
        BY <3>1, Associate
      <4>. QED BY <4>1 DEF Associates
    <3>3. a \o g \in Seq(Units)
      BY <3>1, ConcatProperties
    <3>. QED BY <3>1, <3>2, <3>3
  <2>13. all = a \o g
    BY DEF g
  <2>. HIDE DEF all, a
  <2>14. d = all \o e /\ all \in Seq(Units)
    BY <2>12, <2>13
  <2>15. ok
    <3>1. get_unpack_size(block) = written
      BY <1>1, UnpackSizeIs
    <3>2. ASSUME Len(all) >= written PROVE all = d
      <4>1. Len(all) \in Nat /\ Len(e) \in Nat /\ Len(all \o e) = Len(all) + Len(e)
        BY <2>14, ConcatIs
      <4>2. Len(e) = 0
        BY <1>6, <2>14, <3>2, <4>1
      <4>3. e = <<>>
        BY <4>2, ConcatIs
      <4>. QED BY <2>14, <4>3, ConcatIs
    <3>. QED BY <2>7, <3>1, <3>2 DEF ok, d
  <2>16. phase' = "read" /\ out' = all /\ stack' = r.stack /\ Len(stack') = Len(stack)
    BY <2>1, <2>9, <2>11, <2>15 DEF g
  <2>17. \E y \in Zeros : Gives(stack', Len(stack'), e \o y)
    BY <2>7, <2>10, <2>16
  <2>18. Data(written') = d
    BY <1>6 DEF d
  <2>19. ToCome(e)'
    BY <2>14, <2>16, <2>17, <2>18 DEF ToCome
  <2>. QED BY <2>16, <2>19
<1>. QED BY <1>9, <1>10

\* Before the entry is read.
EarlyInv == phase \in {"push", "packed"} => DecodeInv

\* Every step keeps DecodeInv.
LEMMA DecodeStep ==
  ASSUME PushInv, ReadInv, EarlyInv', DecodeInv, [Next]_vars
  PROVE  DecodeInv'
<1>1. ASSUME phase' \in {"push", "packed"} PROVE DecodeInv'
  BY <1>1 DEF EarlyInv
<1>2. ASSUME NEW n \in ReadSizes, PushBytes(n) PROVE DecodeInv'
  <2>1. phase' = "push"
    BY <1>2 DEF PushBytes
  <2>. QED BY <1>1, <2>1
<1>3. CASE FinishPush
  <2>1. phase' = "packed"
    BY <1>3 DEF FinishPush
  <2>. QED BY <1>1, <2>1
<1>4. CASE OpenBlock
  BY <1>4, OpenBlockDecodes
<1>5. ASSUME NEW n \in ReadSizes, ReadEntry(n) PROVE DecodeInv'
  BY <1>5, ReadEntryDecodes
<1>6. CASE UNCHANGED vars
  BY <1>6 DEF vars, DecodeInv, Excepted, Has, Over, ToCome
<1>. QED BY <1>2, <1>3, <1>4, <1>5, <1>6 DEF Next

\* What the caller has is a prefix of what was pushed.
LEMMA DecodesFollow ==
  ASSUME PushInv, ReadInv, DecodeInv
  PROVE  DecodesWhatWasPushed
<1>. SUFFICES ASSUME ~Excepted
              PROVE  /\ phase # "error"
                     /\ IsPrefix(out, Data(written))
                     /\ phase = "end" => out = Data(written)
  BY DEF DecodesWhatWasPushed
<1>. DEFINE a == out
            d == Data(written)
<1>1. PICK rest : ToCome(rest)
  BY DEF DecodeInv
<1>2. phase # "error"
  BY DEF DecodeInv
<1>3. rest \in Seq(Units) /\ d = a \o rest /\ a \in Seq(Units) /\ (phase = "end" => rest = <<>>)
  BY <1>1 DEF ToCome, ReadInv
<1>. HIDE DEF a, d
<1>4. Len(a) \in Nat /\ Len(rest) \in Nat /\ Len(a \o rest) = Len(a) + Len(rest) /\ a \o <<>> = a
  BY <1>3, ConcatIs
<1>5. First(d, Len(a)) = a
  BY <1>3, CutUnique
<1>6. First(a, Len(a)) = a
  <2>. DEFINE e == <<>>
  <2>1. e \in Seq(Units) /\ a \o e = a
    BY <1>4
  <2>. HIDE DEF e
  <2>2. First(a \o e, Len(a)) = a
    BY <1>3, <2>1, CutUnique
  <2>. QED BY <2>1, <2>2
<1>7. IsPrefix(a, d)
  <2>1. SubSeq(a, 1, Len(a)) = SubSeq(d, 1, Len(a))
    BY <1>5, <1>6 DEF First
  <2>2. Len(a) <= Len(d)
    BY <1>3, <1>4
  <2>. QED BY <2>1, <2>2 DEF IsPrefix
<1>8. phase = "end" => a = d
  BY <1>3, <1>4
<1>. QED BY <1>2, <1>7, <1>8 DEF a, d

\* What is pushed through a chain of methods that is not Excepted comes back through
\* the stack of decoders that build_decode_stack makes of the block: the bytes in
\* order, then the end, and no error, whatever the sizes of the buffers that the
\* source is read and the entry is read with (ArchiveWriter::push_archive_entry and
\* BlockDecoder::for_each_entries, with the encoders and decoders of the methods).
THEOREM DecodesThePush == Spec => []DecodesWhatWasPushed
<1>1. Init => ReadInv
  BY ReadInit
<1>2. PushInv /\ PushInv' /\ ReadInv /\ [Next]_vars => ReadInv'
  BY ReadStep
<1>3. Spec => []ReadInv
  BY <1>1, <1>2, PushInvariant, PTL DEF Spec
<1>4. Init => DecodeInv
  <2>. SUFFICES ASSUME Init PROVE DecodeInv
    OBVIOUS
  <2>1. PushInv /\ ReadInv /\ phase = "push"
    BY PushInit, ReadInit DEF Init
  <2>. QED BY <2>1, BeforeReading
<1>5. PushInv /\ ReadInv => EarlyInv
  BY BeforeReading DEF EarlyInv
<1>6. PushInv /\ ReadInv /\ EarlyInv' /\ DecodeInv /\ [Next]_vars => DecodeInv'
  BY DecodeStep
<1>7. Spec => []DecodeInv
  BY <1>3, <1>4, <1>5, <1>6, PushInvariant, PTL DEF Spec
<1>8. PushInv /\ ReadInv /\ DecodeInv => DecodesWhatWasPushed
  BY DecodesFollow
<1>. QED BY <1>3, <1>7, <1>8, PushInvariant, PTL
=============================================================================
