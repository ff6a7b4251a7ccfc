----------------------------- MODULE DecoderStack -----------------------------
(***************************************************************************)
(* The stack of decoders build_decode_stack puts on a packed stream:       *)
(* src/decoder.rs and the readers of src/codec and src/encryption/aes.rs.  *)
(*                                                                         *)
(* stack[1] is the source, stack[i + 1] the decoder of the i-th method.  A *)
(* read may read the decoder below several times, so a read is a function  *)
(* of the whole stack; read[stack][k] reads k units from the one below.    *)
(***************************************************************************)
EXTENDS EncoderChain, BlockCoders

CONSTANT InBuffer   \* ibuffer of the AES decoder, a multiple of AesBlock

HeaderSize == Len(FrameHeader(0))

\* a header has 12 or 16 bytes, an AES block 16, a frame 64 KiB at least
ASSUME DecoderAssumption ==
  /\ InBuffer \in Nat \ {0} /\ InBuffer % AesBlock = 0
  /\ HeaderSize <= AesBlock /\ HeaderSize <= FrameSize

Plain == {"byte"} \X Nat \cup {"head"} \X Nat \X {1, 2} \cup {EndMark, ZeroByte}
Units == Plain \cup {"cipher"} \X [1..AesBlock -> Plain] \X (1..AesBlock) \X {0}

\* ready: obuffer, or what the decompressor has to hand out; held: pending, or the
\* incomplete block of Cipher; remaining: remaining_in_frame, 0 once the frame is
\* decompressed; ended: done, or None in place of the decompressor
Decoders ==
  [method : {"SOURCE", "COPY", "SWAP2", "SWAP4", "AES", "LZ4", "BROTLI"},
   ready : Seq(Units), held : Seq(Units), pending_len : Nat, remaining : Nat,
   ended : BOOLEAN]
Stacks == Seq(Decoders)

\* the stack after a read, what the read returned, and whether it was Ok
Result(stack, got, ok) == [stack |-> stack, got |-> got, ok |-> ok]

\* the same after a round of a loop of reads, and whether the loop is over
Round(stack, got, ok, over) == [stack |-> stack, got |-> got, ok |-> ok, over |-> over]
Before(stack, got) == Round(stack, got, TRUE, FALSE)
Returned(acc) == Result(acc.stack, acc.got, acc.ok)

First(s, n) == SubSeq(s, 1, n)
From(s, n) == SubSeq(s, n + 1, Len(s))
AtMost(k, n) == IF k <= n THEN k ELSE n

\* hand out at most k units of the field of reader i that holds them
Take(stack, i, k) ==
  LET n == AtMost(k, Len(stack[i].ready))
  IN  Result([stack EXCEPT ![i].ready = From(@, n)], First(stack[i].ready, n), TRUE)

FillRound(read, acc, k) ==
  LET r == read[acc.stack][k - Len(acc.got)]
  IN  IF acc.over \/ Len(acc.got) = k THEN acc
      ELSE Round(r.stack, acc.got \o r.got, r.ok, ~r.ok \/ r.got = <<>>)

\* read until k units were got or a read returned none: at most k reads return some
Fill(read, stack, k) ==
  LET upto[j \in 0..k] ==
        IF j = 0 THEN Before(stack, <<>>) ELSE FillRound(read, upto[j - 1], k)
  IN  Returned(upto[k])

-----------------------------------------------------------------------------
(* Swap2Reader, Swap4Reader: pending has room for all but one of a unit *)

\* the pending units are stored from the front of the array
Keep(s, units) ==
  [s EXCEPT !.held = units \o From(@, Len(units)), !.pending_len = Len(units)]

\* ... and taken from its end
Emit(s, n) == [j \in 1..n |-> s.held[Len(s.held) - s.pending_len + j]]

\* what r read of a unit is reversed and handed out, what does not fit buf is kept
HandOut(r, acc, i, k) ==
  LET unit == Reverse(r.got)
      n == AtMost(k - Len(acc.got), Len(unit))
      kept == [r.stack EXCEPT ![i] = Keep(@, From(unit, n))]
  IN  IF ~r.ok THEN Round(r.stack, acc.got, FALSE, TRUE)
      ELSE Round(kept, acc.got \o First(unit, n), TRUE, Len(unit) < Unit(acc.stack[i].method))

SwapRound(read, acc, i, k) ==
  IF acc.over \/ Len(acc.got) = k THEN acc
  ELSE HandOut(Fill(read, acc.stack, Unit(acc.stack[i].method)), acc, i, k)

\* at most k units give something
SwapUnits(read, start, i, k) ==
  LET upto[j \in 0..k] == IF j = 0 THEN start ELSE SwapRound(read, upto[j - 1], i, k)
  IN  Returned(upto[k])

\* mutant of SwapRead: the rest of a unit is dropped
SwapReadDrops(read, stack, i, k) ==
  SwapUnits(read, Before([stack EXCEPT ![i].pending_len = 0], <<>>), i, k)

SwapRead(read, stack, i, k) ==
  LET n == AtMost(k, stack[i].pending_len)
  IN  SwapUnits(read, Before([stack EXCEPT ![i].pending_len = @ - n], Emit(stack[i], n)),
                   i, k)

-----------------------------------------------------------------------------
(* Aes256Sha256Decoder *)

Decrypt(blocks) == FlattenSeq([g \in DOMAIN blocks |-> blocks[g][1][2]])

\* one call: a read too short for the incomplete block panics, a source that ends in
\* one is an error
get_more_data(read, r, i) ==
  LET s == r.stack[i]
      in == read[r.stack][InBuffer]
      all == s.held \o in.got
  IN  IF s.ready # <<>> \/ s.ended THEN r
      ELSE IF ~in.ok \/ (in.got # <<>> /\ s.held # <<>> /\ Len(all) < AesBlock)
           THEN Result(in.stack, <<>>, FALSE)
      ELSE IF in.got = <<>>
           THEN Result([in.stack EXCEPT ![i].ended = TRUE], <<>>, s.held = <<>>)
      ELSE Result([in.stack EXCEPT ![i].ready = Decrypt(Groups(all, AesBlock)),
                                   ![i].held = Rest(all, AesBlock)], <<>>, TRUE)

\* until there is something to hand out or the source ended: two calls do, for a
\* read shorter than a block is held, and the next one completes the block or fails
get_more_again(read, r, i) == IF r.ok THEN get_more_data(read, r, i) ELSE r
TakeIfOk(r, i, k) == IF r.ok THEN Take(r.stack, i, k) ELSE r

AesRead(read, stack, i, k) ==
  TakeIfOk(get_more_again(read, get_more_data(read, Result(stack, <<>>, TRUE), i), i), i, k)

-----------------------------------------------------------------------------
(* Lz4Decoder, BrotliDecoder *)

\* a header announces at least the end mark
IsHeader(units) ==
  Len(units) = HeaderSize /\ units[1][1] = "head" /\ units = FrameHeader(units[1][2])

\* the decompressor is external: it hands out what the n units of a frame hold
Decompress(r, n, i, k) ==
  IF ~r.ok \/ Len(r.got) < n \/ Last(r.got) # EndMark THEN Result(r.stack, <<>>, FALSE)
  ELSE Take([r.stack EXCEPT ![i].remaining = 0, ![i].ready = First(r.got, n - 1)], i, k)

FrameRead(read, stack, i, k) ==
  LET n == stack[i].remaining
  IN  IF n = 0 THEN Take(stack, i, k) ELSE Decompress(Fill(read, stack, n), n, i, k)

\* what was read in place of a header of the next frame
read_next_frame_header(read, h, i, k) ==
  IF ~h.ok THEN Result(h.stack, <<>>, FALSE)
  ELSE IF IsHeader(h.got)
       THEN FrameRead(read, [h.stack EXCEPT ![i].remaining = h.got[1][2]], i, k)
  ELSE Result([h.stack EXCEPT ![i].ended = TRUE], <<>>, h.got = <<>> \/ h.got[1][1] # "head")

\* after a frame the next one is looked for, once: what it returns is returned
NextFrame(read, r, i, k) ==
  IF ~r.ok \/ r.got # <<>> THEN r
  ELSE read_next_frame_header(read, Fill(read, r.stack, HeaderSize), i, k)

FramedRead(read, stack, i, k) ==
  IF stack[i].ended THEN Result(stack, <<>>, TRUE)
  ELSE NextFrame(read, FrameRead(read, stack, i, k), i, k)

-----------------------------------------------------------------------------

\* impl Read for Decoder: reader i of the stack, when read reads from the one below
DecoderRead(read, stack, i, k) ==
  LET m == stack[i].method
  IN  CASE m = "COPY" -> read[stack][k]
        [] m \in {"SWAP2", "SWAP4"} -> SwapRead(read, stack, i, k)
        [] m = "AES" -> AesRead(read, stack, i, k)
        [] m \in {"LZ4", "BROTLI"} -> FramedRead(read, stack, i, k)

Source == [stack \in Stacks |-> [k \in Nat \ {0} |-> Take(stack, 1, k)]]
ReaderOver(read, i) == [stack \in Stacks |-> [k \in Nat \ {0} |-> DecoderRead(read, stack, i, k)]]

\* the readers of a stack of n, from the source up
Readers(n) ==
  LET reader[i \in 1..n] == IF i = 1 THEN Source ELSE ReaderOver(reader[i - 1], i)
  IN  reader

Read(stack, k) == Readers(Len(stack))[Len(stack)][stack][k]

NewDecoder(m) ==
  [method |-> m, ready |-> <<>>, pending_len |-> 0, remaining |-> 0, ended |-> FALSE,
   held |-> IF m \in {"SWAP2", "SWAP4"} THEN [j \in 1..(Unit(m) - 1) |-> ZeroByte] ELSE <<>>]

\* a decoder of frames reads the first header when it is made, in one read; anything
\* else would be decoded as a stream without frames, and fails
add_decoder(stack, m) ==
  LET r == Read(stack, HeaderSize)
  IN  IF m \notin {"LZ4", "BROTLI"} THEN Result(Append(stack, NewDecoder(m)), <<>>, TRUE)
      ELSE Result(Append(r.stack, [NewDecoder(m) EXCEPT
                                     !.remaining = IF IsHeader(r.got) THEN r.got[1][2] ELSE 0]),
                  <<>>, r.ok /\ IsHeader(r.got))

\* a decoder for each coder, from the packed stream on
add_coder(block, acc, coder) ==
  IF acc.ok /\ coder # 0 THEN add_decoder(acc.stack, block.coders[coder]) ELSE acc

PackedSource(packed) == [NewDecoder("SOURCE") EXCEPT !.ready = packed]

build_decode_stack(block, packed) ==
  LET coder == ordered_coder_iter(block)
      start == Result(<<PackedSource(packed)>>, <<>>, packed_stream(block) # 0)
      upto[j \in 0..Len(block.coders)] ==
        IF j = 0 THEN start ELSE add_coder(block, upto[j - 1], coder[j])
  IN  upto[Len(block.coders)]
=============================================================================
