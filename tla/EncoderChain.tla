----------------------------- MODULE EncoderChain -----------------------------
(***************************************************************************)
(* The chain of encoders between ArchiveWriter and its output:             *)
(* src/encoder.rs, src/codec/{swap,lz4,brotli}.rs, src/encryption/aes.rs.  *)
(*                                                                         *)
(* An encoder turns each call on it (write of a buffer, flush, or the      *)
(* empty write that finishes it) into calls on the writer below it.  LZ4   *)
(* and BROTLI stand for their skippable-frame formats.                     *)
(***************************************************************************)
EXTENDS Naturals, Sequences, SequencesExt

CONSTANTS
  FrameSize,   \* skippable_frame_size
  AesBlock     \* 16

ASSUME EncoderAssumption == FrameSize \in Nat \ {0} /\ AesBlock \in Nat \ {0}

\* The units of a stream: data, the two parts of a frame header that announces n
\* units, the end mark of compressed data, a zero, and unit j of the block that
\* plain was encrypted to.
DataByte(i) == <<"byte", i>>
FrameHeader(n) == <<<<"head", n, 1>>, <<"head", n, 2>>>>
EndMark == <<"end">>
ZeroByte == <<"zero">>
Encrypt(plain) == [j \in 1..AesBlock |-> <<"cipher", plain, j, 0>>]

\* calls on a writer
Write(buf) == [call |-> "write", buf |-> buf]
Flush == [call |-> "flush", buf |-> <<>>]
Finish == Write(<<>>)

\* the whole groups of n units of s, and what is left of it
Groups(s, n) == [g \in 1..(Len(s) \div n) |-> SubSeq(s, n * (g - 1) + 1, n * g)]
Rest(s, n) == SubSeq(s, n * (Len(s) \div n) + 1, Len(s))

\* held: pending, uncompressed_data or buffer, the bytes kept for the next call;
\* taken: what the CountingWriter above the encoder has counted
NewEncoder == [held |-> <<>>, finished |-> FALSE, taken |-> 0]

\* an encoder that keeps held, and its calls on the writer below
Step(enc, held, calls) == [enc |-> [enc EXCEPT !.held = held], calls |-> calls]

-----------------------------------------------------------------------------

Passes(enc, call) == Step(enc, enc.held, <<call>>)

Unit(m) == IF m = "SWAP2" THEN 2 ELSE 4

\* mutant of SwapWrite: each write starts a new unit
SwapWriteAnew(m, enc, buf) ==
  Step(enc, Rest(buf, Unit(m)),
       [g \in 1..(Len(buf) \div Unit(m)) |-> Write(Reverse(Groups(buf, Unit(m))[g]))])

SwapWrite(m, enc, buf) ==
  LET all == enc.held \o buf
  IN  Step(enc, Rest(all, Unit(m)),
           [g \in 1..(Len(all) \div Unit(m)) |-> Write(Reverse(Groups(all, Unit(m))[g]))])

SwapFinish(enc) ==
  Step(enc, <<>>, [i \in 1..Len(enc.held) |-> Write(<<Reverse(enc.held)[i]>>)]
                    \o <<Flush, Finish>>)

\* write_frame: the compressed form of plain is external, it ends where it says
write_frame(plain) ==
  LET header == FrameHeader(Len(plain) + 1)
  IN  <<Write(<<header[1]>>), Write(<<header[2]>>), Write(Append(plain, EndMark))>>

FramedWrite(enc, buf) ==
  LET all == enc.held \o buf
  IN  Step(enc, Rest(all, FrameSize),
           FlattenSeq([g \in 1..(Len(all) \div FrameSize) |->
                         write_frame(Groups(all, FrameSize)[g])]))

\* lz4 writes no empty frame; a brotli stream is never empty, so brotli does
LastFrame(m, enc) == IF m = "LZ4" /\ enc.held = <<>> THEN <<>> ELSE write_frame(enc.held)

FramedFlush(m, enc) == Step(enc, <<>>, LastFrame(m, enc) \o <<Flush>>)

\* brotli takes the empty write for a write of nothing
FramedFinish(m, enc) ==
  IF m = "LZ4" THEN Step(enc, <<>>, LastFrame(m, enc) \o <<Finish>>)
  ELSE Step(enc, enc.held, <<>>)

\* mutant of AesWrite: a block that is just complete is kept
AesWriteKeepsBlock(enc, buf) ==
  LET all == enc.held \o buf
      n == (Len(all) - 1) \div AesBlock
  IN  Step(enc, SubSeq(all, AesBlock * n + 1, Len(all)),
           [g \in 1..n |-> Write(Encrypt(Groups(all, AesBlock)[g]))])

AesWrite(enc, buf) ==
  LET all == enc.held \o buf
  IN  Step(enc, Rest(all, AesBlock),
           [g \in 1..(Len(all) \div AesBlock) |->
              Write(Encrypt(Groups(all, AesBlock)[g]))])

\* the last block is filled up with zeros
Padded(s) == [i \in 1..AesBlock |-> IF i <= Len(s) THEN s[i] ELSE ZeroByte]

AesFinish(enc) ==
  Step([enc EXCEPT !.finished = TRUE], <<>>,
       (IF enc.held = <<>> THEN <<>> ELSE <<Write(Encrypt(Padded(enc.held)))>>)
         \o <<Finish>>)

\* one call on the encoder of method m; AES does not pass a flush on, and accepts
\* nothing once it is finished
Call(m, enc, call) ==
  CASE m = "COPY" -> Passes(enc, call)
    [] m \in {"SWAP2", "SWAP4"} ->
         (CASE call = Flush -> Passes(enc, call)
            [] call = Finish -> SwapFinish(enc)
            [] OTHER -> SwapWrite(m, enc, call.buf))
    [] m \in {"LZ4", "BROTLI"} ->
         (CASE call = Flush -> FramedFlush(m, enc)
            [] call = Finish -> FramedFinish(m, enc)
            [] OTHER -> FramedWrite(enc, call.buf))
    [] m = "AES" ->
         (CASE call = Flush \/ (enc.finished /\ call # Finish) -> Step(enc, enc.held, <<>>)
            [] call = Finish -> AesFinish(enc)
            [] OTHER -> AesWrite(enc, call.buf))

-----------------------------------------------------------------------------

\* one more call on an encoder, which its CountingWriter counts
Pass(m, acc, call) ==
  LET r == Call(m, [acc.enc EXCEPT !.taken = @ + Len(call.buf)], call)
  IN  [enc |-> r.enc, calls |-> acc.calls \o r.calls]

\* calls, one after the other, on one encoder
Feed(m, enc, calls) ==
  LET upto[k \in 0..Len(calls)] ==
        IF k = 0 THEN [enc |-> enc, calls |-> <<>>] ELSE Pass(m, upto[k - 1], calls[k])
  IN  upto[Len(calls)]

\* create_writer: the first method is next to the output, the last is written to.
\* What has become of calls below the last j encoders.
Below(chain, encs, calls) ==
  LET n == Len(chain)
      down[j \in 0..n] ==
        IF j = 0 THEN calls ELSE Feed(chain[n - j + 1], encs[n - j + 1], down[j - 1]).calls
  IN  down

\* The encoders after the calls, and the units that reached the output.
RunChain(chain, encs, calls) ==
  LET n == Len(chain)
      down == Below(chain, encs, calls)
  IN  [encs  |-> [i \in 1..n |-> Feed(chain[i], encs[i], down[n - i]).enc],
       units |-> FlattenSeq([k \in DOMAIN down[n] |-> down[n][k].buf])]

\* collect_sizes: the bytes that went into each encoder, and into the last one all
collect_sizes(encs, write_len) ==
  [i \in DOMAIN encs |-> IF i < Len(encs) THEN encs[i].taken ELSE write_len]

NewChain(chain) == [i \in 1..Len(chain) |-> NewEncoder]

\* what one write of all of data, then flush and the empty write, make of it
PackedAtOnce(chain, data) ==
  RunChain(chain, NewChain(chain),
           (IF data = <<>> THEN <<>> ELSE <<Write(data)>>) \o <<Flush, Finish>>).units
=============================================================================
