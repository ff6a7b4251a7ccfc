------------------------------ MODULE CodecChain ------------------------------
(***************************************************************************)
(* One block through a chain of methods and back: what ArchiveWriter does  *)
(* with a chain of encoders in a push, and a caller with the stack of      *)
(* decoders when it reads the entry.                                       *)
(***************************************************************************)
EXTENDS DecoderStack

CONSTANTS
  Methods,     \* the methods chains are made of
  MaxChain,    \* bound on the methods of a chain
  MaxData,     \* bound on the bytes pushed
  ReadSizes    \* lengths of the buffers of the pushing loop and of the caller

ASSUME ChainAssumption ==
  /\ Methods \subseteq {"COPY", "SWAP2", "SWAP4", "LZ4", "BROTLI", "AES"}
  /\ MaxChain \in Nat /\ MaxData \in Nat
  /\ ReadSizes \subseteq Nat \ {0}

\* set_content_methods: encryption, when there is any, next to the output
Chains ==
  UNION {{c \in [1..n -> Methods] : \A i \in 2..n : c[i] # "AES"} : n \in 1..MaxChain}

VARIABLES
  chain,
  phase,     \* "push", "packed", "read"; "end" is Ok(0), "error" an Err
  written,   \* write_len, the bytes of the entry
  encs,      \* the encoders
  packed,    \* the output
  block,     \* its coders, in the header
  stack,     \* the decoders
  out        \* what the caller has read

vars == <<chain, phase, written, encs, packed, block, stack, out>>

Data(n) == [i \in 1..n |-> DataByte(i)]

Init ==
  /\ chain \in Chains
  /\ phase = "push"
  /\ written = 0
  /\ encs = NewChain(chain)
  /\ packed = <<>> /\ block = write_block(chain, <<>>) /\ stack = <<>> /\ out = <<>>

\* w.write_all(&buf[..n])
PushBytes(n) ==
  /\ phase = "push"
  /\ written + n <= MaxData
  /\ LET r == RunChain(chain, encs, <<Write(From(Data(written + n), written))>>)
     IN  encs' = r.encs /\ packed' = packed \o r.units
  /\ written' = written + n
  /\ UNCHANGED <<chain, phase, block, stack, out>>

\* w.flush(), then w.write(&[]); the block is added to unpack_info
FinishPush ==
  /\ phase = "push"
  /\ LET r == RunChain(chain, encs, <<Flush, Finish>>)
     IN  /\ encs' = r.encs
         /\ packed' = packed \o r.units
         /\ block' = write_block(chain, collect_sizes(r.encs, written))
  /\ phase' = "packed"
  /\ UNCHANGED <<chain, written, stack, out>>

OpenBlock ==
  /\ phase = "packed"
  /\ LET r == build_decode_stack(block, packed)
     IN  stack' = r.stack /\ phase' = IF r.ok THEN "read" ELSE "error"
  /\ UNCHANGED <<chain, written, encs, packed, block, out>>

\* The checksum is compared when as much was read as the header says comes out of the
\* block.
Answered(r) ==
  LET all == out \o r.got
      ok == r.ok /\ (Len(all) >= get_unpack_size(block) => all = Data(written))
  IN  /\ stack' = r.stack
      /\ out' = IF ok THEN all ELSE out
      /\ phase' = CASE ~ok -> "error" [] ok /\ r.got = <<>> -> "end" [] OTHER -> "read"

\* The caller reads the entry through a BoundedReader of its size.
ReadEntry(n) ==
  LET left == written - Len(out)
  IN  /\ phase = "read"
      /\ IF left = 0 THEN phase' = "end" /\ UNCHANGED <<stack, out>>
         ELSE Answered(Read(stack, AtMost(n, left)))
      /\ UNCHANGED <<chain, written, encs, packed, block>>

Next ==
  \/ \E n \in ReadSizes : PushBytes(n)
  \/ FinishPush
  \/ OpenBlock
  \/ \E n \in ReadSizes : ReadEntry(n)

Spec == Init /\ [][Next]_vars

-----------------------------------------------------------------------------

\* how many units an encoder of method m fills up before it passes them on
Full(m) ==
  CASE m = "COPY" -> 1
    [] m \in {"SWAP2", "SWAP4"} -> Unit(m)
    [] m \in {"LZ4", "BROTLI"} -> FrameSize
    [] m = "AES" -> AesBlock

\* Types; and no encoder keeps a full unit, frame or block from one call to the
\* next (assert!(self.buffer.len() < 16) in the AES encoder, the indices of pending
\* in Swap4Writer).
TypeOK ==
  /\ chain \in Chains
  /\ phase \in {"push", "packed", "read", "end", "error"}
  /\ written \in 0..MaxData
  /\ DOMAIN encs = DOMAIN chain
  /\ \A i \in DOMAIN encs :
       Len(encs[i].held) < Full(chain[i]) /\ encs[i].finished \in BOOLEAN
  /\ Len(out) <= written

\* How the source cuts the data into reads, and so the push into writes, does not
\* show in the archive: what was carried over in each encoder from one write to
\* the next makes the packed stream that of one write, and the size of each coder
\* (CountingWriter) is that of the stream above it.
CutsDoNotShow ==
  phase # "push" =>
    /\ packed = PackedAtOnce(chain, Data(written))
    /\ \A i \in DOMAIN chain :
         block.unpack_sizes[i] =
           IF i = Len(chain) THEN written
           ELSE Len(PackedAtOnce(From(chain, i), Data(written)))

Has(m) == \E i \in DOMAIN chain : chain[i] = m
Over(m, n) == \E i, j \in DOMAIN chain : i > j /\ chain[i] = m /\ chain[j] = n

\* The chains that do not give back what was pushed: Swap4 mixes up its pending
\* bytes; brotli does not finish the encoder below it; the last byte of Swap2 comes
\* behind the frame that brotli's flush wrote, which may be empty, and is read as a
\* pair with the padding of a decrypted block; lz4 makes nothing of nothing, and does
\* not decode that.
Excepted ==
  \/ Has("SWAP4")
  \/ Over("BROTLI", "AES") \/ Over("BROTLI", "SWAP2")
  \/ Over("SWAP2", "BROTLI") \/ Over("SWAP2", "AES")
  \/ Has("LZ4") /\ written = 0

\* Whatever sizes the caller reads with, it gets the bytes pushed, in order, then
\* the end, and no error: each decoder carries over what its reader did not take.
DecodesWhatWasPushed ==
  ~Excepted =>
    /\ phase # "error"
    /\ IsPrefix(out, Data(written))
    /\ phase = "end" => out = Data(written)

\* A chain that only has the Swap4 filter gives back what was pushed.
Swap4Decodes ==
  chain = <<"SWAP4">> =>
    /\ IsPrefix(out, Data(written))
    /\ phase = "end" => out = Data(written)
=============================================================================
