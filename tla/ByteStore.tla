------------------------------ MODULE ByteStore ------------------------------
(***************************************************************************)
(* What a Write + Seek output promises to ArchiveWriter: one array of      *)
(* bytes with a position.  A write replaces bytes from the position on,    *)
(* extends the array when it passes its end, and advances the position;    *)
(* the bytes skipped by a seek past the end are zero.                      *)
(***************************************************************************)
EXTENDS Naturals, Sequences

CONSTANTS Bytes,      \* the values of the bytes written
          Zero,       \* the byte of a gap
          MaxBuffer,  \* the longest piece of one write
          Positions   \* the positions callers seek to

VARIABLES bytes, pos

Longest(m, n) == IF m >= n THEN m ELSE n

\* the array s after buf was written at offset at
Overwrite(s, at, buf) ==
  IF buf = <<>> THEN s
  ELSE [i \in 1..Longest(Len(s), at + Len(buf)) |->
          IF i \in (at + 1)..(at + Len(buf)) THEN buf[i - at]
          ELSE IF i \in 1..Len(s) THEN s[i] ELSE Zero]

Init == bytes = <<>> /\ pos = 0

\* up to MaxBuffer bytes, those the array then holds there
Write ==
  /\ pos < pos' /\ pos' <= pos + MaxBuffer /\ pos' <= Len(bytes')
  /\ LET buf == SubSeq(bytes', pos + 1, pos')
     IN  buf \in Seq(Bytes) /\ bytes' = Overwrite(bytes, pos, buf)

SeekTo(p) == pos' = p /\ UNCHANGED bytes

\* A write hands over what the output accepts of a buffer.
Next ==
  \/ Write
  \/ \E p \in Positions : SeekTo(p)

Spec == Init /\ [][Next]_<<bytes, pos>>
=============================================================================
