--------------------------- MODULE SegmentedWriter ---------------------------
(***************************************************************************)
(* SegmentedWriter of src/writer/segmented_writer.rs: a Write + Seek       *)
(* output cut into volume files of at most VolumeSize bytes.               *)
(*                                                                         *)
(* disk is the state of the file system: the volumes that exist and their  *)
(* bytes.  The offset of the open file is always current_volume_bytes.     *)
(***************************************************************************)
EXTENDS Naturals, Sequences

CONSTANTS
  VolumeSize,   \* config.volume_size
  Bytes, Zero,  \* byte values, and the byte of a gap
  MaxBuffer,    \* the longest buffer of one write
  MaxBytes,     \* bound on total_bytes
  MaxVolumes,   \* bound on the switches to a next volume
  Positions,    \* the positions callers seek to
  CreateFails   \* whether creating a volume file may fail

ASSUME SegmentedAssumption ==
  /\ VolumeSize \in Nat \ {0}
  /\ MaxBuffer \in Nat /\ MaxBytes \in Nat /\ MaxVolumes \in Nat
  /\ Positions \subseteq Nat
  /\ CreateFails \in BOOLEAN

VARIABLES
  disk,                 \* volume number -> bytes of its file
  current_volume,
  current_file,         \* the volume whose file is open
  current_volume_bytes,
  total_bytes,
  volume_boundaries

vars == <<disk, current_volume, current_file, current_volume_bytes, total_bytes,
          volume_boundaries>>

Byte == Bytes \cup {Zero}

Longest(m, n) == IF m >= n THEN m ELSE n
Shortest(m, n) == IF m <= n THEN m ELSE n

\* a file after buf was written at offset at: a gap below at reads as zeros
WriteAt(file, at, buf) ==
  IF buf = <<>> THEN file
  ELSE [i \in 1..Longest(Len(file), at + Len(buf)) |->
          IF i \in (at + 1)..(at + Len(buf)) THEN buf[i - at]
          ELSE IF i \in 1..Len(file) THEN file[i] ELSE Zero]

\* the disk with volume v holding file, created if it did not exist
WithVolume(v, file) == [u \in DOMAIN disk \cup {v} |-> IF u = v THEN file ELSE disk[u]]

\* SegmentedWriter::new creates the first volume
Init ==
  /\ disk = [v \in {1} |-> <<>>]
  /\ current_volume = 1
  /\ current_file = 1
  /\ current_volume_bytes = 0
  /\ total_bytes = 0
  /\ volume_boundaries = <<0>>

-----------------------------------------------------------------------------
(* Write *)

\* saturating_sub
Remaining ==
  IF current_volume_bytes >= VolumeSize THEN 0 ELSE VolumeSize - current_volume_bytes

\* mutant of Fits: the buffer is not cut at the end of the volume
FitsUncut(buf, room) == Len(buf) <= MaxBytes - total_bytes

\* the buffers a file of the current volume takes in one write
Fits(buf, room) == Len(buf) <= Shortest(room, MaxBytes - total_bytes)

\* room is left in the current volume: buf is the part of the caller's buffer
\* that the file accepts
WriteHere(buf) ==
  /\ Remaining > 0
  /\ Fits(buf, Remaining)
  /\ disk' = [disk EXCEPT ![current_file] = WriteAt(@, current_volume_bytes, buf)]
  /\ current_volume_bytes' = current_volume_bytes + Len(buf)
  /\ total_bytes' = total_bytes + Len(buf)
  /\ UNCHANGED <<current_volume, current_file, volume_boundaries>>

\* mutants of WriteNext: the offset in the new volume is not reset; the boundary is
\* taken after the write; the file of the current volume is created once more
WriteNextUnreset(buf) ==
  /\ Remaining = 0
  /\ Len(volume_boundaries) < MaxVolumes
  /\ Fits(buf, VolumeSize)
  /\ current_volume' = current_volume + 1
  /\ current_file' = current_volume + 1
  /\ volume_boundaries' = Append(volume_boundaries, total_bytes)
  /\ disk' = WithVolume(current_volume + 1, WriteAt(<<>>, 1, buf))
  /\ current_volume_bytes' = 1 + Len(buf)
  /\ total_bytes' = total_bytes + Len(buf)

WriteNextLateBoundary(buf) ==
  /\ Remaining = 0
  /\ Len(volume_boundaries) < MaxVolumes
  /\ Fits(buf, VolumeSize)
  /\ current_volume' = current_volume + 1
  /\ current_file' = current_volume + 1
  /\ volume_boundaries' = Append(volume_boundaries, total_bytes + Len(buf))
  /\ disk' = WithVolume(current_volume + 1, WriteAt(<<>>, 0, buf))
  /\ current_volume_bytes' = Len(buf)
  /\ total_bytes' = total_bytes + Len(buf)

WriteNextSameFile(buf) ==
  /\ Remaining = 0
  /\ Len(volume_boundaries) < MaxVolumes
  /\ Fits(buf, VolumeSize)
  /\ current_volume' = current_volume + 1
  /\ volume_boundaries' = Append(volume_boundaries, total_bytes)
  /\ disk' = WithVolume(current_file, WriteAt(<<>>, 0, buf))
  /\ current_volume_bytes' = Len(buf)
  /\ total_bytes' = total_bytes + Len(buf)
  /\ UNCHANGED current_file

\* mutant of WriteNext: its bytes are not added to total_bytes
WriteNextUncounted(buf) ==
  /\ Remaining = 0
  /\ Len(volume_boundaries) < MaxVolumes
  /\ Fits(buf, VolumeSize)
  /\ current_volume' = current_volume + 1
  /\ current_file' = current_volume + 1
  /\ volume_boundaries' = Append(volume_boundaries, total_bytes)
  /\ disk' = WithVolume(current_volume + 1, WriteAt(<<>>, 0, buf))
  /\ current_volume_bytes' = Len(buf)
  /\ UNCHANGED total_bytes

\* switch_to_next_volume, then the write: File::create empties a volume that
\* exists already
WriteNext(buf) ==
  /\ Remaining = 0
  /\ Len(volume_boundaries) < MaxVolumes
  /\ Fits(buf, VolumeSize)
  /\ current_volume' = current_volume + 1
  /\ current_file' = current_volume + 1
  /\ volume_boundaries' = Append(volume_boundaries, total_bytes)
  /\ disk' = WithVolume(current_volume + 1, WriteAt(<<>>, 0, buf))
  /\ current_volume_bytes' = Len(buf)
  /\ total_bytes' = total_bytes + Len(buf)

\* mutants of SwitchFails: the open file is given up before the next one exists;
\* the boundary is recorded only once the file was created
SwitchFailsWithoutFile ==
  /\ CreateFails
  /\ Remaining = 0
  /\ Len(volume_boundaries) < MaxVolumes
  /\ current_volume' = current_volume + 1
  /\ current_file' = current_volume + 1
  /\ volume_boundaries' = Append(volume_boundaries, total_bytes)
  /\ UNCHANGED <<disk, current_volume_bytes, total_bytes>>

SwitchFailsUnrecorded ==
  /\ CreateFails
  /\ Remaining = 0
  /\ Len(volume_boundaries) < MaxVolumes
  /\ current_volume' = current_volume + 1
  /\ UNCHANGED <<disk, current_file, current_volume_bytes, total_bytes, volume_boundaries>>

\* switch_to_next_volume fails in File::create, after the volume was counted
SwitchFails ==
  /\ CreateFails
  /\ Remaining = 0
  /\ Len(volume_boundaries) < MaxVolumes
  /\ current_volume' = current_volume + 1
  /\ volume_boundaries' = Append(volume_boundaries, total_bytes)
  /\ UNCHANGED <<disk, current_file, current_volume_bytes, total_bytes>>

Buffers == UNION {[1..n -> Bytes] : n \in 0..MaxBuffer}

write ==
  \/ \E buf \in Buffers : WriteHere(buf)
  \/ \E buf \in Buffers : WriteNext(buf)
  \/ SwitchFails

-----------------------------------------------------------------------------
(* Seek *)

\* the last volume that starts at or before p, by the recorded boundaries
TargetVolume(p) ==
  CHOOSE v \in DOMAIN volume_boundaries :
    /\ volume_boundaries[v] <= p
    /\ \A w \in DOMAIN volume_boundaries : volume_boundaries[w] <= p => w <= v

\* seek(SeekFrom::Start(p)); opening a volume that does not exist is an error
\* that changes nothing
SeekStart(p) ==
  LET v == TargetVolume(p)
      o == p - volume_boundaries[v]
  IN  /\ v = current_volume \/ v \in DOMAIN disk
      /\ current_file' = IF v = current_volume THEN current_file ELSE v
      /\ current_volume' = v
      /\ current_volume_bytes' = o
      /\ UNCHANGED <<disk, total_bytes, volume_boundaries>>

stream_position == volume_boundaries[current_volume] + current_volume_bytes

\* saturating_add and saturating_sub of an offset
Moved(p, n, back) == IF back THEN IF n >= p THEN 0 ELSE p - n ELSE p + n

\* seek(SeekFrom::Current(n)) and seek(SeekFrom::End(n)), backwards or not
SeekCurrent(n, back) == SeekStart(Moved(stream_position, n, back))
SeekEnd(n, back) == SeekStart(Moved(total_bytes, n, back))

seek ==
  \/ \E p \in Positions : SeekStart(p)
  \/ \E n \in Positions, back \in BOOLEAN :
       Moved(stream_position, n, back) <= MaxBytes /\ SeekCurrent(n, back)
  \/ \E n \in Positions, back \in BOOLEAN :
       Moved(total_bytes, n, back) <= MaxBytes /\ SeekEnd(n, back)

-----------------------------------------------------------------------------

Next == write \/ seek

Spec == Init /\ [][Next]_vars

-----------------------------------------------------------------------------

TypeOK ==
  /\ DOMAIN disk \subseteq Nat
  /\ \A v \in DOMAIN disk : disk[v] \in Seq(Byte)
  /\ current_volume \in Nat \ {0}
  /\ current_file \in DOMAIN disk
  /\ current_volume_bytes \in Nat
  /\ total_bytes \in Nat
  /\ volume_boundaries \in Seq(Nat)

\* No volume file ever grows beyond the configured size ("Maximum size of each
\* volume in bytes"), wherever callers seek to and write.
VolumeLimit == \A v \in DOMAIN disk : Len(disk[v]) <= VolumeSize

\* seek and stream_position index volume_boundaries with current_volume, which
\* seeking back and writing past the end of a volume leaves below its length:
\* the boundary is there, and the search in seek, which takes the last boundary
\* at or before the position, finds them in ascending order.
BoundaryRecorded ==
  /\ current_volume <= Len(volume_boundaries)
  /\ volume_boundaries[1] = 0
  /\ \A v, w \in DOMAIN volume_boundaries :
       v <= w => volume_boundaries[v] <= volume_boundaries[w]
  /\ \A v \in DOMAIN volume_boundaries : volume_boundaries[v] <= total_bytes
=============================================================================
