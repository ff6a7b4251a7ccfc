-------------------------- MODULE MultiVolumeArchive --------------------------
(***************************************************************************)
(* ArchiveWriter over a SegmentedWriter (src/writer.rs,                    *)
(* create_multi_volume and finish_multi_volume): the packed data, then the *)
(* next header, then the start header in the space left at the front.      *)
(*                                                                         *)
(* Bytes are told apart by the part of the archive they belong to, and     *)
(* neighbours in the packed data from each other.                          *)
(***************************************************************************)
EXTENDS SegmentedAppend

CONSTANTS
  HeaderSize,   \* SIGNATURE_HEADER_SIZE
  NextSize      \* bytes of the next header

DataBytes == {"even", "odd"}
NextByte == "next"
StartByte == "start"

ASSUME MultiVolumeAssumption ==
  /\ HeaderSize \in Nat \ {0}
  /\ NextSize \in Nat \ {0}
  /\ {0, HeaderSize} \subseteq Positions
  /\ DataBytes \cup {NextByte, StartByte} \subseteq Bytes

\* The volumes are longer than the start header.  Nothing in the code asks for it:
\* in shorter volumes the position 0 of the start header is a boundary of two of
\* them, and the header replaces packed data.
HeaderFits == HeaderSize < VolumeSize

VARIABLES
  stage,        \* "new", "pack", "header", "patch", "finish", "done"
  left,         \* bytes of the header being written that are still to be written
  header_pos,   \* stream_position before the next header
  packed,       \* history: bytes of packed data
  metadata      \* what finish_multi_volume returns, <<>> before

mvars == <<stage, left, header_pos, packed, metadata>>

Repeat(byte, n) == [i \in 1..n |-> byte]

\* the i-th byte of packed data, and n bytes behind the first at of them
Parity(i) == IF i % 2 = 0 THEN "even" ELSE "odd"
Data(at, n) == [i \in 1..n |-> Parity(at + i)]

MVInit ==
  /\ Init
  /\ stage = "new"
  /\ left = 0 /\ header_pos = 0 /\ packed = 0
  /\ metadata = <<>>

\* ArchiveWriter::new leaves room for the start header
create_multi_volume ==
  /\ stage = "new"
  /\ SeekStart(HeaderSize)
  /\ stage' = "pack"
  /\ UNCHANGED <<left, header_pos, packed, metadata>>

\* one write of a buffer, of which the volume takes buf
WriteSome(buf) == WriteHere(buf) \/ WriteNext(buf)

\* encoders write packed data through the CompressWrapWriter
push_archive_entry ==
  /\ stage = "pack"
  /\ \E n \in 1..MaxBuffer : WriteSome(Data(packed, n)) /\ packed' = packed + n
  /\ UNCHANGED <<stage, left, header_pos, metadata>>

\* mutant of finish_multi_volume: the bytes written stand for the position
finish_at_total_bytes ==
  /\ stage = "pack"
  /\ header_pos' = total_bytes
  /\ left' = NextSize
  /\ stage' = "header"
  /\ UNCHANGED <<vars, packed, metadata>>

finish_multi_volume ==
  /\ stage = "pack"
  /\ header_pos' = stream_position
  /\ left' = NextSize
  /\ stage' = "header"
  /\ UNCHANGED <<vars, packed, metadata>>

\* write_all(&header)
WriteNextHeader ==
  /\ stage = "header"
  /\ \E n \in 1..left : WriteSome(Repeat(NextByte, n)) /\ left' = left - n
  /\ UNCHANGED <<stage, header_pos, packed, metadata>>

\* mutant of SeekToFront: the start header is written where the next header ends
StayAtEnd ==
  /\ stage = "header"
  /\ left = 0
  /\ stage' = "patch"
  /\ left' = HeaderSize
  /\ UNCHANGED <<vars, header_pos, packed, metadata>>

\* seek(SeekFrom::Start(0))
SeekToFront ==
  /\ stage = "header"
  /\ left = 0
  /\ SeekStart(0)
  /\ stage' = "patch"
  /\ left' = HeaderSize
  /\ UNCHANGED <<header_pos, packed, metadata>>

\* write_all(&hh)
PatchStartHeader ==
  /\ stage = "patch"
  /\ \E n \in 1..left : WriteSome(Repeat(StartByte, n)) /\ left' = left - n
  /\ UNCHANGED <<stage, header_pos, packed, metadata>>

\* SegmentedWriter::finish
finish ==
  /\ stage = "patch"
  /\ left = 0
  /\ stage' = "done"
  /\ metadata' = <<[volume_count |-> current_volume,
                    volume_boundaries |-> volume_boundaries,
                    total_bytes |-> total_bytes]>>
  /\ UNCHANGED <<vars, left, header_pos, packed>>

MVNext ==
  \/ create_multi_volume \/ push_archive_entry \/ finish_multi_volume
  \/ WriteNextHeader \/ SeekToFront \/ PatchStartHeader \/ finish

MVSpec == MVInit /\ [][MVNext]_<<vars, mvars>>

-----------------------------------------------------------------------------

\* where a reader of the joined volumes finds the next header: the start header
\* stores header_pos - SIGNATURE_HEADER_SIZE, the reader adds it again
NextHeaderAt(p) == SubSeq(Joined, p + 1, p + NextSize) = Repeat(NextByte, NextSize)

\* When volumes are longer than the start header, going back to fill it in
\* disturbs nothing: the volumes joined are the start header, the packed data
\* and the next header, wherever the volumes were cut.
JoinedIsArchive ==
  stage = "done" =>
    Joined = Repeat(StartByte, HeaderSize) \o Data(0, packed)
               \o Repeat(NextByte, NextSize)

\* The metadata counts every byte of the archive once, the space reserved for the
\* start header when it is filled in, and has one boundary for each volume on
\* disk; volume_count does not: it is the volume that was open last, the first.
MetadataCounts ==
  stage = "done" =>
    /\ metadata[1].total_bytes = HeaderSize + packed + NextSize
    /\ Len(metadata[1].volume_boundaries) = Cardinality(DOMAIN disk)

\* While the archive grows, every volume but the last is full, each has its
\* boundary, and the boundaries behind the first are the positions at which the
\* volumes start, less the space reserved for the start header.
BoundariesAreVolumeStarts ==
  stage \in {"pack", "header"} =>
    /\ 1..current_volume = DOMAIN disk
    /\ Len(volume_boundaries) = current_volume
    /\ \A v \in 2..current_volume : volume_boundaries[v] + HeaderSize = BytesBefore(v)
    /\ \A v \in 1..(current_volume - 1) : Len(disk[v]) = VolumeSize

\* An archive whose packed data ends in the first volume is found through its
\* start header.
HeaderFoundInFirstVolume ==
  stage = "done" /\ HeaderSize + packed <= VolumeSize => NextHeaderAt(header_pos)

\* finish_multi_volume finishes an archive its reader can open: the start
\* header points to the next header, in however many volumes.
NextHeaderFound == stage = "done" => NextHeaderAt(header_pos)
=============================================================================
