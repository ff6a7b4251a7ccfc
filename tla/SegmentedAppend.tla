--------------------------- MODULE SegmentedAppend ---------------------------
(***************************************************************************)
(* The volumes of a SegmentedWriter seen as one array of bytes, as long as *)
(* its callers only write on, or go back to bytes of the first volume.     *)
(***************************************************************************)
EXTENDS SegmentedWriter, SequencesExt

\* the volumes on disk, from the first on, one after the other
Joined == FlattenSeq(disk)

\* the bytes in the volumes before v
BytesBefore(v) ==
  SumFunctionOnSet([u \in DOMAIN disk |-> Len(disk[u])], {u \in DOMAIN disk : u < v})

\* the position in the joined volumes of the next byte written
PhysicalPosition == BytesBefore(current_file) + current_volume_bytes

\* one write hands over no more than a volume holds
Store == INSTANCE ByteStore WITH
  bytes <- Joined, pos <- PhysicalPosition, MaxBuffer <- VolumeSize

\* The writer is one array of bytes to its caller (impl Write, impl Seek).
WritesByteStore == Store!Spec
=============================================================================
