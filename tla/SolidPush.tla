------------------------------ MODULE SolidPush ------------------------------
(***************************************************************************)
(* What pushing N entries as one solid block promises, whatever feeds it:  *)
(* the data of the entries one after the other in one block, each entry's  *)
(* size the number of its bytes, and the entries in the archive only when  *)
(* all of them were read.                                                  *)
(*                                                                         *)
(* A byte of the block is the index, from 0, of the entry it belongs to.   *)
(***************************************************************************)
EXTENDS Naturals, Sequences, FiniteSets

CONSTANT N    \* number of entries

VARIABLES
  block,      \* the bytes handed to the encoder
  sizes,      \* sizes of the entries that are complete
  outcome     \* "open", "pushed" or "failed"

svars == <<block, sizes, outcome>>

BytesOf(i) == Cardinality({k \in DOMAIN block : block[k] = i})

Init == block = <<>> /\ sizes = <<>> /\ outcome = "open"

\* some bytes of the first entry that is not complete
Extend ==
  /\ outcome = "open" /\ Len(sizes) < N
  /\ Len(block') > Len(block)
  /\ SubSeq(block', 1, Len(block)) = block
  /\ \A k \in (Len(block) + 1)..Len(block') : block'[k] = Len(sizes)
  /\ UNCHANGED <<sizes, outcome>>

Complete ==
  /\ outcome = "open" /\ Len(sizes) < N
  /\ sizes' = Append(sizes, BytesOf(Len(sizes)))
  /\ UNCHANGED <<block, outcome>>

Commit ==
  /\ outcome = "open" /\ Len(sizes) = N
  /\ outcome' = "pushed"
  /\ UNCHANGED <<block, sizes>>

Fail ==
  /\ outcome = "open"
  /\ outcome' = "failed"
  /\ UNCHANGED <<block, sizes>>

Next == Extend \/ Complete \/ Commit \/ Fail

Spec == Init /\ [][Next]_svars
=============================================================================
