------------------------------ MODULE ByteStream ------------------------------
(***************************************************************************)
(* What a Read source of SourceLen bytes promises to its caller: the bytes *)
(* in order, each once, then the end of the stream; or, when the source    *)
(* fails, an error after some of them.                                     *)
(*                                                                         *)
(* A byte is its position in the source, so a stream delivered right is    *)
(* <<1, 2, 3, ...>>.                                                       *)
(***************************************************************************)
EXTENDS Naturals, Sequences

CONSTANT SourceLen

VARIABLES
  out,       \* the bytes delivered so far
  outcome    \* "open", "eof" or "error"

Prefix(n) == [i \in 1..n |-> i]

Init == out = <<>> /\ outcome = "open"

Deliver ==
  /\ outcome = "open"
  /\ \E n \in 0..SourceLen : n > Len(out) /\ out' = Prefix(n)
  /\ UNCHANGED outcome

End ==
  /\ outcome = "open"
  /\ out = Prefix(SourceLen)
  /\ outcome' = "eof"
  /\ UNCHANGED out

Fail ==
  /\ outcome = "open"
  /\ outcome' = "error"
  /\ UNCHANGED out

Next == Deliver \/ End \/ Fail

Spec == Init /\ [][Next]_<<out, outcome>>
=============================================================================
