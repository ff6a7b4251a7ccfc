--------------------------- MODULE BackgroundReader ---------------------------
(***************************************************************************)
(* BackgroundReader of src/writer/parallel_reader.rs: a thread fills       *)
(* buffers from a source and sends them over an unbounded channel; the     *)
(* Read side takes them from the channel and copies them out.              *)
(*                                                                         *)
(* A byte is its position in the source, counted from 1; a buffer is the   *)
(* interval from+1..to of positions it holds.                              *)
(***************************************************************************)
EXTENDS Naturals, Sequences

CONSTANTS
  SourceLen,    \* bytes in the source
  BufferSize,   \* buffer_size
  MaxRead,      \* the longest buf of one read
  SourceFails   \* whether source.read may return an error

ASSUME ReaderAssumption ==
  /\ SourceLen \in Nat
  /\ BufferSize \in Nat \ {0}
  /\ MaxRead \in Nat \ {0}
  /\ SourceFails \in BOOLEAN

VARIABLES
  thread,       \* "fill", "full" (about to send) or "returned"
  from, total,  \* bytes read before this buffer, and into it
  channel,      \* messages sent and not received
  receiver,     \* whether the BackgroundReader is alive
  current,      \* current_buffer: <<>> or <<interval>>
  position,
  out,          \* history: the bytes read returned
  outcome       \* history: "open", "eof" (a read returned Ok(0) at the end),
                \* "error", "swallowed" (an empty read took the end), "broken"

producer == <<thread, from, total>>
consumer == <<current, position, out, outcome>>
vars == <<thread, from, total, channel, receiver, current, position, out, outcome>>

Buffer(a, b) == [kind |-> "data", from |-> a, to |-> b]
EndOfStream(a) == [kind |-> "eof", from |-> a, to |-> a]
Failure(a) == [kind |-> "err", from |-> a, to |-> a]

Shorter(m, n) == IF m <= n THEN m ELSE n

\* the source positions a+1..a+n
Interval(a, n) == [i \in 1..n |-> a + i]

Init ==
  /\ thread = "fill"
  /\ from = 0 /\ total = 0
  /\ channel = <<>>
  /\ receiver = TRUE
  /\ current = <<>>
  /\ position = 0
  /\ out = <<>>
  /\ outcome = "open"

-----------------------------------------------------------------------------
(* The thread. *)

\* mutant of SourceRead: the slice passed to source.read is not cut at total
SourceReadUncut(n) ==
  /\ thread = "fill"
  /\ total < BufferSize
  /\ from + total + n <= SourceLen
  /\ total' = total + n
  /\ UNCHANGED <<thread, from, channel, receiver, consumer>>

\* source.read returns n bytes
SourceRead(n) ==
  /\ thread = "fill"
  /\ n \in 1..(BufferSize - total)
  /\ from + total + n <= SourceLen
  /\ total' = total + n
  /\ UNCHANGED <<thread, from, channel, receiver, consumer>>

\* sender.send: lost when the receiver was dropped
Send(message) == channel' = IF receiver THEN Append(channel, message) ELSE channel

\* mutant of SourceError: the error is not sent
SourceErrorUnsent ==
  /\ SourceFails
  /\ thread = "fill"
  /\ total < BufferSize
  /\ thread' = "returned"
  /\ UNCHANGED <<from, total, channel, receiver, consumer>>

\* source.read returns an error: what the buffer holds is dropped
SourceError ==
  /\ SourceFails
  /\ thread = "fill"
  /\ total < BufferSize
  /\ Send(Failure(from))
  /\ thread' = "returned"
  /\ UNCHANGED <<from, total, receiver, consumer>>

\* source.read returns Ok(0), or the buffer is full
Filled ==
  /\ thread = "fill"
  /\ total = BufferSize \/ from + total = SourceLen
  /\ thread' = "full"
  /\ UNCHANGED <<from, total, channel, receiver, consumer>>

\* mutants of SendBuffer: a buffer that is not full is taken for the end; an empty
\* buffer is skipped; a send waits for the receiver
SendShortAsEnd ==
  /\ thread = "full"
  /\ Send(IF total < BufferSize THEN EndOfStream(from) ELSE Buffer(from, from + total))
  /\ thread' = IF total < BufferSize \/ ~receiver THEN "returned" ELSE "fill"
  /\ from' = from + total
  /\ total' = 0
  /\ UNCHANGED <<receiver, consumer>>

SendNonEmpty ==
  /\ thread = "full"
  /\ IF total = 0 THEN UNCHANGED channel ELSE Send(Buffer(from, from + total))
  /\ thread' = IF receiver THEN "fill" ELSE "returned"
  /\ from' = from + total
  /\ total' = 0
  /\ UNCHANGED <<receiver, consumer>>

SendWaiting ==
  /\ thread = "full"
  /\ receiver
  /\ Send(IF total = 0 THEN EndOfStream(from) ELSE Buffer(from, from + total))
  /\ thread' = IF total = 0 THEN "returned" ELSE "fill"
  /\ from' = from + total
  /\ total' = 0
  /\ UNCHANGED <<receiver, consumer>>

\* an empty buffer signals the end; a send that fails ends the thread
SendBuffer ==
  /\ thread = "full"
  /\ Send(IF total = 0 THEN EndOfStream(from) ELSE Buffer(from, from + total))
  /\ thread' = IF total = 0 \/ ~receiver THEN "returned" ELSE "fill"
  /\ from' = from + total
  /\ total' = 0
  /\ UNCHANGED <<receiver, consumer>>

Thread == (\E n \in 1..BufferSize : SourceRead(n)) \/ SourceError \/ Filled \/ SendBuffer

-----------------------------------------------------------------------------
(* impl Read: read(buf) with a buf of n bytes. *)

Unread == IF current = <<>> THEN 0 ELSE current[1].to - current[1].from - position

\* bytes are left in the current buffer
ReadCurrent(n) ==
  /\ receiver
  /\ Unread > 0
  /\ LET k == Shorter(Unread, n)
     IN  /\ out' = out \o Interval(current[1].from + position, k)
         /\ position' = position + k
  /\ UNCHANGED <<producer, channel, receiver, current, outcome>>

\* mutant of ReceiveBuffer: the rest of the buffer is read from its start again
ReceiveBufferUnmoved(n) ==
  /\ receiver
  /\ Unread = 0
  /\ channel # <<>>
  /\ Head(channel).kind = "data"
  /\ LET buffer == Head(channel)
         k      == Shorter(buffer.to - buffer.from, n)
     IN  /\ out' = out \o Interval(buffer.from, k)
         /\ current' = IF k < buffer.to - buffer.from THEN <<buffer>> ELSE <<>>
         /\ position' = 0
  /\ channel' = Tail(channel)
  /\ UNCHANGED <<producer, receiver, outcome>>

\* receiver.recv returned a buffer
ReceiveBuffer(n) ==
  /\ receiver
  /\ Unread = 0
  /\ channel # <<>>
  /\ Head(channel).kind = "data"
  /\ LET buffer == Head(channel)
         k      == Shorter(buffer.to - buffer.from, n)
     IN  /\ out' = out \o Interval(buffer.from, k)
         /\ IF k < buffer.to - buffer.from
            THEN current' = <<buffer>> /\ position' = k
            ELSE current' = <<>> /\ position' = 0
  /\ channel' = Tail(channel)
  /\ UNCHANGED <<producer, receiver, outcome>>

\* receiver.recv returned the empty buffer or the error.  A caller that passed an
\* empty buf gets the 0 it always gets.
ReceiveEnd(n) ==
  /\ receiver
  /\ Unread = 0
  /\ channel # <<>>
  /\ Head(channel).kind # "data"
  /\ outcome' = IF Head(channel).kind = "err" THEN "error"
                ELSE IF n = 0 THEN "swallowed" ELSE "eof"
  /\ channel' = Tail(channel)
  /\ UNCHANGED <<producer, receiver, current, position, out>>

\* receiver.recv fails: the thread is gone and the channel is empty
Disconnected ==
  /\ receiver
  /\ Unread = 0
  /\ channel = <<>>
  /\ thread = "returned"
  /\ outcome' = IF outcome \in {"eof", "error"} THEN outcome ELSE "broken"
  /\ UNCHANGED <<producer, channel, receiver, current, position, out>>

read(n) == ReadCurrent(n) \/ ReceiveBuffer(n) \/ ReceiveEnd(n) \/ Disconnected

\* the BackgroundReader is dropped, with everything in the channel
drop ==
  /\ receiver
  /\ receiver' = FALSE
  /\ channel' = <<>>
  /\ current' = <<>>
  /\ position' = 0
  /\ UNCHANGED <<producer, out, outcome>>

Next == Thread \/ (\E n \in 0..MaxRead : read(n)) \/ drop

\* The thread runs and source.read returns; the caller keeps asking for bytes.
Fairness ==
  /\ WF_vars(Thread)
  /\ WF_vars(\E n \in 1..MaxRead : read(n))

Spec == Init /\ [][Next]_vars

FairSpec == Spec /\ Fairness

-----------------------------------------------------------------------------

Messages == [kind : {"data", "eof", "err"}, from : Nat, to : Nat]

TypeOK ==
  /\ thread \in {"fill", "full", "returned"}
  /\ from \in Nat /\ total \in 0..BufferSize
  /\ channel \in Seq(Messages)
  /\ receiver \in BOOLEAN
  /\ current \in Seq(Messages) /\ Len(current) <= 1
  /\ position \in Nat
  /\ out \in Seq(Nat)
  /\ outcome \in {"open", "eof", "error", "swallowed", "broken"}

\* Whatever the sizes of the buffers on either side, and wherever reads are cut,
\* the caller gets the bytes of the source in order, none of them twice and none
\* skipped.
InOrder == out = [i \in 1..Len(out) |-> i]

\* A caller told that the stream ended (Ok(0) for a buf that is not empty) has had
\* every byte of the source: the end message is behind all data in the channel.
EndIsTheEnd == outcome = "eof" => Len(out) = SourceLen

\* recv only fails once the thread's last message was received: no byte and no
\* error of the source is lost behind a BrokenPipe.
NothingLostBehindBrokenPipe ==
  outcome = "broken" => Len(out) = SourceLen

\* The caller is told in the end how the stream ended, or gives the reader up;
\* and a thread whose reader was dropped returns.
ToldTheEnd == <>(outcome \in {"eof", "error", "broken"} \/ ~receiver)
ThreadReturns == ~receiver ~> thread = "returned"

\* The reader is a byte stream to its caller (impl Read for BackgroundReader);
\* an end that the caller was not told of is still to come.
Stream == INSTANCE ByteStream
  WITH outcome <- IF outcome \in {"eof", "error"} THEN outcome ELSE "open"

ReadsByteStream == Stream!Spec
=============================================================================
