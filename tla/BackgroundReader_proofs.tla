------------------------ MODULE BackgroundReader_proofs ------------------------
(***************************************************************************)
(* BackgroundReader delivers its source in order and to the end, for every *)
(* length of the source and every size of the buffers on both sides.       *)
(*                                                                         *)
(* The argument is that the intervals form one chain: what was delivered,  *)
(* what is left of the current buffer, the messages in the channel, and    *)
(* the buffer the thread fills follow on each other without a gap.         *)
(***************************************************************************)
EXTENDS BackgroundReader, SequenceTheorems, TLAPS

\* where the reader stands when it has used up the current buffer
ReadUpTo == Len(out) + Unread

\* the part of current_buffer behind position was delivered last
CurrentChained ==
  current # <<>> =>
    /\ current[1].from + position = Len(out)
    /\ current[1].from + position <= current[1].to

\* messages that follow on each other from position at to position end
Chained(messages, at, end) ==
  /\ messages = <<>> => at = end
  /\ messages # <<>> => at = messages[1].from /\ messages[Len(messages)].to = end
  /\ \A i \in 1..(Len(messages) - 1) : messages[i].to = messages[i + 1].from
  /\ \A i \in 1..Len(messages) :
       /\ messages[i].from <= messages[i].to
       /\ messages[i].to <= end

\* the messages follow on the current buffer, and the buffer being filled on them
ChannelChained == Chained(channel, ReadUpTo, from)

\* only the thread's last message is an end, and the end of the stream is sent
\* where the source ends
EndIsLast ==
  \A i \in 1..Len(channel) :
    channel[i].kind # "data" =>
      /\ i = Len(channel)
      /\ thread = "returned"
      /\ channel[i].from = channel[i].to
      /\ channel[i].kind = "eof" => channel[i].to = SourceLen

\* a thread that returned left its last message behind
ReturnIsTold ==
  thread = "returned" =>
    outcome # "open" \/ (channel # <<>> /\ channel[Len(channel)].kind # "data")

\* nothing follows what the caller was told
ToldIsFinal ==
  outcome # "open" => thread = "returned" /\ channel = <<>> /\ Unread = 0

\* the thread stops filling when the buffer is full or the source used up
FilledOrDone ==
  /\ from + total <= SourceLen
  /\ thread = "full" => total = BufferSize \/ from + total = SourceLen

IInv ==
  /\ TypeOK
  /\ InOrder
  /\ Len(out) <= SourceLen
  /\ FilledOrDone
  /\ outcome \in {"eof", "swallowed", "broken"} => Len(out) = SourceLen
  /\ ~receiver => channel = <<>> /\ current = <<>>
  /\ receiver => CurrentChained /\ ChannelChained /\ EndIsLast /\ ReturnIsTold /\ ToldIsFinal

-----------------------------------------------------------------------------

\* A sequence is the first positions in order when each of its elements is.
LEMMA ElementsInOrder ==
  ASSUME NEW s \in Seq(Nat)
  PROVE  s = [i \in 1..Len(s) |-> i] <=> \A i \in 1..Len(s) : s[i] = i
<1> DEFINE f == [i \in 1..Len(s) |-> i]
<1>1. ASSUME s = f PROVE \A i \in 1..Len(s) : s[i] = i
  <2>1. \A i \in 1..Len(s) : f[i] = i
    OBVIOUS
  <2> QED
    BY <1>1, <2>1, Zenon
<1>2. ASSUME \A i \in 1..Len(s) : s[i] = i PROVE s = f
  <2>1. DOMAIN s = 1..Len(s) /\ s = [i \in DOMAIN s |-> s[i]]
    OBVIOUS
  <2>2. s = [i \in 1..Len(s) |-> s[i]]
    BY <2>1
  <2> QED
    BY <1>2, <2>2
<1> QED
  BY <1>1, <1>2

\* Appending the next k positions to the first ones gives the first ones again
\* (what a read copies behind what earlier reads returned).
LEMMA ConcatInterval ==
  ASSUME NEW s \in Seq(Nat), \A i \in 1..Len(s) : s[i] = i, NEW k \in Nat
  PROVE  /\ s \o Interval(Len(s), k) \in Seq(Nat)
         /\ Len(s \o Interval(Len(s), k)) = Len(s) + k
         /\ \A i \in 1..(Len(s) + k) : (s \o Interval(Len(s), k))[i] = i
<1> DEFINE q == Interval(Len(s), k)
<1>1. q \in Seq(Nat) /\ Len(q) = k /\ \A i \in 1..k : q[i] = Len(s) + i
  BY DEF Interval
<1> HIDE DEF q
<1>2. /\ s \o q \in Seq(Nat)
      /\ Len(s \o q) = Len(s) + k
      /\ \A i \in 1..(Len(s) + k) : (s \o q)[i] = IF i <= Len(s) THEN s[i] ELSE q[i - Len(s)]
  BY <1>1, ConcatProperties
<1>3. ASSUME NEW i \in 1..(Len(s) + k) PROVE (s \o q)[i] = i
  <2>1. Len(s) \in Nat
    OBVIOUS
  <2>2. CASE i <= Len(s)
    BY <1>2, <2>1, <2>2
  <2>3. CASE ~(i <= Len(s))
    <3>1. i - Len(s) \in 1..k
      BY <2>1, <2>3
    <3>2. q[i - Len(s)] = Len(s) + (i - Len(s))
      BY <1>1, <3>1
    <3> QED
      BY <1>2, <2>1, <2>3, <3>2
  <2> QED
    BY <2>2, <2>3
<1>4. \A i \in 1..(Len(s) + k) : (s \o q)[i] = i
  BY <1>3
<1> QED
  BY <1>2, <1>4 DEF q

\* What is left of the current buffer is a number of bytes.
LEMMA UnreadNat ==
  ASSUME TypeOK, CurrentChained
  PROVE  /\ Unread \in Nat
         /\ current # <<>> => current[1] \in Messages
         /\ current # <<>> => current[1].to = Len(out) + Unread
<1>1. CASE current = <<>>
  BY <1>1 DEF Unread
<1>2. CASE current # <<>>
  <2>1. current \in Seq(Messages) /\ out \in Seq(Nat) /\ position \in Nat
    BY DEF TypeOK
  <2>2. 1 \in 1..Len(current)
    BY <1>2, <2>1, EmptySeq
  <2>3. current[1] \in Messages
    BY <2>1, <2>2, ElementOfSeq
  <2>4. current[1].from \in Nat /\ current[1].to \in Nat
    BY <2>3 DEF Messages
  <2>5. Len(out) \in Nat
    BY <2>1
  <2> QED
    BY <1>2, <2>1, <2>3, <2>4, <2>5, SMTT(30) DEF CurrentChained, Unread
<1> QED
  BY <1>1, <1>2

\* A message sent behind the last one extends the chain (sender.send).
LEMMA ChainedAppend ==
  ASSUME NEW ch \in Seq(Messages), NEW m \in Messages, NEW at \in Nat, NEW end \in Nat,
         Chained(ch, at, end), m.from = end, m.from <= m.to
  PROVE  Chained(Append(ch, m), at, m.to)
<1> DEFINE c == Append(ch, m)
<1>1. /\ c \in Seq(Messages) /\ c # <<>> /\ Len(c) = Len(ch) + 1
      /\ \A i \in 1..Len(ch) : c[i] = ch[i]
      /\ c[Len(ch) + 1] = m
  BY AppendProperties
<1>2. m.from \in Nat /\ m.to \in Nat /\ Len(ch) \in Nat
  BY DEF Messages
<1>3. ch = <<>> <=> Len(ch) = 0
  BY EmptySeq
<1>4. ASSUME NEW i \in 1..Len(ch) PROVE ch[i].from \in Nat /\ ch[i].to \in Nat
  <2>1. ch[i] \in Messages
    BY ElementOfSeq
  <2> QED
    BY <2>1 DEF Messages
<1> HIDE DEF c
<1>5. at = c[1].from /\ c[Len(c)].to = m.to
  BY <1>1, <1>2, <1>3 DEF Chained
<1>6. ASSUME NEW i \in 1..(Len(c) - 1) PROVE c[i].to = c[i + 1].from
  <2>1. CASE i < Len(ch)
    BY <1>1, <1>2, <2>1 DEF Chained
  <2>2. CASE i = Len(ch)
    BY <1>1, <1>2, <1>3, <2>2 DEF Chained
  <2> QED
    BY <1>1, <1>2, <2>1, <2>2
<1>7. ASSUME NEW i \in 1..Len(c) PROVE c[i].from <= c[i].to /\ c[i].to <= m.to
  <2>1. CASE i <= Len(ch)
    <3>1. c[i] = ch[i] /\ ch[i].from \in Nat /\ ch[i].to \in Nat
      BY <1>1, <1>2, <1>4, <2>1
    <3>2. ch[i].from <= ch[i].to /\ ch[i].to <= end
      BY <1>2, <2>1 DEF Chained
    <3> QED
      BY <1>2, <3>1, <3>2
  <2>2. CASE i = Len(ch) + 1
    BY <1>1, <1>2, <2>2
  <2> QED
    BY <1>1, <1>2, <2>1, <2>2
<1> QED
  BY <1>1, <1>5, <1>6, <1>7 DEF Chained, c

\* Taking the first message leaves a chain from where it ended (receiver.recv).
LEMMA ChainedTail ==
  ASSUME NEW ch \in Seq(Messages), ch # <<>>, NEW at \in Nat, NEW end \in Nat,
         Chained(ch, at, end)
  PROVE  Chained(Tail(ch), ch[1].to, end)
<1> DEFINE c == Tail(ch)
<1>1. /\ c \in Seq(Messages) /\ Len(c) = Len(ch) - 1
      /\ \A i \in 1..Len(c) : c[i] = ch[i + 1]
  BY HeadTailProperties
<1>2. Len(ch) \in Nat \ {0}
  BY EmptySeq
<1>3. c = <<>> <=> Len(c) = 0
  BY <1>1, EmptySeq
<1> HIDE DEF c
<1>4. ASSUME c = <<>> PROVE ch[1].to = end
  <2>1. Len(ch) = 1
    BY <1>1, <1>2, <1>3, <1>4
  <2> QED
    BY <2>1 DEF Chained
<1>5. c # <<>> => ch[1].to = c[1].from /\ c[Len(c)].to = end
  BY <1>1, <1>2, <1>3 DEF Chained
<1>6. \A i \in 1..(Len(c) - 1) : c[i].to = c[i + 1].from
  BY <1>1, <1>2 DEF Chained
<1>7. \A i \in 1..Len(c) : c[i].from <= c[i].to /\ c[i].to <= end
  BY <1>1, <1>2 DEF Chained
<1> QED
  BY <1>4, <1>5, <1>6, <1>7 DEF Chained, c

-----------------------------------------------------------------------------

\* It holds before the thread has read anything.
LEMMA InitIInv == Init => IInv
<1> SUFFICES ASSUME Init PROVE IInv
  OBVIOUS
<1> USE ReaderAssumption DEF Init
<1>1. TypeOK /\ Len(out) = 0 /\ Unread = 0 /\ channel = <<>>
  BY DEF TypeOK, Unread
<1>2. InOrder /\ Len(out) <= SourceLen /\ FilledOrDone
  BY <1>1, ElementsInOrder DEF InOrder, TypeOK, FilledOrDone
<1>3. CurrentChained /\ ReturnIsTold /\ ToldIsFinal /\ EndIsLast
  BY <1>1 DEF CurrentChained, ReturnIsTold, ToldIsFinal, EndIsLast
<1>4. ChannelChained
  BY <1>1 DEF ChannelChained, Chained, ReadUpTo
<1> QED
  BY <1>1, <1>2, <1>3, <1>4 DEF IInv

\* The thread reads into its buffer: only total changes.
LEMMA SourceReadKeeps ==
  ASSUME IInv, NEW n \in 1..BufferSize, SourceRead(n)
  PROVE  IInv'
<1> USE ReaderAssumption DEF SourceRead, consumer
<1>1. TypeOK'
  BY DEF IInv, TypeOK
<1>2. FilledOrDone'
  BY DEF IInv, TypeOK, FilledOrDone
<1>3. UNCHANGED <<InOrder, CurrentChained, ChannelChained, EndIsLast, ReturnIsTold, ToldIsFinal>>
  BY DEF InOrder, CurrentChained, ChannelChained, ReadUpTo, Unread, EndIsLast, ReturnIsTold,
         ToldIsFinal
<1> QED
  BY <1>1, <1>2, <1>3 DEF IInv

\* The thread's buffer is full, or the source is used up.
LEMMA FilledKeeps ==
  ASSUME IInv, Filled
  PROVE  IInv'
<1> USE ReaderAssumption DEF Filled, consumer
<1>1. TypeOK'
  BY DEF IInv, TypeOK
<1>2. FilledOrDone'
  BY DEF IInv, FilledOrDone
<1>3. UNCHANGED <<InOrder, CurrentChained, ChannelChained>>
  BY DEF InOrder, CurrentChained, ChannelChained, ReadUpTo, Unread
<1>4. ToldIsFinal /\ EndIsLast /\ receiver => EndIsLast' /\ ReturnIsTold' /\ ToldIsFinal'
  BY DEF EndIsLast, ReturnIsTold, ToldIsFinal
<1> QED
  BY <1>1, <1>2, <1>3, <1>4 DEF IInv

\* A message from where the buffer begins extends the channel; an end is the last
\* one, so the thread must return with it.
LEMMA SendKeeps ==
  ASSUME IInv, NEW m \in Messages, thread # "returned",
         m.from = from, m.from <= m.to,
         m.kind # "data" => m.to = m.from,
         m.kind = "eof" => m.to = SourceLen,
         Send(m), from' = m.to, from' \in Nat,
         m.kind # "data" <=> (thread' = "returned" /\ receiver),
         UNCHANGED <<receiver, consumer>>
  PROVE  receiver => /\ channel' \in Seq(Messages)
                     /\ ChannelChained'
                     /\ EndIsLast'
                     /\ ReturnIsTold'
                     /\ ToldIsFinal'
<1> SUFFICES ASSUME receiver
             PROVE  /\ channel' \in Seq(Messages)
                    /\ ChannelChained' /\ EndIsLast' /\ ReturnIsTold' /\ ToldIsFinal'
  OBVIOUS
<1>1. channel' = Append(channel, m) /\ channel \in Seq(Messages) /\ from \in Nat
  BY DEF Send, IInv, TypeOK
<1>2. /\ channel' \in Seq(Messages) /\ Len(channel') = Len(channel) + 1 /\ channel' # <<>>
      /\ \A i \in 1..Len(channel) : channel'[i] = channel[i]
      /\ channel'[Len(channel) + 1] = m
  BY <1>1, AppendProperties
<1>3. Len(channel) \in Nat
  BY <1>1
<1>4. ReadUpTo \in Nat /\ ReadUpTo' = ReadUpTo /\ Unread' = Unread
  <2>1. Unread \in Nat
    BY UnreadNat DEF IInv
  <2>2. Len(out) \in Nat
    BY DEF IInv, TypeOK
  <2> QED
    BY <2>1, <2>2 DEF ReadUpTo, Unread, consumer
<1>5. Chained(channel', ReadUpTo, m.to)
  <2>1. Chained(channel, ReadUpTo, from)
    BY DEF IInv, ChannelChained
  <2> QED
    BY <1>1, <1>4, <2>1, ChainedAppend
<1>6. ChannelChained'
  BY <1>4, <1>5 DEF ChannelChained
<1>7. \A i \in 1..Len(channel) : channel[i].kind = "data"
  BY DEF IInv, EndIsLast
<1>8. EndIsLast'
  <2> SUFFICES ASSUME NEW i \in 1..(Len(channel) + 1), channel'[i].kind # "data"
               PROVE  /\ i = Len(channel)' /\ thread' = "returned"
                      /\ channel'[i].from = channel'[i].to
                      /\ channel'[i].kind = "eof" => channel'[i].to = SourceLen
    BY <1>2 DEF EndIsLast
  <2>1. i = Len(channel) + 1
    BY <1>2, <1>3, <1>7
  <2> QED
    BY <1>2, <2>1
<1>9. ReturnIsTold'
  BY <1>2 DEF ReturnIsTold
<1>10. outcome = "open"
  BY DEF IInv, ToldIsFinal
<1>11. ToldIsFinal'
  BY <1>10 DEF ToldIsFinal, consumer
<1> QED
  BY <1>2, <1>6, <1>8, <1>9, <1>11

\* source.read fails: the bytes in the buffer are dropped, the error is sent.
LEMMA SourceErrorKeeps ==
  ASSUME IInv, SourceError
  PROVE  IInv'
<1> USE ReaderAssumption
<1>1. from \in Nat /\ Failure(from) \in Messages /\ UNCHANGED <<from, receiver, consumer>>
  BY DEF IInv, TypeOK, Failure, Messages, SourceError
<1>2. receiver => /\ channel' \in Seq(Messages)
                  /\ ChannelChained' /\ EndIsLast' /\ ReturnIsTold' /\ ToldIsFinal'
  BY <1>1, SendKeeps DEF SourceError, Failure
<1>3. ~receiver => channel' = channel
  BY DEF SourceError, Send
<1>4. TypeOK'
  BY <1>1, <1>2, <1>3 DEF IInv, TypeOK, SourceError, consumer
<1>5. FilledOrDone' /\ InOrder' /\ (receiver => CurrentChained')
  BY <1>1 DEF IInv, TypeOK, FilledOrDone, InOrder, CurrentChained, SourceError, consumer
<1> QED
  BY <1>1, <1>2, <1>3, <1>4, <1>5 DEF IInv, consumer

\* The thread sends its buffer, or the empty one that signals the end.
LEMMA SendBufferKeeps ==
  ASSUME IInv, SendBuffer
  PROVE  IInv'
<1> USE ReaderAssumption
<1> DEFINE m == IF total = 0 THEN EndOfStream(from) ELSE Buffer(from, from + total)
<1>1. /\ from \in Nat /\ total \in Nat /\ thread = "full"
      /\ from + total <= SourceLen
      /\ total = BufferSize \/ from + total = SourceLen
      /\ UNCHANGED <<receiver, consumer>>
  BY DEF IInv, TypeOK, FilledOrDone, SendBuffer
<1>2. /\ m \in Messages /\ m.from = from /\ m.to = from + total
      /\ m.kind # "data" <=> total = 0
      /\ m.kind = "eof" => m.to = SourceLen
  <2>1. CASE total = 0
    BY <1>1, <2>1 DEF EndOfStream, Messages
  <2>2. CASE total # 0
    BY <1>1, <2>2 DEF Buffer, Messages
  <2> QED
    BY <2>1, <2>2
<1>3. Send(m) /\ from' = m.to /\ from' \in Nat /\ total' = 0
  BY <1>1, <1>2 DEF SendBuffer
<1>4. receiver => (m.kind # "data" <=> thread' = "returned")
  BY <1>2 DEF SendBuffer
<1>5. ~receiver => channel' = channel
  BY DEF SendBuffer, Send
<1> HIDE DEF m
<1>6. receiver => /\ channel' \in Seq(Messages)
                  /\ ChannelChained' /\ EndIsLast' /\ ReturnIsTold' /\ ToldIsFinal'
  BY <1>1, <1>2, <1>3, <1>4, SendKeeps
<1>7. thread' \in {"fill", "returned"}
  BY DEF SendBuffer
<1>8. TypeOK'
  BY <1>1, <1>3, <1>5, <1>6, <1>7 DEF IInv, TypeOK, consumer
<1>9. FilledOrDone'
  BY <1>1, <1>2, <1>3, <1>7 DEF FilledOrDone
<1>10. InOrder' /\ (receiver => CurrentChained')
  BY <1>1 DEF IInv, InOrder, CurrentChained, consumer
<1> QED
  BY <1>1, <1>5, <1>6, <1>8, <1>9, <1>10 DEF IInv, consumer

\* The reader is never ahead of the thread.
LEMMA ChainEndsAtFrom ==
  ASSUME IInv, receiver
  PROVE  ReadUpTo <= from
<1>1. channel \in Seq(Messages) /\ from \in Nat
  BY DEF IInv, TypeOK
<1>2. Chained(channel, ReadUpTo, from)
  BY DEF IInv, ChannelChained
<1>3. CASE channel = <<>>
  BY <1>1, <1>2, <1>3 DEF Chained
<1>4. CASE channel # <<>>
  <2>1. 1 \in 1..Len(channel)
    BY <1>1, <1>4, EmptySeq
  <2>2. channel[1] \in Messages
    BY <1>1, <2>1, ElementOfSeq
  <2> QED
    BY <1>1, <1>2, <1>4, <2>1, <2>2 DEF Chained, Messages
<1> QED
  BY <1>3, <1>4

\* What a read copies behind what was delivered keeps the order, and its length
\* adds up.
LEMMA CopyOut ==
  ASSUME IInv, NEW k \in Nat, out' = out \o Interval(Len(out), k)
  PROVE  /\ out' \in Seq(Nat)
         /\ Len(out') = Len(out) + k
         /\ InOrder'
<1>1. out \in Seq(Nat) /\ \A i \in 1..Len(out) : out[i] = i
  BY ElementsInOrder DEF IInv, TypeOK, InOrder
<1>2. /\ out' \in Seq(Nat) /\ Len(out') = Len(out) + k
      /\ \A i \in 1..Len(out') : out'[i] = i
  BY <1>1, ConcatInterval
<1> QED
  BY <1>2, ElementsInOrder DEF InOrder

\* A read that is served from the current buffer.
LEMMA ReadCurrentKeeps ==
  ASSUME IInv, NEW n \in 0..MaxRead, ReadCurrent(n)
  PROVE  IInv'
<1> USE ReaderAssumption
<1> DEFINE k == Shorter(Unread, n)
<1>1. /\ receiver /\ receiver' /\ Unread > 0
      /\ UNCHANGED <<producer, channel, current, outcome>>
      /\ out' = out \o Interval(current[1].from + position, k) /\ position' = position + k
  BY DEF ReadCurrent
<1>2. /\ Unread \in Nat /\ current # <<>> /\ current[1] \in Messages
      /\ current[1].to = Len(out) + Unread
      /\ current[1].from + position = Len(out)
  BY <1>1, UnreadNat DEF IInv, CurrentChained, Unread
<1>3. k \in Nat /\ k <= Unread
  BY <1>2 DEF Shorter
<1> HIDE DEF k
<1>4. out' \in Seq(Nat) /\ Len(out') = Len(out) + k /\ InOrder'
  BY <1>1, <1>2, <1>3, CopyOut
<1>5. Len(out) \in Nat /\ position \in Nat /\ from \in Nat /\ total \in Nat
      /\ current[1].from \in Nat /\ current[1].to \in Nat
  BY <1>2 DEF IInv, TypeOK, Messages
<1>6. TypeOK'
  BY <1>1, <1>3, <1>4, <1>5 DEF IInv, TypeOK, producer
<1>7. Unread' = Unread - k /\ ReadUpTo' = ReadUpTo
  <2>1. current' = current
    BY <1>1
  <2>2. /\ Unread = current[1].to - current[1].from - position
        /\ Unread' = current[1].to - current[1].from - position'
    BY <1>2, <2>1 DEF Unread
  <2>3. Unread' = Unread - k
    BY <1>1, <1>3, <1>5, <2>2, SMTT(30)
  <2> QED
    BY <1>2, <1>3, <1>4, <1>5, <2>3 DEF ReadUpTo
<1>8. CurrentChained'
  <2>1. current' = current /\ position' = position + k /\ Len(out') = Len(out) + k
    BY <1>1, <1>4
  <2>2. current[1].from + (position + k) = Len(out) + k
    BY <1>2, <1>3, <1>5
  <2>3. Len(out) + k <= current[1].to
    BY <1>2, <1>3, <1>5
  <2>4. /\ current'[1].from + position' = Len(out')
        /\ current'[1].from + position' <= current'[1].to
    BY <2>1, <2>2, <2>3, Zenon
  <2> QED
    BY <2>4 DEF CurrentChained
<1>9. ChannelChained' /\ FilledOrDone'
  BY <1>1, <1>7 DEF IInv, ChannelChained, FilledOrDone, producer
<1>10. outcome = "open"
  BY <1>1, <1>2 DEF IInv, ToldIsFinal
<1>11. EndIsLast' /\ ReturnIsTold' /\ ToldIsFinal'
  BY <1>1, <1>10 DEF IInv, EndIsLast, ReturnIsTold, ToldIsFinal, producer
<1>12. Len(out') <= SourceLen
  <2>1. Len(out) + Unread <= from
    BY <1>1, <1>2, <1>5, ChainEndsAtFrom DEF ReadUpTo
  <2> QED
    BY <1>2, <1>3, <1>4, <1>5, <2>1 DEF IInv, FilledOrDone
<1> QED
  BY <1>1, <1>4, <1>6, <1>8, <1>9, <1>10, <1>11, <1>12 DEF IInv

\* Taking a message: the rest of the channel follows on it, and an end in it is
\* still the last message.
LEMMA TakeHead ==
  ASSUME IInv, receiver, channel # <<>>, Unread = 0,
         channel' = Tail(channel), thread' = thread
  PROVE  /\ channel[1] \in Messages /\ Head(channel) = channel[1]
         /\ channel[1].from = Len(out)
         /\ channel[1].to <= from
         /\ channel[1].from <= channel[1].to
         /\ channel' \in Seq(Messages)
         /\ Chained(channel', channel[1].to, from)
         /\ channel[1].kind # "data" => channel' = <<>> /\ thread = "returned"
         /\ channel[1].kind = "eof" => channel[1].to = SourceLen
         /\ channel[1].kind # "data" => channel[1].from = channel[1].to
         /\ EndIsLast'
<1>1. channel \in Seq(Messages) /\ from \in Nat /\ Len(out) \in Nat /\ Len(channel) \in Nat \ {0}
  BY EmptySeq DEF IInv, TypeOK
<1>2. ReadUpTo = Len(out)
  BY <1>1 DEF ReadUpTo
<1>3. Chained(channel, Len(out), from)
  BY <1>2 DEF IInv, ChannelChained
<1>4. 1 \in 1..Len(channel)
  BY <1>1
<1>5. channel[1] \in Messages /\ Head(channel) = channel[1]
  BY <1>1, <1>4, ElementOfSeq
<1>6. /\ channel[1].from = Len(out) /\ channel[1].to <= from
      /\ channel[1].from <= channel[1].to
  BY <1>3, <1>4 DEF Chained
<1>7. /\ channel' \in Seq(Messages) /\ Len(channel') = Len(channel) - 1
      /\ \A i \in 1..Len(channel') : channel'[i] = channel[i + 1]
  BY <1>1, HeadTailProperties
<1>8. Chained(channel', channel[1].to, from)
  BY <1>1, <1>3, ChainedTail
<1>9. EndIsLast
  BY DEF IInv
<1>10. channel[1].kind # "data" =>
         /\ Len(channel) = 1 /\ thread = "returned" /\ channel[1].from = channel[1].to
         /\ channel[1].kind = "eof" => channel[1].to = SourceLen
  BY <1>4, <1>9 DEF EndIsLast
<1>11. channel[1].kind # "data" => channel' = <<>>
  BY <1>7, <1>10, EmptySeq
<1>12. EndIsLast'
  <2> SUFFICES ASSUME NEW i \in 1..Len(channel'), channel'[i].kind # "data"
               PROVE  /\ i = Len(channel') /\ thread' = "returned"
                      /\ channel'[i].from = channel'[i].to
                      /\ channel'[i].kind = "eof" => channel'[i].to = SourceLen
    BY DEF EndIsLast
  <2>1. i + 1 \in 1..Len(channel) /\ channel'[i] = channel[i + 1]
    BY <1>1, <1>7
  <2>2. /\ i + 1 = Len(channel) /\ thread = "returned"
        /\ channel[i + 1].from = channel[i + 1].to
        /\ channel[i + 1].kind = "eof" => channel[i + 1].to = SourceLen
    BY <1>9, <2>1 DEF EndIsLast
  <2> QED
    BY <1>1, <1>7, <2>1, <2>2
<1> QED
  BY <1>5, <1>6, <1>7, <1>8, <1>10, <1>11, <1>12

\* A thread that returned has left its last message in what is still to be taken.
LEMMA TailIsTold ==
  ASSUME IInv, receiver, channel # <<>>, channel[1].kind = "data", outcome = "open",
         channel' = Tail(channel), UNCHANGED <<thread, outcome>>
  PROVE  ReturnIsTold'
<1>1. channel \in Seq(Messages) /\ Len(channel) \in Nat \ {0}
  BY EmptySeq DEF IInv, TypeOK
<1>2. /\ channel' \in Seq(Messages) /\ Len(channel') = Len(channel) - 1
      /\ \A i \in 1..Len(channel') : channel'[i] = channel[i + 1]
  BY <1>1, HeadTailProperties
<1> SUFFICES ASSUME thread = "returned"
             PROVE  channel' # <<>> /\ channel'[Len(channel')].kind # "data"
  BY DEF ReturnIsTold
<1>3. channel[Len(channel)].kind # "data"
  BY DEF IInv, ReturnIsTold
<1>4. Len(channel) > 1
  BY <1>1, <1>3
<1>5. channel' # <<>>
  <2>1. Len(channel') # 0
    BY <1>1, <1>2, <1>4
  <2>2. Len(<<>>) = 0
    OBVIOUS
  <2> QED
    BY <2>1, <2>2, Zenon
<1> QED
  BY <1>1, <1>2, <1>3, <1>4, <1>5

\* A read that takes the next buffer from the channel.
LEMMA ReceiveBufferKeeps ==
  ASSUME IInv, NEW n \in 0..MaxRead, ReceiveBuffer(n)
  PROVE  IInv'
<1> USE ReaderAssumption
<1> DEFINE b == channel[1]
           k == Shorter(b.to - b.from, n)
<1>1. /\ receiver /\ receiver' /\ Unread = 0 /\ channel # <<>>
      /\ channel' = Tail(channel) /\ UNCHANGED <<producer, outcome>>
      /\ thread' = thread /\ from' = from
  BY DEF ReceiveBuffer, producer
<1>2. /\ b \in Messages /\ Head(channel) = b /\ b.from = Len(out)
      /\ b.to <= from /\ b.from <= b.to
      /\ channel' \in Seq(Messages)
      /\ Chained(channel', b.to, from) /\ EndIsLast'
  BY <1>1, TakeHead
<1>3. b.kind = "data" /\ out' = out \o Interval(b.from, k)
  BY <1>2 DEF ReceiveBuffer
<1>4. b.from \in Nat /\ b.to \in Nat /\ from \in Nat /\ total \in Nat /\ Len(out) \in Nat
  BY <1>2 DEF IInv, TypeOK, Messages
<1>5. k \in Nat /\ k <= b.to - b.from
  BY <1>2, <1>4 DEF Shorter
<1> HIDE DEF k, b
<1>6. out' \in Seq(Nat) /\ Len(out') = Len(out) + k /\ InOrder'
  BY <1>2, <1>3, <1>5, CopyOut
<1>7. /\ current' \in Seq(Messages) /\ Len(current') <= 1 /\ position' \in Nat
      /\ CurrentChained' /\ Unread' = (b.to - b.from) - k
  <2>1. CASE k < b.to - b.from
    <3>1. current' = <<b>> /\ position' = k
      BY <1>2, <2>1 DEF ReceiveBuffer, k, b
    <3>2. <<b>> \in Seq(Messages) /\ Len(<<b>>) = 1 /\ <<b>>[1] = b /\ <<b>> # <<>>
      BY <1>2
    <3>3. Unread' = b.to - b.from - k
      BY <3>1, <3>2 DEF Unread
    <3>4. CurrentChained'
      <4>1. b.from + position' = Len(out') /\ b.from + position' <= b.to
        BY <1>2, <1>4, <1>5, <1>6, <2>1, <3>1
      <4>2. current'[1] = b
        BY <3>1, <3>2
      <4> QED
        BY <4>1, <4>2 DEF CurrentChained
    <3> QED
      BY <1>5, <3>1, <3>2, <3>3, <3>4
  <2>2. CASE ~(k < b.to - b.from)
    <3>1. current' = <<>> /\ position' = 0
      BY <1>2, <2>2 DEF ReceiveBuffer, k, b
    <3>2. Unread' = 0 /\ CurrentChained'
      BY <3>1 DEF Unread, CurrentChained
    <3>3. k = b.to - b.from
      BY <1>2, <1>4, <1>5, <2>2
    <3> QED
      BY <1>4, <3>1, <3>2, <3>3
  <2> QED
    BY <2>1, <2>2
<1>8. TypeOK'
  BY <1>1, <1>2, <1>6, <1>7 DEF IInv, TypeOK, producer
<1>9. ReadUpTo' = b.to
  BY <1>2, <1>4, <1>5, <1>6, <1>7 DEF ReadUpTo
<1>10. ChannelChained'
  BY <1>1, <1>2, <1>9 DEF ChannelChained
<1>11. outcome = "open"
  BY <1>1 DEF IInv, ToldIsFinal
<1>12. ReturnIsTold' /\ ToldIsFinal'
  BY <1>1, <1>3, <1>11, TailIsTold DEF ToldIsFinal, b
<1>13. Len(out') <= SourceLen /\ FilledOrDone'
  BY <1>1, <1>2, <1>4, <1>5, <1>6 DEF IInv, FilledOrDone, producer
<1> QED
  BY <1>1, <1>2, <1>6, <1>7, <1>8, <1>10, <1>11, <1>12, <1>13 DEF IInv

\* A read that takes the end of the stream or the error from the channel.
LEMMA ReceiveEndKeeps ==
  ASSUME IInv, NEW n \in 0..MaxRead, ReceiveEnd(n)
  PROVE  IInv'
<1> USE ReaderAssumption
<1>1. /\ receiver /\ receiver' /\ Unread = 0 /\ channel # <<>>
      /\ channel' = Tail(channel) /\ UNCHANGED <<producer, current, position, out>>
      /\ thread' = thread
  BY DEF ReceiveEnd, producer
<1>2. /\ channel[1] \in Messages /\ Head(channel) = channel[1]
      /\ channel[1].from = Len(out)
      /\ channel' \in Seq(Messages)
      /\ Chained(channel', channel[1].to, from) /\ EndIsLast'
      /\ channel[1].kind # "data" => channel' = <<>> /\ thread = "returned"
      /\ channel[1].kind = "eof" => channel[1].to = SourceLen
      /\ channel[1].kind # "data" => channel[1].from = channel[1].to
  BY <1>1, TakeHead
<1>3. channel[1].kind # "data"
  BY <1>2 DEF ReceiveEnd
<1>4. /\ outcome' \in {"error", "swallowed", "eof"}
      /\ outcome' \in {"swallowed", "eof"} => Len(out) = SourceLen
  BY <1>2, <1>3 DEF ReceiveEnd, Messages
<1>5. TypeOK'
  BY <1>1, <1>2, <1>4 DEF IInv, TypeOK, producer
<1>6. Unread' = Unread /\ ReadUpTo' = ReadUpTo /\ ReadUpTo = channel[1].to
  BY <1>1, <1>2, <1>3 DEF Unread, ReadUpTo, IInv, TypeOK
<1>7. CurrentChained' /\ ChannelChained' /\ InOrder' /\ FilledOrDone'
  BY <1>1, <1>2, <1>6 DEF IInv, CurrentChained, ChannelChained, InOrder, FilledOrDone, producer
<1>8. ReturnIsTold' /\ ToldIsFinal'
  BY <1>1, <1>2, <1>3, <1>4, <1>6 DEF ReturnIsTold, ToldIsFinal
<1> QED
  BY <1>1, <1>2, <1>4, <1>5, <1>7, <1>8 DEF IInv

\* A read that finds the channel closed.
LEMMA DisconnectedKeeps ==
  ASSUME IInv, Disconnected
  PROVE  IInv'
<1>1. /\ receiver /\ Unread = 0 /\ channel = <<>> /\ thread = "returned"
      /\ UNCHANGED <<producer, channel, receiver, current, position, out>>
      /\ outcome' = IF outcome \in {"eof", "error"} THEN outcome ELSE "broken"
  BY DEF Disconnected
<1>2. outcome # "open"
  BY <1>1 DEF IInv, ReturnIsTold
<1>3. /\ outcome' \in {"eof", "error", "broken"}
      /\ outcome' \in {"eof", "broken"} => Len(out) = SourceLen
  BY <1>1, <1>2 DEF IInv, TypeOK
<1>4. UNCHANGED <<InOrder, FilledOrDone, CurrentChained, ChannelChained, EndIsLast, Unread>>
  BY <1>1 DEF InOrder, FilledOrDone, CurrentChained, ChannelChained, ReadUpTo, Unread,
              EndIsLast, producer
<1>5. TypeOK' /\ ReturnIsTold' /\ ToldIsFinal'
  BY <1>1, <1>3, <1>4 DEF IInv, TypeOK, ReturnIsTold, ToldIsFinal, producer
<1> QED
  BY <1>1, <1>3, <1>4, <1>5 DEF IInv

\* The reader is dropped.
LEMMA DropKeeps ==
  ASSUME IInv, drop
  PROVE  IInv'
<1>1. UNCHANGED <<thread, from, total, out, outcome>>
  BY DEF drop, producer
<1>2. receiver' = FALSE /\ channel' = <<>> /\ current' = <<>> /\ position' = 0
  BY DEF drop
<1>3. TypeOK'
  <2>1. <<>> \in Seq(Messages) /\ Len(<<>>) <= 1
    OBVIOUS
  <2>2. /\ channel' \in Seq(Messages) /\ receiver' \in BOOLEAN
        /\ current' \in Seq(Messages) /\ Len(current') <= 1
        /\ position' \in Nat
    BY <1>2, <2>1
  <2>3. /\ thread' \in {"fill", "full", "returned"} /\ from' \in Nat /\ total' \in 0..BufferSize
        /\ out' \in Seq(Nat)
        /\ outcome' \in {"open", "eof", "error", "swallowed", "broken"}
    BY <1>1 DEF IInv, TypeOK
  <2> QED
    BY <2>2, <2>3 DEF TypeOK
<1>4. InOrder' /\ FilledOrDone'
  BY <1>1 DEF IInv, InOrder, FilledOrDone
<1> QED
  BY <1>1, <1>2, <1>3, <1>4 DEF IInv

\* Every step of the thread and of the reader keeps it.
LEMMA NextIInv == IInv /\ [Next]_vars => IInv'
<1> SUFFICES ASSUME IInv, [Next]_vars PROVE IInv'
  OBVIOUS
<1>1. ASSUME NEW n \in 1..BufferSize, SourceRead(n) PROVE IInv'
  BY <1>1, SourceReadKeeps
<1>2. CASE SourceError
  BY <1>2, SourceErrorKeeps
<1>3. CASE Filled
  BY <1>3, FilledKeeps
<1>4. CASE SendBuffer
  BY <1>4, SendBufferKeeps
<1>5. ASSUME NEW n \in 0..MaxRead, read(n) PROVE IInv'
  BY <1>5, ReadCurrentKeeps, ReceiveBufferKeeps, ReceiveEndKeeps, DisconnectedKeeps DEF read
<1>6. CASE drop
  BY <1>6, DropKeeps
<1>7. CASE UNCHANGED vars
  BY <1>7 DEF vars, IInv, TypeOK, InOrder, FilledOrDone, CurrentChained, ChannelChained, ReadUpTo,
              Unread, EndIsLast, ReturnIsTold, ToldIsFinal
<1> QED
  BY <1>1, <1>2, <1>3, <1>4, <1>5, <1>6, <1>7 DEF Next, Thread

\* The chain holds in every reachable state.
THEOREM Inductive == Spec => []IInv
BY InitIInv, NextIInv, PTL DEF Spec

-----------------------------------------------------------------------------

\* The states of the thread, the channel and the reader have their types.
THEOREM TypeCorrect == Spec => []TypeOK
<1>1. IInv => TypeOK
  BY DEF IInv
<1> QED
  BY <1>1, Inductive, PTL

\* The caller gets the bytes of the source in order, none twice and none skipped,
\* for every buffer size and however its reads are cut (impl Read).
THEOREM DeliversInOrder == Spec => []InOrder
<1>1. IInv => InOrder
  BY DEF IInv
<1> QED
  BY <1>1, Inductive, PTL

\* A caller told that the stream ended has had every byte of it.
THEOREM EndIsReached == Spec => []EndIsTheEnd
<1>1. IInv => EndIsTheEnd
  BY DEF IInv, EndIsTheEnd
<1> QED
  BY <1>1, Inductive, PTL

\* A BrokenPipe hides no byte of the source.
THEOREM BrokenPipeHidesNothing == Spec => []NothingLostBehindBrokenPipe
<1>1. IInv => NothingLostBehindBrokenPipe
  BY DEF IInv, NothingLostBehindBrokenPipe
<1> QED
  BY <1>1, Inductive, PTL

-----------------------------------------------------------------------------

\* outcome as a byte stream's caller sees it
ToldOutcome == IF outcome \in {"eof", "error"} THEN outcome ELSE "open"

\* A step that delivers bytes is a delivery of the stream, or no step at all when
\* it copied none.
LEMMA DeliveryMaps ==
  ASSUME IInv, IInv', NEW k \in Nat, out' = out \o Interval(Len(out), k),
         outcome = "open", outcome' = outcome
  PROVE  [Stream!Next]_<<out, ToldOutcome>>
<1>1. Len(out') = Len(out) + k /\ Len(out) \in Nat
  <2>1. out \in Seq(Nat)
    BY DEF IInv, TypeOK
  <2>2. Len(out') = Len(out) + k
    BY CopyOut
  <2> QED
    BY <2>1, <2>2
<1>2. out = [i \in 1..Len(out) |-> i] /\ out' = [i \in 1..Len(out') |-> i] /\ Len(out') <= SourceLen
  BY DEF IInv, InOrder
<1>3. ToldOutcome = "open" /\ ToldOutcome' = "open"
  BY DEF ToldOutcome
<1>4. CASE k = 0
  <2>1. Len(out') = Len(out)
    BY <1>1, <1>4
  <2>2. out' = out
    BY <1>2, <2>1, Zenon
  <2> QED
    BY <1>3, <2>2
<1>5. CASE k # 0
  <2>1. Len(out') \in 0..SourceLen /\ Len(out') > Len(out)
    BY <1>1, <1>2, <1>5, ReaderAssumption
  <2>2. out' = Stream!Prefix(Len(out'))
    BY <1>2 DEF Stream!Prefix
  <2>3. Stream!Deliver
    BY <1>3, <2>1, <2>2 DEF Stream!Deliver, ToldOutcome
  <2> QED
    BY <2>3 DEF Stream!Next
<1> QED
  BY <1>4, <1>5

\* A read that takes an end tells the stream's caller of it.
LEMMA EndMaps ==
  ASSUME IInv, IInv', NEW n \in 0..MaxRead, ReceiveEnd(n)
  PROVE  [Stream!Next]_<<out, ToldOutcome>>
<1>1. out' = out /\ receiver /\ channel # <<>>
  BY DEF ReceiveEnd
<1>2. outcome = "open"
  BY <1>1 DEF IInv, ToldIsFinal
<1>3. outcome' \in {"error", "swallowed", "eof"}
  BY DEF ReceiveEnd
<1>4. CASE outcome' = "error"
  BY <1>1, <1>2, <1>4 DEF Stream!Next, Stream!Fail, ToldOutcome
<1>5. CASE outcome' = "swallowed"
  BY <1>1, <1>2, <1>5 DEF ToldOutcome
<1>6. CASE outcome' = "eof"
  <2>1. Len(out) = SourceLen
    BY <1>1, <1>6 DEF IInv
  <2>2. out = Stream!Prefix(SourceLen)
    BY <2>1 DEF IInv, InOrder, Stream!Prefix
  <2> QED
    BY <1>1, <1>2, <1>6, <2>2 DEF Stream!Next, Stream!End, ToldOutcome
<1> QED
  BY <1>3, <1>4, <1>5, <1>6

\* The reader implements the byte stream: the thread, the channel, the dropped
\* reader and the closed channel are all hidden from the caller.
THEOREM ReaderIsByteStream == Spec => ReadsByteStream
<1>1. Init => Stream!Init
  BY DEF Init, Stream!Init
<1>2. IInv /\ IInv' /\ [Next]_vars => [Stream!Next]_<<out, ToldOutcome>>
  <2> SUFFICES ASSUME IInv, IInv', [Next]_vars
               PROVE  [Stream!Next]_<<out, ToldOutcome>>
    OBVIOUS
  <2>1. CASE Thread \/ drop \/ UNCHANGED vars
    <3>1. UNCHANGED <<out, outcome>>
      BY <2>1 DEF Thread, SourceRead, SourceError, Filled, SendBuffer, drop, vars, consumer
    <3> QED
      BY <3>1 DEF ToldOutcome
  <2>2. ASSUME NEW n \in 0..MaxRead, ReadCurrent(n) PROVE [Stream!Next]_<<out, ToldOutcome>>
    <3>1. receiver /\ Unread > 0 /\ outcome' = outcome
      BY <2>2 DEF ReadCurrent
    <3>2. /\ Unread \in Nat /\ current # <<>> /\ current[1].from + position = Len(out)
      BY <3>1, UnreadNat DEF IInv, CurrentChained, Unread
    <3>3. Shorter(Unread, n) \in Nat
      BY <3>2, ReaderAssumption DEF Shorter
    <3>4. outcome = "open"
      BY <3>1, <3>2 DEF IInv, ToldIsFinal
    <3>5. out' = out \o Interval(Len(out), Shorter(Unread, n))
      BY <2>2, <3>2 DEF ReadCurrent
    <3> QED
      BY <3>1, <3>3, <3>4, <3>5, DeliveryMaps
  <2>3. ASSUME NEW n \in 0..MaxRead, ReceiveBuffer(n) PROVE [Stream!Next]_<<out, ToldOutcome>>
    <3> DEFINE b == channel[1]
               k == Shorter(b.to - b.from, n)
    <3>1. /\ receiver /\ Unread = 0 /\ channel # <<>> /\ outcome' = outcome
          /\ channel' = Tail(channel) /\ thread' = thread
      BY <2>3 DEF ReceiveBuffer, producer
    <3>2. b \in Messages /\ Head(channel) = b /\ b.from = Len(out) /\ b.from <= b.to
      BY <3>1, TakeHead
    <3>3. b.from \in Nat /\ b.to \in Nat
      BY <3>2 DEF Messages
    <3>4. k \in Nat
      BY <3>2, <3>3, ReaderAssumption DEF Shorter
    <3>5. out' = out \o Interval(Len(out), k)
      BY <2>3, <3>2 DEF ReceiveBuffer
    <3>6. outcome = "open"
      BY <3>1 DEF IInv, ToldIsFinal
    <3> HIDE DEF k, b
    <3> QED
      BY <3>1, <3>4, <3>5, <3>6, DeliveryMaps
  <2>4. ASSUME NEW n \in 0..MaxRead, ReceiveEnd(n) PROVE [Stream!Next]_<<out, ToldOutcome>>
    BY <2>4, EndMaps
  <2>5. CASE Disconnected
    <3>1. out' = out /\ receiver /\ channel = <<>> /\ thread = "returned"
      BY <2>5 DEF Disconnected
    <3>2. outcome # "open"
      BY <3>1 DEF IInv, ReturnIsTold
    <3>3. ToldOutcome' = ToldOutcome
      BY <2>5 DEF Disconnected, ToldOutcome
    <3> QED
      BY <3>1, <3>3
  <2> QED
    BY <2>1, <2>2, <2>3, <2>4, <2>5 DEF Next, read
<1> QED
  BY <1>1, <1>2, Inductive, PTL DEF Spec, ReadsByteStream, Stream!Spec, ToldOutcome

=============================================================================
