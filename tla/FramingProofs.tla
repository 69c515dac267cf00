--------------------------- MODULE FramingProofs ---------------------------
(***************************************************************************)
(* Theorems about Framing, for any sizes of packets, headers and messages: *)
(* whatever the sends take and the reads return, a byte of the wire is     *)
(* where the message has it.                                               *)
(***************************************************************************)
EXTENDS Framing, SequenceTheorems, TLAPS

Length == message.size
Skip == Header(message.kind)
Room == SendSize - Skip

\* The bytes the receiver has taken from the wire, headers included.
Got ==
  IF receiver = "first" THEN 0
  ELSE IF Length = 0 THEN bytesread ELSE Length + Skip - bytesleft

\* The counters of the sender are those of the message.
SendInv ==
  /\ sender \in {"create", "first"} => stream = <<>> /\ receiver = "first"
  /\ sender = "rest" =>
       /\ bytestosend = Length - pos
       /\ Room <= pos
       /\ bufferroom = SendSize \/ (bufferroom = Room /\ pos = Room)

\* What is on the wire is the message from where the receiver is to where the
\* sender is, and no padding but that of the first packet.
WireInv ==
  receiver \in {"first", "rest"} =>
    /\ \A i \in 1..Len(stream) : stream[i] = Byte(Got + i - Skip)
    /\ sender = "rest" => Got + Len(stream) = Skip + pos
    /\ Got + Len(stream) <= SendSize \/ Got + Len(stream) <= Skip + Length

\* The buffer is the message up to where the receiver is.
RecvInv ==
  /\ \A i \in 1..Len(ret_buf) : ret_buf[i] = Byte(i)
  /\ receiver = "first" => ret_buf = <<>> /\ bytesleft = 0
  /\ Length = 0 => bytesleft = 0
  /\ receiver \in {"rest", "received"} =>
       /\ bytesread <= Got /\ Skip <= Got
       /\ Len(ret_buf) = Got - Skip \/ (Len(ret_buf) = Length /\ Length <= Got - Skip)
  /\ receiver = "received" => bytesleft <= 0

IInv == TypeOK /\ SendInv /\ WireInv /\ RecvInv /\ StaysInBuffer

\* What the numbers of the code must have room for: the part of an update that does
\* not fit its first packet is no longer than the part that does, and the length of
\* a message is an int.
Fits ==
  /\ MaxUpdate <= 2 * (SendSize - UpdateHeader)
  /\ MaxUpdate < IntLimit /\ MaxFile < IntLimit

-----------------------------------------------------------------------------
(* Operators.                                                              *)

LEMMA FunctionIsSequence ==
  ASSUME NEW S, NEW n \in Nat, NEW f \in [1..n -> S]
  PROVE  f \in Seq(S) /\ Len(f) = n
OBVIOUS

LEMMA Prefix ==
  ASSUME NEW S, NEW s \in Seq(S), NEW k \in 0..Len(s)
  PROVE  /\ SubSeq(s, 1, k) \in Seq(S) /\ Len(SubSeq(s, 1, k)) = k
         /\ \A i \in 1..k : SubSeq(s, 1, k)[i] = s[i]
<1>1. Len(s) \in Nat /\ \A i \in 1..k : s[i] \in S
  BY LenProperties, ElementOfSeq
<1> QED BY <1>1, SubSeqProperties

LEMMA Suffix ==
  ASSUME NEW S, NEW s \in Seq(S), NEW k \in 0..Len(s)
  PROVE  /\ SubSeq(s, k + 1, Len(s)) \in Seq(S) /\ Len(SubSeq(s, k + 1, Len(s))) = Len(s) - k
         /\ \A i \in 1..(Len(s) - k) : SubSeq(s, k + 1, Len(s))[i] = s[k + i]
<1>1. Len(s) \in Nat /\ \A i \in (k + 1)..Len(s) : s[i] \in S
  BY LenProperties, ElementOfSeq
<1> QED BY <1>1, SubSeqProperties

\* The remainder of what is in range is itself.
LEMMA SmallRemainder ==
  ASSUME NEW n \in Nat, NEW a \in 0..(n - 1)
  PROVE  a % n = a
OBVIOUS

\* An int holds what is in its range, and always something of its range.
LEMMA AsIntFacts ==
  ASSUME NEW x \in Int
  PROVE  /\ AsInt(x) \in (-IntLimit)..(IntLimit - 1)
         /\ x \in (-IntLimit)..(IntLimit - 1) => AsInt(x) = x
<1>1. IntLimit \in Nat /\ IntLimit > 0
  BY FramingAssumption
<1>2. PICK n \in Nat : n = 2 * IntLimit /\ n > 0
  BY <1>1
<1>3. (x + IntLimit) % n \in 0..(n - 1)
  BY <1>1, <1>2
<1>4. ASSUME x \in (-IntLimit)..(IntLimit - 1) PROVE (x + IntLimit) % n = x + IntLimit
  <2>1. x + IntLimit \in 0..(n - 1)
    BY <1>1, <1>2, <1>4
  <2> QED BY <2>1, <1>2, SmallRemainder
<1>5. AsInt(x) = ((x + IntLimit) % n) - IntLimit
  BY <1>2 DEF AsInt
<1> HIDE DEF AsInt
<1> QED BY <1>1, <1>2, <1>3, <1>4, <1>5

\* The sizes of a message and of its packets.
LEMMA Sizes ==
  ASSUME TypeOK
  PROVE  /\ Length \in Nat /\ Skip \in Nat /\ Room \in Nat /\ SendSize \in Nat
         /\ Skip <= FileHeader /\ FileHeader \in Nat /\ Skip < SendSize
         /\ message.kind # "file" => Skip = UpdateHeader /\ Length <= MaxUpdate
         /\ Length <= MaxUpdate \/ Length <= MaxFile
<1>1. message.size \in 0..MaxUpdate \/ (message.kind = "file" /\ message.size \in 0..MaxFile)
  BY DEF TypeOK, Messages, Updates
<1>2. Skip = IF message.kind = "file" THEN FileHeader ELSE UpdateHeader
  BY DEF Skip, Header
<1> QED BY <1>1, <1>2, FramingAssumption DEF Length, Room

LEMMA ByteFacts ==
  ASSUME TypeOK
  PROVE  /\ \A i \in Int : Byte(i) \in Nat
         /\ \A i \in Int : copied(i) \in Nat
<1>1. pos \in Int
  BY DEF TypeOK
<1> QED BY <1>1 DEF Byte, copied

\* What a packet adds to the stream.
LEMMA PacketFacts ==
  ASSUME TypeOK, NEW n \in Nat, NEW packet \in [1..n -> Nat]
  PROVE  /\ stream \o packet \in Seq(Nat)
         /\ Len(stream \o packet) = Len(stream) + n /\ Len(stream) \in Nat
         /\ \A i \in 1..Len(stream) : (stream \o packet)[i] = stream[i]
         /\ \A i \in (Len(stream) + 1)..(Len(stream) + n) : (stream \o packet)[i] = packet[i - Len(stream)]
<1>1. stream \in Seq(Nat) /\ packet \in Seq(Nat) /\ Len(packet) = n /\ Len(stream) \in Nat
  BY FunctionIsSequence, LenProperties DEF TypeOK
<1>2. /\ stream \o packet \in Seq(Nat) /\ Len(stream \o packet) = Len(stream) + n
      /\ \A i \in 1..(Len(stream) + n) :
           (stream \o packet)[i] = IF i <= Len(stream) THEN stream[i] ELSE packet[i - Len(stream)]
  BY <1>1, ConcatProperties
<1> QED BY <1>1, <1>2

\* What a read leaves of the stream.
LEMMA DropFacts ==
  ASSUME TypeOK, NEW k \in Nat, k <= Len(stream), Drop(k)
  PROVE  /\ stream' \in Seq(Nat) /\ Len(stream) \in Nat /\ Len(stream') = Len(stream) - k
         /\ \A i \in 1..Len(stream') : stream'[i] = stream[k + i]
<1>1. stream \in Seq(Nat) /\ Len(stream) \in Nat
  BY LenProperties DEF TypeOK
<1>2. k \in 0..Len(stream)
  BY <1>1
<1> QED BY <1>1, <1>2, Suffix DEF Drop

\* The size of what the first read of k bytes keeps.
LEMMA KeptFacts ==
  ASSUME TypeOK, NEW k \in FirstReads
  PROVE  /\ k \in Nat /\ k <= SendSize /\ Skip <= k
         /\ Kept(k) \in 0..(k - Skip)
         /\ Kept(k) = k - Skip \/ (Kept(k) = Length /\ Length <= k - Skip)
         /\ message.kind # "file" => Kept(k) <= Length
<1>1. k \in FileHeader..SendSize
  BY FramingAssumption
<1>2. Body(k) = k - Skip
  BY DEF Body, Skip
<1>3. Kept(k) = IF message.kind = "file" THEN k - Skip
                ELSE IF k - Skip < Length THEN k - Skip ELSE Length
  BY <1>2 DEF Kept, Least, Length
<1> HIDE DEF Kept
<1> QED BY <1>1, <1>3, Sizes

-----------------------------------------------------------------------------
(* Type correctness.                                                       *)

LEMMA TypeStep ==
  ASSUME TypeOK, [Next]_vars
  PROVE  TypeOK'
<1>0. SendSize \in Nat /\ Room \in 0..SendSize
  BY Sizes DEF Room
<1>1. CASE create_message
  <2>1. [kind |-> "empty", size |-> 0] \in Messages
    BY FramingAssumption DEF Messages, Updates, created
  <2> QED BY <1>1, <2>1 DEF create_message, receivers, TypeOK
<1>2. CASE FirstPacket
  <2>1. [i \in 1..SendSize |-> Byte(i - Skip)] \in [1..SendSize -> Nat]
    BY <1>0, Sizes, ByteFacts
  <2>2. stream' \in Seq(Nat)
    BY <1>0, <1>2, <2>1, PacketFacts DEF FirstPacket, Skip
  <2>3. message.size - Room \in Int /\ Room \in Nat
    BY Sizes DEF Length
  <2> QED BY <1>0, <1>2, <2>2, <2>3 DEF FirstPacket, Room, Skip, receivers, TypeOK
<1>3. ASSUME NEW n \in 1..SendSize, NextPacket(n) PROVE TypeOK'
  <2>1. n \in Nat /\ pos + n \in Nat /\ bytestosend - n \in Int
    BY <1>0 DEF TypeOK
  <2>2. [i \in 1..n |-> copied(i)] \in [1..n -> Nat]
    BY <2>1, ByteFacts
  <2>3. stream' \in Seq(Nat)
    BY <1>3, <2>1, <2>2, PacketFacts DEF NextPacket
  <2> QED BY <1>0, <1>3, <2>1, <2>3 DEF NextPacket, receivers, TypeOK
<1>4. CASE SendEnds
  BY <1>4 DEF SendEnds, receivers, TypeOK
<1>5. CASE Die
  <2>1. stream' \in Seq(Nat)
    BY <1>5, EmptySeq DEF Die, TypeOK
  <2> QED BY <1>5, <2>1 DEF Die, receivers, TypeOK
<1>6. ASSUME NEW k \in 1..SendSize, FirstRead(k) PROVE TypeOK'
  <2>1. stream' \in Seq(Nat)
    BY <1>6, <1>0, DropFacts DEF FirstRead
  <2>2. ret_buf' \in Seq(Nat)
    <3>1. k \in FirstReads /\ k <= Len(stream) /\ Len(stream) \in Nat /\ stream \in Seq(Nat)
      BY <1>6, LenProperties DEF FirstRead, TypeOK
    <3>2. Skip + 1 \in Int /\ Skip + Kept(k) \in Int /\ Skip + Kept(k) <= Len(stream)
      <4>1. Skip \in Int /\ k \in Int /\ Kept(k) \in 0..(k - Skip)
        BY <3>1, KeptFacts, Sizes
      <4> QED BY <3>1, <4>1
    <3>3. \A i \in (Skip + 1)..(Skip + Kept(k)) : stream[i] \in Nat
      BY <3>1, <3>2, Sizes, ElementOfSeq, SMTT(30)
    <3> QED BY <1>6, <3>2, <3>3, SubSeqProperties DEF FirstRead, Skip
  <2>3. bytesleft' \in (-IntLimit)..(IntLimit - 1)
    <3>1. Length + Skip - k \in Int
      BY <1>0, Sizes
    <3>2. 0 \in (-IntLimit)..(IntLimit - 1)
      BY FramingAssumption
    <3>3. Left(k) \in (-IntLimit)..(IntLimit - 1)
      BY <3>1, <3>2, AsIntFacts DEF Left, Length, Skip
    <3> QED BY <1>6, <3>3 DEF FirstRead
  <2> QED BY <1>0, <1>6, <2>1, <2>2, <2>3 DEF FirstRead, senders, TypeOK
<1>7. ASSUME NEW k \in 1..SendSize, NextRead(k) PROVE TypeOK'
  <2>1. Len(stream) \in Nat /\ stream \in Seq(Nat) /\ ret_buf \in Seq(Nat)
    BY LenProperties DEF TypeOK
  <2>2. k \in Nat /\ k <= Len(stream) /\ k <= SendSize
    BY <1>0, <1>7, <2>1 DEF NextRead, Least
  <2>3. stream' \in Seq(Nat) /\ First(k) \in Seq(Nat)
    <3>1. stream' \in Seq(Nat)
      BY <1>7, <2>2, DropFacts DEF NextRead
    <3>2. k \in 0..Len(stream)
      BY <2>1, <2>2
    <3> QED BY <2>1, <3>1, <3>2, Prefix DEF First
  <2>4. ret_buf' \in Seq(Nat)
    BY <1>7, <2>1, <2>3, ConcatProperties DEF NextRead
  <2>5. bytesleft' \in (-IntLimit)..(IntLimit - 1)
    BY <1>0, <1>7, <2>2, FramingAssumption DEF NextRead, TypeOK
  <2> QED BY <1>7, <2>3, <2>4, <2>5 DEF NextRead, senders, TypeOK
<1>8. ASSUME NEW k \in 1..SendSize, CannotStore(k) PROVE TypeOK'
  <2>1. stream' \in Seq(Nat)
    BY <1>8, <1>0, DropFacts DEF CannotStore
  <2> QED BY <1>8, <2>1 DEF CannotStore, senders, TypeOK
<1>9. CASE NoMessage \/ RecvFails \/ RecvEnds
  BY <1>9 DEF NoMessage, RecvFails, RecvEnds, senders, TypeOK
<1>10. CASE UNCHANGED vars
  BY <1>10 DEF vars, TypeOK
<1> QED BY <1>1, <1>2, <1>3, <1>4, <1>5, <1>6, <1>7, <1>8, <1>9, <1>10 DEF Next, send_msg, recv_msg

LEMMA InitType == Init => TypeOK
BY EmptySeq, FramingAssumption DEF Init, TypeOK

\* Type correctness; in particular bytesleft stays an int.
THEOREM TypeCorrect == Spec => []TypeOK
<1>1. TypeOK /\ [Next]_vars => TypeOK'
  BY TypeStep
<1> QED BY <1>1, InitType, PTL DEF Spec

-----------------------------------------------------------------------------
(* The sender.                                                             *)

\* What depends on the message only.
LEMMA MessageKept ==
  ASSUME UNCHANGED message
  PROVE  UNCHANGED <<Length, Skip, Room>> /\ \A i : Byte(i)' = Byte(i)
BY DEF Length, Skip, Room, Header, Byte

LEMMA CreateInv ==
  ASSUME IInv, TypeOK', create_message
  PROVE  IInv'
<1>1. /\ stream' = <<>> /\ receiver' = "first" /\ ret_buf' = <<>> /\ bytesleft' = 0
      /\ sender' = "first"
  BY DEF create_message, IInv, SendInv, RecvInv, receivers
<1>2. Len(<<>>) = 0 /\ SendSize \in Nat /\ message'.size \in Nat
  BY EmptySeq, FramingAssumption DEF TypeOK, Messages, Updates
<1>3. Got' = 0
  BY <1>1 DEF Got
<1>4. SendInv' /\ RecvInv' /\ StaysInBuffer'
  BY <1>1, <1>2 DEF SendInv, RecvInv, StaysInBuffer
<1>5. WireInv'
  BY <1>1, <1>2, <1>3 DEF WireInv
<1> QED BY <1>4, <1>5 DEF IInv

\* The first packet puts the message right after its header.
LEMMA FirstPacketInv ==
  ASSUME IInv, TypeOK', FirstPacket
  PROVE  IInv'
<1>1. /\ stream = <<>> /\ receiver = "first" /\ UNCHANGED <<message, receivers>>
      /\ sender' = "rest" /\ pos' = Room /\ bufferroom' = Room /\ bytestosend' = Length - Room
      /\ stream' = stream \o [i \in 1..SendSize |-> Byte(i - Skip)]
  BY DEF FirstPacket, IInv, SendInv, Room, Skip, Length
<1>2. Length \in Nat /\ Skip \in Nat /\ Room \in Nat /\ SendSize \in Nat /\ Room = SendSize - Skip
  BY Sizes DEF IInv, Room
<1>3. UNCHANGED <<Length, Skip, Room>> /\ \A i : Byte(i)' = Byte(i)
  BY <1>1, MessageKept
<1>4. /\ Len(stream') = SendSize
      /\ \A i \in 1..SendSize : stream'[i] = Byte(i - Skip)
  <2>1. [i \in 1..SendSize |-> Byte(i - Skip)] \in [1..SendSize -> Nat]
    BY <1>2, ByteFacts DEF IInv
  <2>2. Len(stream) = 0
    BY <1>1, EmptySeq
  <2>3. /\ Len(stream') = SendSize
        /\ \A i \in 1..SendSize : stream'[i] = [j \in 1..SendSize |-> Byte(j - Skip)][i - 0]
    BY <1>1, <1>2, <2>1, <2>2, PacketFacts DEF IInv
  <2> QED BY <1>2, <2>3
<1>5. Got = 0 /\ Got' = 0
  BY <1>1 DEF Got, receivers
<1>6. SendInv'
  BY <1>1, <1>2, <1>3 DEF SendInv
<1>7. WireInv'
  <2>1. \A i \in 1..Len(stream') : stream'[i] = Byte(Got' + i - Skip)
    BY <1>2, <1>4, <1>5
  <2> QED BY <1>1, <1>2, <1>3, <1>4, <1>5, <2>1 DEF WireInv
<1>8. RecvInv' /\ StaysInBuffer'
  BY <1>1, <1>3 DEF IInv, RecvInv, StaysInBuffer, receivers
<1> QED BY <1>6, <1>7, <1>8 DEF IInv

\* A later packet goes on where the last one ended.
LEMMA NextPacketInv ==
  ASSUME Fits, IInv, TypeOK', NEW n \in 1..SendSize, NextPacket(n)
  PROVE  IInv'
<1>1. /\ sender = "rest" /\ sender' = "rest" /\ UNCHANGED <<message, receivers>>
      /\ bytestosend' = bytestosend - n /\ pos' = pos + n /\ bufferroom' = SendSize
      /\ stream' = stream \o [i \in 1..n |-> copied(i)]
  BY DEF NextPacket
<1>2. /\ Length \in Nat /\ Skip \in Nat /\ Room \in Nat /\ SendSize \in Nat /\ Room = SendSize - Skip
      /\ n \in Nat /\ pos \in Nat /\ Room <= pos /\ bytestosend = Length - pos
  BY <1>1, Sizes DEF IInv, SendInv, Room, TypeOK
<1>3. n <= Length - pos
  BY <1>2 DEF NextPacket, Least
<1>4. UNCHANGED <<Length, Skip, Room>> /\ (\A i : Byte(i)' = Byte(i)) /\ Got' = Got
  BY <1>1, MessageKept DEF Got, receivers
<1>5. \A i \in 1..n : copied(i) = Byte(pos + i)
  <2>1. CASE message.kind = "file" \/ bufferroom = SendSize
    BY <1>2, <2>1 DEF copied
  <2>2. CASE message.kind # "file" /\ bufferroom = Room /\ pos = Room
    <3>1. Length - Room <= Room
      BY <1>2, <2>2, Sizes, FramingAssumption DEF Fits, IInv
    <3> QED BY <1>2, <1>3, <2>2, <3>1 DEF copied
  <2> QED BY <1>1, <2>1, <2>2 DEF IInv, SendInv
<1>6. /\ Len(stream') = Len(stream) + n /\ Len(stream) \in Nat
      /\ \A i \in 1..Len(stream) : stream'[i] = stream[i]
      /\ \A i \in (Len(stream) + 1)..(Len(stream) + n) : stream'[i] = Byte(pos + (i - Len(stream)))
  <2>1. [i \in 1..n |-> copied(i)] \in [1..n -> Nat]
    BY <1>2, ByteFacts DEF IInv
  <2>2. /\ Len(stream') = Len(stream) + n /\ Len(stream) \in Nat
        /\ \A i \in 1..Len(stream) : stream'[i] = stream[i]
        /\ \A i \in (Len(stream) + 1)..(Len(stream) + n) :
             stream'[i] = [j \in 1..n |-> copied(j)][i - Len(stream)]
    BY <1>1, <1>2, <2>1, PacketFacts DEF IInv
  <2>3. \A i \in (Len(stream) + 1)..(Len(stream) + n) : i - Len(stream) \in 1..n
    BY <1>2, <2>2
  <2> QED BY <1>5, <2>2, <2>3
<1>7. SendInv'
  BY <1>1, <1>2, <1>4 DEF SendInv
<1>8. WireInv'
  <2> SUFFICES ASSUME receiver \in {"first", "rest"}
               PROVE  /\ \A i \in 1..Len(stream') : stream'[i] = Byte(Got + i - Skip)
                      /\ Got + Len(stream') = Skip + pos'
                      /\ Got + Len(stream') <= Skip + Length
    BY <1>1, <1>4 DEF WireInv, receivers
  <2>1. Got + Len(stream) = Skip + pos /\ Got \in Int
    BY <1>1, <1>2 DEF IInv, WireInv, Got, TypeOK
  <2>2. ASSUME NEW i \in 1..Len(stream') PROVE stream'[i] = Byte(Got + i - Skip)
    <3>1. i \in Int /\ 1 <= i /\ i <= Len(stream) + n
      BY <1>2, <1>6
    <3>2. CASE i <= Len(stream)
      <4>1. i \in 1..Len(stream)
        BY <1>6, <3>1, <3>2
      <4> QED BY <1>6, <4>1 DEF IInv, WireInv
    <3>3. CASE ~(i <= Len(stream))
      <4>1. i \in (Len(stream) + 1)..(Len(stream) + n)
        BY <1>2, <1>6, <3>1, <3>3
      <4>2. PICK x \in Int, y \in Nat, g \in Int : x = i /\ y = Len(stream) /\ g = Got
        BY <1>6, <2>1, <3>1
      <4>3. g + y = Skip + pos
        BY <2>1, <4>2
      <4>4. pos + (x - y) = g + x - Skip
        BY <1>2, <4>3
      <4>5. stream'[i] = Byte(pos + (x - y))
        BY <1>6, <4>1, <4>2
      <4> QED BY <4>2, <4>4, <4>5
    <3> QED BY <3>2, <3>3
  <2>3. PICK g \in Int, l \in Nat : g = Got /\ l = Len(stream)
    BY <1>6, <2>1
  <2>4. /\ n \in Nat /\ pos \in Int /\ Skip \in Nat /\ Length \in Nat /\ pos + n <= Length
        /\ pos' = pos + n
    BY <1>1, <1>2, <1>3
  <2>5. g + l = Skip + pos /\ Len(stream') = l + n
    BY <1>6, <2>1, <2>3
  <2>6. g + (l + n) = Skip + (pos + n) /\ g + (l + n) <= Skip + Length
    BY <2>3, <2>4, <2>5
  <2> QED BY <2>2, <2>3, <2>4, <2>5, <2>6, Zenon
<1>9. RecvInv' /\ StaysInBuffer'
  BY <1>1, <1>4 DEF IInv, RecvInv, StaysInBuffer, receivers
<1> QED BY <1>7, <1>8, <1>9 DEF IInv

\* The sender ends, as it should or by its death.
LEMMA SenderGoneInv ==
  ASSUME IInv, TypeOK', SendEnds \/ Die
  PROVE  IInv'
<1>1. /\ sender' \in {"sent", "dead", "reset"} /\ stream' \in {stream, <<>>}
      /\ UNCHANGED <<message, receivers>>
  BY DEF SendEnds, Die
<1>2. UNCHANGED <<Length, Skip, Room>> /\ (\A i : Byte(i)' = Byte(i)) /\ Got' = Got
  BY <1>1, MessageKept DEF Got, receivers
<1>3. Len(stream) \in Nat /\ Len(<<>>) = 0 /\ Got \in Int /\ SendSize \in Nat /\ Skip \in Nat /\ Length \in Nat
  <2>1. Length \in Nat /\ Skip \in Nat /\ SendSize \in Nat
    BY Sizes DEF IInv
  <2>2. Got \in Int
    BY <2>1 DEF IInv, TypeOK, Got
  <2> QED BY <2>1, <2>2, EmptySeq, LenProperties DEF IInv, TypeOK
<1>4. SendInv'
  BY <1>1 DEF SendInv
<1>5. WireInv'
  <2>1. CASE stream' = stream
    BY <1>1, <1>2, <2>1 DEF IInv, WireInv, receivers
  <2>2. CASE stream' = <<>>
    BY <1>1, <1>2, <1>3, <2>2 DEF IInv, WireInv, receivers
  <2> QED BY <1>1, <2>1, <2>2
<1>6. RecvInv' /\ StaysInBuffer'
  BY <1>1, <1>2 DEF IInv, RecvInv, StaysInBuffer, receivers
<1> QED BY <1>4, <1>5, <1>6 DEF IInv

-----------------------------------------------------------------------------
(* The receiver.                                                           *)

\* The first read counts its bytes, and keeps those of the message.
LEMMA FirstReadInv ==
  ASSUME Fits, IInv, TypeOK', NEW k \in 1..SendSize, FirstRead(k)
  PROVE  IInv'
<1>1. /\ receiver = "first" /\ receiver' = "rest" /\ UNCHANGED <<message, senders>>
      /\ k \in FirstReads /\ k <= Len(stream) /\ Drop(k)
      /\ bytesleft' = Left(k) /\ bytesread' = k
      /\ ret_buf' = SubSeq(stream, Skip + 1, Skip + Kept(k))
  BY DEF FirstRead, Skip
<1>2. /\ Length \in Nat /\ Skip \in Nat /\ SendSize \in Nat /\ k \in Nat /\ k <= SendSize /\ Skip <= k
      /\ Kept(k) \in 0..(k - Skip)
      /\ Kept(k) = k - Skip \/ (Kept(k) = Length /\ Length <= k - Skip)
      /\ message.kind # "file" => Kept(k) <= Length
  BY <1>1, Sizes, KeptFacts DEF IInv
<1>3. Len(stream) \in Nat /\ Len(stream) > 0 /\ stream \in Seq(Nat)
  BY <1>1, <1>2, LenProperties DEF IInv, TypeOK
<1>4. UNCHANGED <<Length, Skip, Room>> /\ \A i : Byte(i)' = Byte(i)
  BY <1>1, MessageKept
<1>5. /\ stream' \in Seq(Nat) /\ Len(stream') = Len(stream) - k
      /\ \A i \in 1..Len(stream') : stream'[i] = stream[k + i]
  BY <1>1, <1>2, DropFacts DEF IInv
<1>6. Got = 0 /\ \A i \in 1..Len(stream) : stream[i] = Byte(i - Skip)
  BY <1>1, <1>2, <1>3 DEF Got, IInv, WireInv
<1>7. Got' = k /\ (Length = 0 => bytesleft' = 0)
  <2>1. CASE Length = 0
    BY <1>1, <1>4, <2>1 DEF Got, Left, Length
  <2>2. CASE Length # 0
    <3>1. Length < IntLimit /\ SendSize <= IntLimit /\ IntLimit \in Nat
      BY <1>2, Sizes, FramingAssumption DEF Fits, IInv
    <3>2. Length + Skip - k \in (-IntLimit)..(IntLimit - 1)
      BY <1>2, <3>1
    <3>3. AsInt(Length + Skip - k) = Length + Skip - k
      BY <3>2, AsIntFacts
    <3>4. bytesleft' = Length + Skip - k
      BY <1>1, <2>2, <3>3 DEF Left, Length, Skip
    <3> QED BY <1>1, <1>2, <1>4, <2>2, <3>4 DEF Got
  <2> QED BY <2>1, <2>2
<1>8. Len(ret_buf') = Kept(k) /\ \A i \in 1..Kept(k) : ret_buf'[i] = Byte(i)
  <2>1. PICK n \in Nat : n = Kept(k) /\ Skip + n <= Len(stream) /\ Skip + n \in Nat
    BY <1>1, <1>2, <1>3
  <2>2. \A i \in (Skip + 1)..(Skip + n) : i \in 1..Len(stream) /\ stream[i] \in Nat
    BY <1>2, <1>3, <2>1, ElementOfSeq
  <2>3. /\ Len(SubSeq(stream, Skip + 1, Skip + n)) = n
        /\ \A i \in 1..n : SubSeq(stream, Skip + 1, Skip + n)[i] = stream[Skip + i]
    <3>1. Skip + 1 \in Int /\ Skip + n \in Int
      BY <1>2, <2>1
    <3>2. /\ Len(SubSeq(stream, Skip + 1, Skip + n)) =
               IF Skip + 1 <= Skip + n THEN (Skip + n) - (Skip + 1) + 1 ELSE 0
          /\ \A i \in 1..((Skip + n) - (Skip + 1) + 1) :
               SubSeq(stream, Skip + 1, Skip + n)[i] = stream[(Skip + 1) + i - 1]
      BY <2>2, <3>1, SubSeqProperties
    <3> QED BY <1>2, <2>1, <3>2
  <2>4. \A i \in 1..n : Skip + i \in 1..Len(stream) /\ (Skip + i) - Skip = i
    BY <1>2, <1>3, <2>1
  <2> QED BY <1>1, <1>6, <2>1, <2>3, <2>4
<1>9. SendInv'
  <2>1. sender \notin {"create", "first"}
    BY <1>3, EmptySeq DEF IInv, SendInv
  <2> QED BY <1>1, <1>4, <2>1 DEF IInv, SendInv, senders
<1>10. WireInv'
  <2>1. \A i \in 1..Len(stream') : k + i \in 1..Len(stream)
    BY <1>1, <1>2, <1>3, <1>5
  <2>2. \A i \in 1..Len(stream') : stream'[i] = Byte(k + i - Skip)
    <3> SUFFICES ASSUME NEW i \in 1..Len(stream') PROVE stream'[i] = Byte(k + i - Skip)
      OBVIOUS
    <3>1. PICK j \in 1..Len(stream) : j = k + i
      BY <2>1
    <3>2. stream'[i] = stream[j]
      BY <1>5, <3>1
    <3>3. stream[j] = Byte(j - Skip)
      BY <1>6
    <3>4. j - Skip = k + i - Skip
      BY <1>2, <1>3, <1>5, <3>1
    <3> QED BY <3>2, <3>3, <3>4, Zenon
  <2>3. sender = "rest" => k + Len(stream') = Skip + pos
    BY <1>1, <1>2, <1>3, <1>5, <1>6 DEF IInv, WireInv
  <2>4. k + Len(stream') <= SendSize \/ k + Len(stream') <= Skip + Length
    BY <1>1, <1>2, <1>3, <1>5, <1>6 DEF IInv, WireInv
  <2> QED BY <1>1, <1>4, <1>7, <2>2, <2>3, <2>4 DEF WireInv, senders
<1>11. RecvInv'
  <2>1. \A i \in 1..Len(ret_buf') : ret_buf'[i] = Byte(i)
    BY <1>8
  <2>2. /\ bytesread' <= Got' /\ Skip <= Got'
        /\ Len(ret_buf') = Got' - Skip \/ (Len(ret_buf') = Length /\ Length <= Got' - Skip)
    BY <1>1, <1>2, <1>7, <1>8, SMTT(30)
  <2> QED BY <1>1, <1>4, <1>7, <2>1, <2>2 DEF RecvInv
<1>12. StaysInBuffer'
  BY <1>1, <1>2, <1>8 DEF StaysInBuffer, Length
<1> QED BY <1>9, <1>10, <1>11, <1>12 DEF IInv

\* A later read goes on where the last one ended.
LEMMA NextReadInv ==
  ASSUME IInv, TypeOK', NEW k \in 1..SendSize, NextRead(k)
  PROVE  IInv'
<1>1. /\ receiver = "rest" /\ UNCHANGED <<message, senders, receiver, bytesread>>
      /\ bytesleft > 0 /\ k \in 1..Least(SendSize, Len(stream)) /\ Drop(k)
      /\ ret_buf' = ret_buf \o First(k) /\ bytesleft' = bytesleft - k
  BY DEF NextRead
<1>2. /\ Length \in Nat /\ Skip \in Nat /\ SendSize \in Nat /\ Len(stream) \in Nat /\ Len(ret_buf) \in Nat
      /\ stream \in Seq(Nat) /\ ret_buf \in Seq(Nat) /\ bytesleft \in Int /\ bytesread \in Nat
  BY Sizes, LenProperties DEF IInv, TypeOK
<1>3. k \in Nat /\ k <= Len(stream) /\ k > 0
  BY <1>1, <1>2 DEF Least
<1>4. UNCHANGED <<Length, Skip, Room>> /\ \A i : Byte(i)' = Byte(i)
  BY <1>1, MessageKept
<1>5. /\ stream' \in Seq(Nat) /\ Len(stream') = Len(stream) - k
      /\ \A i \in 1..Len(stream') : stream'[i] = stream[k + i]
  BY <1>1, <1>3, DropFacts DEF IInv
<1>6. Length # 0 /\ Got = Length + Skip - bytesleft
  BY <1>1 DEF IInv, RecvInv, Got
<1>7. Got' = Got + k
  BY <1>1, <1>2, <1>3, <1>4, <1>6 DEF Got
<1>8. PICK g \in Int : g = Got /\ g < Length + Skip
  BY <1>1, <1>2, <1>6
<1>9. Len(ret_buf) = g - Skip /\ bytesread <= g /\ Skip <= g
  BY <1>1, <1>2, <1>8 DEF IInv, RecvInv
<1>10. /\ \A i \in 1..Len(stream) : stream[i] = Byte(g + i - Skip)
       /\ sender = "rest" => g + Len(stream) = Skip + pos
       /\ g + Len(stream) <= SendSize \/ g + Len(stream) <= Skip + Length
  BY <1>1, <1>8 DEF IInv, WireInv
<1>11. /\ Len(ret_buf') = Len(ret_buf) + k
       /\ \A i \in 1..Len(ret_buf') : ret_buf'[i] = Byte(i)
  <2>1. /\ First(k) \in Seq(Nat) /\ Len(First(k)) = k
        /\ \A i \in 1..k : First(k)[i] = stream[i]
    <3>1. k \in 0..Len(stream)
      BY <1>2, <1>3
    <3> QED BY <1>2, <3>1, Prefix DEF First
  <2>2. /\ Len(ret_buf') = Len(ret_buf) + k
        /\ \A i \in 1..(Len(ret_buf) + k) :
             ret_buf'[i] = IF i <= Len(ret_buf) THEN ret_buf[i] ELSE First(k)[i - Len(ret_buf)]
    <3>1. /\ Len(ret_buf \o First(k)) = Len(ret_buf) + Len(First(k))
          /\ \A i \in 1..(Len(ret_buf) + Len(First(k))) :
               (ret_buf \o First(k))[i] =
                 IF i <= Len(ret_buf) THEN ret_buf[i] ELSE First(k)[i - Len(ret_buf)]
      BY <1>2, <2>1, ConcatProperties
    <3> QED BY <1>1, <2>1, <3>1
  <2>3. ASSUME NEW i \in 1..(Len(ret_buf) + k) PROVE ret_buf'[i] = Byte(i)
    <3>1. CASE i <= Len(ret_buf)
      <4>1. i \in 1..Len(ret_buf)
        BY <1>2, <1>3, <3>1
      <4> QED BY <2>2, <3>1, <4>1 DEF IInv, RecvInv
    <3>2. CASE ~(i <= Len(ret_buf))
      <4>1. PICK x \in Nat, n \in Nat : x = i /\ n = Len(ret_buf) /\ n = g - Skip /\ x > n /\ x <= n + k
        BY <1>2, <1>3, <1>9, <3>2
      <4>2. x - n \in 1..k /\ x - n \in 1..Len(stream)
        BY <1>2, <1>3, <4>1
      <4>3. g + (x - n) - Skip = x
        BY <1>2, <1>8, <4>1
      <4>4. ret_buf'[i] = First(k)[x - n]
        BY <2>2, <3>2, <4>1
      <4> QED BY <1>10, <2>1, <4>1, <4>2, <4>3, <4>4
    <3> QED BY <3>1, <3>2
  <2> QED BY <2>2, <2>3
<1>12. SendInv'
  <2>1. sender \notin {"create", "first"}
    BY <1>1 DEF IInv, SendInv
  <2> QED BY <1>1, <1>4, <2>1 DEF IInv, SendInv, senders
<1>13. WireInv'
  <2>1. \A i \in 1..Len(stream') : k + i \in 1..Len(stream) /\ g + (k + i) - Skip = (g + k) + i - Skip
    BY <1>2, <1>3, <1>5, <1>8
  <2>2. \A i \in 1..Len(stream') : stream'[i] = Byte((g + k) + i - Skip)
    BY <1>5, <1>10, <2>1
  <2>3. sender = "rest" => (g + k) + Len(stream') = Skip + pos
    BY <1>2, <1>3, <1>5, <1>8, <1>10
  <2>4. (g + k) + Len(stream') <= SendSize \/ (g + k) + Len(stream') <= Skip + Length
    BY <1>2, <1>3, <1>5, <1>8, <1>10
  <2> QED BY <1>1, <1>4, <1>7, <1>8, <2>2, <2>3, <2>4 DEF WireInv, senders
<1>14. RecvInv'
  <2>1. bytesread <= g + k /\ Skip <= g + k /\ Len(ret_buf) + k = (g + k) - Skip
    BY <1>2, <1>3, <1>8, <1>9
  <2> QED BY <1>1, <1>4, <1>6, <1>7, <1>8, <1>11, <2>1 DEF RecvInv
<1>15. StaysInBuffer'
  <2> SUFFICES ASSUME message.kind # "file", ~(Len(ret_buf') <= Length)
               PROVE  bytesread < SendSize /\ Len(ret_buf') <= SendSize - UpdateHeader
    BY <1>1 DEF StaysInBuffer, Length
  <2>1. Skip = UpdateHeader
    BY Sizes DEF IInv
  <2>2. (g + k) - Skip > Length
    BY <1>2, <1>8, <1>9, <1>11
  <2>3. g + k <= SendSize
    BY <1>2, <1>3, <1>8, <1>10, <2>2
  <2> QED BY <1>2, <1>3, <1>8, <1>9, <1>11, <2>1, <2>3
<1> QED BY <1>12, <1>13, <1>14, <1>15 DEF IInv

\* The receiver ends: with the message, or with none.
LEMMA ReceiverGoneInv ==
  ASSUME IInv, TypeOK', RecvEnds \/ RecvFails \/ NoMessage \/ (\E k \in 1..SendSize : CannotStore(k))
  PROVE  IInv'
<1>1. /\ UNCHANGED <<message, senders, bytesleft, ret_buf, bytesread>>
      /\ receiver' \in {"received", "null", "failed"}
      /\ receiver' = "received" => receiver = "rest" /\ bytesleft <= 0
      /\ receiver' # "received" => receiver \in {"first", "rest"}
      /\ receiver \in {"first", "rest"}
      /\ sender \notin {"create", "first"}
  <2>1. CASE RecvEnds \/ RecvFails \/ NoMessage
    BY <2>1 DEF RecvEnds, RecvFails, NoMessage, IInv, SendInv
  <2>2. ASSUME NEW k \in 1..SendSize, CannotStore(k) PROVE sender \notin {"create", "first"}
    <3>1. k \in Nat /\ k > 0 /\ k <= Len(stream)
      BY <2>2, Sizes DEF CannotStore, IInv
    <3> QED BY <3>1, EmptySeq DEF IInv, SendInv
  <2> QED BY <2>1, <2>2 DEF CannotStore
<1>2. UNCHANGED <<Length, Skip, Room>> /\ \A i : Byte(i)' = Byte(i)
  BY <1>1, MessageKept
<1>3. SendInv'
  BY <1>1, <1>2 DEF IInv, SendInv, senders
<1>4. WireInv'
  BY <1>1 DEF WireInv
<1>5. RecvInv'
  <2>1. receiver' = "received" => Got' = Got
    BY <1>1, <1>2 DEF Got
  <2> QED BY <1>1, <1>2, <2>1 DEF IInv, RecvInv
<1>6. StaysInBuffer'
  BY <1>1 DEF IInv, StaysInBuffer
<1> QED BY <1>3, <1>4, <1>5, <1>6 DEF IInv

-----------------------------------------------------------------------------
(* The invariant, and the theorems.                                        *)

LEMMA InitInv == Init => IInv
<1> SUFFICES ASSUME Init PROVE IInv
  OBVIOUS
<1>1. TypeOK
  BY InitType
<1>2. Length \in Nat /\ SendSize \in Nat /\ Len(<<>>) = 0
  BY <1>1, Sizes, EmptySeq
<1>3. Got = 0
  BY DEF Init, Got
<1>4. SendInv /\ RecvInv
  BY <1>2 DEF Init, SendInv, RecvInv
<1>5. WireInv
  BY <1>2, <1>3 DEF Init, WireInv
<1>6. StaysInBuffer
  BY <1>2 DEF Init, StaysInBuffer, Length
<1> QED BY <1>1, <1>4, <1>5, <1>6 DEF IInv

LEMMA InvStep ==
  ASSUME Fits, IInv, [Next]_vars
  PROVE  IInv'
<1>1. TypeOK'
  BY TypeStep DEF IInv
<1>2. CASE UNCHANGED vars
  <2>1. UNCHANGED <<message, senders, stream, receivers>>
    BY <1>2 DEF vars, senders, receivers
  <2>2. UNCHANGED <<Length, Skip, Room>> /\ (\A i : Byte(i)' = Byte(i)) /\ Got' = Got
    BY <2>1, MessageKept DEF Got, receivers
  <2>3. SendInv' /\ WireInv'
    BY <2>1, <2>2 DEF IInv, SendInv, WireInv, senders, receivers
  <2>4. RecvInv' /\ StaysInBuffer'
    BY <2>1, <2>2 DEF IInv, RecvInv, StaysInBuffer, receivers
  <2> QED BY <1>1, <2>3, <2>4 DEF IInv
<1>3. CASE Next
  BY <1>1, <1>3, CreateInv, FirstPacketInv, NextPacketInv, SenderGoneInv,
     FirstReadInv, NextReadInv, ReceiverGoneInv
  DEF Next, send_msg, recv_msg
<1> QED BY <1>2, <1>3

\* Where the numbers have room, the invariant holds in every state.
THEOREM Invariance == Fits => (Spec => []IInv)
<1> SUFFICES ASSUME Fits PROVE Spec => []IInv
  OBVIOUS
<1>1. IInv /\ [Next]_vars => IInv'
  BY InvStep
<1> QED BY <1>1, InitInv, PTL DEF Spec

\* What is received is long enough, and the message.
LEMMA Whole ==
  ASSUME IInv, receiver = "received"
  PROVE  /\ Length \in Nat /\ ret_buf \in Seq(Nat) /\ Len(ret_buf) \in Nat /\ Length <= Len(ret_buf)
         /\ \A i \in 1..Length : ret_buf[i] = i
<1>1. Length \in Nat /\ Skip \in Nat /\ ret_buf \in Seq(Nat) /\ Len(ret_buf) \in Nat /\ bytesleft \in Int
  BY Sizes, LenProperties DEF IInv, TypeOK
<1>2. bytesleft <= 0 /\ (Length # 0 => Got = Length + Skip - bytesleft)
  BY DEF IInv, RecvInv, Got
<1>3. Length <= Len(ret_buf)
  BY <1>1, <1>2 DEF IInv, RecvInv
<1>4. \A i \in 1..Length : ret_buf[i] = i
  BY <1>1, <1>3 DEF IInv, RecvInv, Byte, Length
<1> QED BY <1>1, <1>3, <1>4

LEMMA WholeIsDelivered == IInv => Delivered
<1> SUFFICES ASSUME IInv, receiver = "received", NEW i \in 1..message.size
             PROVE  i \in DOMAIN ret_buf /\ ret_buf[i] = i
  BY DEF Delivered
<1>1. i \in 1..Length /\ DOMAIN ret_buf = 1..Len(ret_buf)
  BY Whole, LenProperties DEF Length
<1> QED BY <1>1, Whole

\* "Successfully read entire message": every byte of a received message is the one
\* that was sent, however sends and reads cut the stream.
THEOREM EveryByte == Fits => (Spec => []Delivered)
<1> SUFFICES ASSUME Fits PROVE Spec => []Delivered
  OBVIOUS
<1>1. IInv => Delivered
  BY WholeIsDelivered
<1> QED BY <1>1, Invariance, PTL

\* The buffer of an update is not overrun, but by the padding of a packet that
\* comes in pieces.
THEOREM NoOverrun == Fits => (Spec => []StaysInBuffer)
<1> SUFFICES ASSUME Fits PROVE Spec => []StaysInBuffer
  OBVIOUS
<1>1. IInv => StaysInBuffer
  BY DEF IInv
<1> QED BY <1>1, Invariance, PTL

\* A piece of what is received is that piece of the message.
LEMMA Piece ==
  ASSUME IInv, receiver = "received", NEW a \in Nat, NEW b \in Nat, a <= b, b <= Length
  PROVE  SubSeq(ret_buf, a + 1, b) = [j \in 1..(b - a) |-> a + j]
<1>1. \A i \in (a + 1)..b : i \in 1..Len(ret_buf) /\ i \in 1..Length /\ ret_buf[i] \in Nat
  BY Whole, ElementOfSeq
<1>2. /\ SubSeq(ret_buf, a + 1, b) \in Seq(Nat)
      /\ Len(SubSeq(ret_buf, a + 1, b)) = b - a
      /\ \A j \in 1..(b - a) : SubSeq(ret_buf, a + 1, b)[j] = ret_buf[(a + 1) + j - 1]
  <2>1. a + 1 \in Int /\ b \in Int /\ b - (a + 1) + 1 = b - a
    BY Z3
  <2>2. /\ SubSeq(ret_buf, a + 1, b) \in Seq(Nat)
        /\ Len(SubSeq(ret_buf, a + 1, b)) = IF a + 1 <= b THEN b - (a + 1) + 1 ELSE 0
        /\ \A j \in 1..(b - (a + 1) + 1) : SubSeq(ret_buf, a + 1, b)[j] = ret_buf[(a + 1) + j - 1]
    BY <1>1, <2>1, SubSeqProperties
  <2> QED BY <2>1, <2>2
<1>3. \A j \in 1..(b - a) : (a + 1) + j - 1 = a + j /\ a + j \in 1..Length
  BY Whole
<1>4. \A j \in 1..(b - a) : SubSeq(ret_buf, a + 1, b)[j] = a + j
  BY <1>2, <1>3, Whole
<1>5. SubSeq(ret_buf, a + 1, b) \in [1..(b - a) -> Nat]
  BY <1>2, LenProperties
<1> QED BY <1>4, <1>5

\* Where create_message puts a field is where parse_message looks for it, and there
\* are as many bytes as the field has.
LEMMA Layout ==
  ASSUME TypeOK, message.kind # "file", NEW i \in DOMAIN created[message.kind]
  PROVE  /\ i \in {1, 2, 3}
         /\ parsed[message.kind][created[message.kind][i]] = i - 1
         /\ created[message.kind][i] # "name" => i * IntSize <= Length
         /\ created[message.kind][i] = "name" => (i - 1) * IntSize <= Length
<1>1. message \in Updates /\ IntSize \in Nat /\ Length \in Nat
  BY Sizes, FramingAssumption DEF TypeOK, Messages
<1>2. message.kind \in {"empty", "conn", "name", "name_conn", "id_conn", "id_name"}
  BY <1>1 DEF Updates, created
<1>9. LET fields == created[message.kind] IN
      IF \E j \in DOMAIN fields : fields[j] = "name" THEN Length >= IntSize * (Len(fields) - 1)
      ELSE Length = IntSize * Len(fields)
  BY <1>1 DEF Updates, Length
<1>3. CASE message.kind = "empty"
  BY <1>3 DEF created
<1>4. CASE message.kind = "conn"
  <2>1. created[message.kind] = <<"addr", "port">> /\ parsed[message.kind] = [addr |-> 0, port |-> 1]
    BY <1>4 DEF created, parsed
  <2>2. DOMAIN <<"addr", "port">> = {1, 2} /\ Len(<<"addr", "port">>) = 2
    OBVIOUS
  <2>3. Length = IntSize * 2
    BY <1>1, <1>9, <2>1, <2>2
  <2> QED BY <1>1, <2>1, <2>2, <2>3
<1>5. CASE message.kind = "name"
  BY <1>1, <1>5 DEF Updates, created, parsed, Length
<1>6. CASE message.kind = "name_conn"
  <2>1. created[message.kind] = <<"addr", "port", "name">> /\ parsed[message.kind] = [addr |-> 0, port |-> 1, name |-> 2]
    BY <1>6 DEF created, parsed
  <2>2. DOMAIN <<"addr", "port", "name">> = {1, 2, 3} /\ Len(<<"addr", "port", "name">>) = 3
    OBVIOUS
  <2>3. Length >= IntSize * 2
    BY <1>1, <1>9, <2>1, <2>2
  <2> QED BY <1>1, <2>1, <2>2, <2>3
<1>7. CASE message.kind = "id_conn"
  <2>1. created[message.kind] = <<"id", "addr", "port">> /\ parsed[message.kind] = [id |-> 0, addr |-> 1, port |-> 2]
    BY <1>7 DEF created, parsed
  <2>2. DOMAIN <<"id", "addr", "port">> = {1, 2, 3} /\ Len(<<"id", "addr", "port">>) = 3
    OBVIOUS
  <2>3. Length = IntSize * 3
    BY <1>1, <1>9, <2>1, <2>2
  <2> QED BY <1>1, <2>1, <2>2, <2>3
<1>8. CASE message.kind = "id_name"
  BY <1>1, <1>8 DEF Updates, created, parsed, Length
<1> QED BY <1>2, <1>3, <1>4, <1>5, <1>6, <1>7, <1>8

LEMMA WholeIsUnderstood == IInv => Understood
<1> SUFFICES ASSUME IInv, receiver = "received", message.kind # "file",
                    NEW i \in DOMAIN created[message.kind]
             PROVE  LET got == Field(created[message.kind][i], i - 1) IN
                    /\ created[message.kind][i] # "name" =>
                         got = [j \in 1..IntSize |-> (i - 1) * IntSize + j]
                    /\ created[message.kind][i] = "name" =>
                         got = [j \in 1..(message.size - (i - 1) * IntSize) |-> (i - 1) * IntSize + j]
  BY Layout DEF Understood, IInv
<1>1. i \in {1, 2, 3} /\ IntSize \in Nat /\ Length \in Nat
  BY Layout, Whole, FramingAssumption DEF IInv
<1>2. PICK a \in Nat, b \in Nat : a = (i - 1) * IntSize /\ b = i * IntSize /\ b = a + IntSize
  BY <1>1
<1>3. (i - 1) + 1 = i
  BY <1>1
<1>4. CASE created[message.kind][i] # "name"
  <2>1. a <= b /\ b <= Length /\ b - a = IntSize
    BY <1>1, <1>2, <1>4, Layout DEF IInv
  <2>2. SubSeq(ret_buf, a + 1, b) = [j \in 1..IntSize |-> a + j]
    BY <2>1, Piece
  <2> QED BY <1>2, <1>3, <1>4, <2>2 DEF Field
<1>5. CASE created[message.kind][i] = "name"
  <2>1. a <= Length
    BY <1>2, <1>5, Layout DEF IInv
  <2>2. SubSeq(ret_buf, a + 1, Length) = [j \in 1..(Length - a) |-> a + j]
    BY <1>1, <2>1, Piece
  <2> QED BY <1>2, <1>5, <2>2 DEF Field, Length
<1> QED BY <1>4, <1>5

\* What the handler of a message parses is, field by field, what its sender put there.
THEOREM FieldByField == Fits => (Spec => []Understood)
<1> SUFFICES ASSUME Fits PROVE Spec => []Understood
  OBVIOUS
<1>1. IInv => Understood
  BY WholeIsUnderstood
<1> QED BY <1>1, Invariance, PTL
=============================================================================
