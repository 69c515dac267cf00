------------------------------ MODULE Framing ------------------------------
(***************************************************************************)
(* One message over one connection: src/src/comms.c, with the layouts of   *)
(* src/src/messages.cpp.                                                   *)
(*                                                                         *)
(* A message is an update (a request or an answer, whose fields are put    *)
(* one after the other) or a file.  Its first packet always has SendSize   *)
(* bytes: the header, the beginning of the message, and zeros if there is  *)
(* room left.  The rest follows unpadded.  TCP keeps the order of the      *)
(* bytes and no other boundary: sends after the first may be partial, and  *)
(* reads of any length, of which the first has at least the header.        *)
(*                                                                         *)
(* A byte is the position it has in the message, or 0; the headers' own    *)
(* contents are left out, as the receiver reads them at once.              *)
(***************************************************************************)
EXTENDS Integers, Sequences

CONSTANTS
  SendSize,       \* SENDSIZE, 1024 in the code
  UpdateHeader,   \* sizeof(int) + sizeof(size_t), 12 in the code
  FileHeader,     \* 256 in the code
  IntSize,        \* sizeof(int)
  MaxUpdate,      \* bound: the longest update message
  MaxFile,        \* bound: the longest file
  IntLimit,       \* 2^31 in the code: an int is below it
  FirstReads,     \* what the first recv of a packet may return
  SenderMayDie,
  StorageMayFail  \* open, ftruncate, mmap or malloc of the receiver may fail

ASSUME FramingAssumption ==
  /\ SendSize \in Nat /\ UpdateHeader \in Nat /\ FileHeader \in Nat
  /\ UpdateHeader <= FileHeader /\ FileHeader < SendSize
  /\ IntSize \in Nat \ {0}
  /\ MaxUpdate \in Nat /\ MaxFile \in Nat /\ IntLimit \in Nat \ {0} /\ SendSize <= IntLimit
  /\ FirstReads \subseteq FileHeader..SendSize
  /\ SenderMayDie \in BOOLEAN /\ StorageMayFail \in BOOLEAN

-----------------------------------------------------------------------------
(* Layouts of update messages.                                             *)

\* create_message: the fields in the order in which they are put; a name goes
\* on to the end, the others have the size of an int.
created ==
  [empty |-> <<>>, conn |-> <<"addr", "port">>, name |-> <<"name">>,
   name_conn |-> <<"addr", "port", "name">>, id_conn |-> <<"id", "addr", "port">>,
   id_name |-> <<"id", "name">>]

\* Mutant: the name is looked for before the address.
parsed_name_first ==
  [empty |-> <<>>, conn |-> [addr |-> 0, port |-> 1], name |-> [name |-> 0],
   name_conn |-> [name |-> 0, addr |-> 0, port |-> 1],
   id_conn |-> [id |-> 0, addr |-> 1, port |-> 2], id_name |-> [id |-> 0, name |-> 1]]

\* parse_message: how many ints come before each field.
parsed ==
  [empty |-> <<>>, conn |-> [addr |-> 0, port |-> 1], name |-> [name |-> 0],
   name_conn |-> [addr |-> 0, port |-> 1, name |-> 2],
   id_conn |-> [id |-> 0, addr |-> 1, port |-> 2], id_name |-> [id |-> 0, name |-> 1]]

Updates ==
  {m \in [kind : DOMAIN created, size : 0..MaxUpdate] :
     LET fields == created[m.kind] IN
     IF \E i \in DOMAIN fields : fields[i] = "name" THEN m.size >= IntSize * (Len(fields) - 1)
     ELSE m.size = IntSize * Len(fields)}

Messages == Updates \cup [kind : {"file"}, size : 0..MaxFile]

Header(kind) == IF kind = "file" THEN FileHeader ELSE UpdateHeader

\* What an int holds after an assignment of x.
AsInt(x) == ((x + IntLimit) % (2 * IntLimit)) - IntLimit

Least(a, b) == IF a < b THEN a ELSE b

VARIABLES
  message,      \* what is sent
  sender,       \* where send_msg is
  bytestosend,
  pos,          \* bufpos: the bytes of the message passed by
  bufferroom,
  stream,       \* the bytes in the connection
  receiver,     \* where recv_msg is
  bytesleft,
  ret_buf,      \* the bytes copied
  bytesread     \* by the first recv

vars == <<message, sender, bytestosend, pos, bufferroom, stream, receiver, bytesleft, ret_buf, bytesread>>
senders == <<sender, bytestosend, pos, bufferroom>>
receivers == <<receiver, bytesleft, ret_buf, bytesread>>

Init ==
  /\ message \in Messages
  /\ sender = "create" /\ bytestosend = 0 /\ pos = 0 /\ bufferroom = 0
  /\ stream = <<>>
  /\ receiver = "first" /\ bytesleft = 0 /\ ret_buf = <<>> /\ bytesread = 0

-----------------------------------------------------------------------------
(* The sender.                                                             *)

\* createupdt_msg copies the text; createfile_msg maps the file, and a file of
\* no bytes cannot be mapped: the caller sends STATUS_BAD instead, without text.
create_message ==
  /\ sender = "create"
  /\ message' = IF message = [kind |-> "file", size |-> 0]
                THEN [kind |-> "empty", size |-> 0] ELSE message
  /\ sender' = "first"
  /\ UNCHANGED <<bytestosend, pos, bufferroom, stream, receivers>>

\* The byte of the message at a position, or a zero of the buffer after it.
Byte(i) == IF i \in 1..message.size THEN i ELSE 0

\* The first packet: header and beginning of the message.
FirstPacket ==
  LET room == SendSize - Header(message.kind) IN
  /\ sender = "first"
  /\ stream' = stream \o [i \in 1..SendSize |-> Byte(i - Header(message.kind))]
  /\ bytestosend' = message.size - room
  /\ pos' = room
  /\ bufferroom' = room
  /\ sender' = "rest"
  /\ UNCHANGED <<message, receivers>>

\* sendupdt_msg copies bufferroom bytes of the message into a buffer of zeros,
\* sendfile_msg as many as it sends.
copied(i) ==
  IF message.kind = "file" \/ i <= bufferroom THEN Byte(pos + i) ELSE 0

\* The loop: what send took of a packet.
NextPacket(sent) ==
  /\ sender = "rest"
  /\ bytestosend > 0
  /\ sent \in 1..Least(SendSize, bytestosend)
  /\ stream' = stream \o [i \in 1..sent |-> copied(i)]
  /\ bytestosend' = bytestosend - sent
  /\ pos' = pos + sent
  /\ bufferroom' = SendSize
  /\ UNCHANGED <<message, sender, receivers>>

\* send_msg returns, and the connection is closed.
SendEnds ==
  /\ sender = "rest"
  /\ bytestosend <= 0
  /\ sender' = "sent"
  /\ UNCHANGED <<message, bytestosend, pos, bufferroom, stream, receivers>>

\* The process of the sender ends, by itself or by SIGPIPE when the receiver
\* has closed: what is in the connection still arrives, or is reset.
Die ==
  /\ SenderMayDie \/ receiver = "failed"
  /\ sender \in {"first", "rest"}
  /\ \/ sender' = "dead" /\ UNCHANGED stream
     \/ sender' = "reset" /\ stream' = <<>>
  /\ UNCHANGED <<message, bytestosend, pos, bufferroom, receivers>>

-----------------------------------------------------------------------------
(* The receiver.                                                           *)

First(k) == SubSeq(stream, 1, k)
Drop(k) == stream' = SubSeq(stream, k + 1, Len(stream))

\* recv_msg: the connection ends before any byte has come.
NoMessage ==
  /\ receiver = "first"
  /\ stream = <<>>
  /\ sender = "dead"
  /\ receiver' = "null"
  /\ UNCHANGED <<message, senders, stream, bytesleft, ret_buf, bytesread>>

\* Mutant: one length for both headers.
BodyOfFile(k) == k - FileHeader

Body(k) == k - Header(message.kind)

\* Mutant: the first read is not counted, and a size_t holds the result.
LeftUncounted(k) == message.size + Header(message.kind)

\* A message without text is complete whatever has come.
Left(k) == IF message.size = 0 THEN 0 ELSE AsInt(message.size + Header(message.kind) - k)

\* Mutant: an update keeps the padding.
KeptPadded(k) == Body(k)

\* recvupdt_msg keeps no more than the message has, and recvfile_msg all: the
\* mapping goes on to the end of the page.
Kept(k) == IF message.kind = "file" THEN Body(k) ELSE Least(Body(k), message.size)

\* The first read.
FirstRead(k) ==
  /\ receiver = "first"
  /\ k \in FirstReads /\ k <= Len(stream)
  /\ Drop(k)
  /\ ret_buf' = SubSeq(stream, Header(message.kind) + 1, Header(message.kind) + Kept(k))
  /\ bytesleft' = Left(k)
  /\ bytesread' = k
  /\ receiver' = "rest"
  /\ UNCHANGED <<message, senders>>

\* The loop.  A read of zero bytes, when the sender is gone, changes nothing and
\* is tried again.
NextRead(k) ==
  /\ receiver = "rest"
  /\ bytesleft > 0
  /\ k \in 1..Least(SendSize, Len(stream))
  /\ Drop(k)
  /\ ret_buf' = ret_buf \o First(k)
  /\ bytesleft' = bytesleft - k
  /\ UNCHANGED <<message, senders, receiver, bytesread>>

RecvEnds ==
  /\ receiver = "rest"
  /\ bytesleft <= 0
  /\ receiver' = "received"
  /\ UNCHANGED <<message, senders, stream, bytesleft, ret_buf, bytesread>>

\* recv() fails, when the connection is reset: NULL_MSG.
RecvFails ==
  /\ sender = "reset"
  /\ receiver \in {"first", "rest"}
  /\ receiver = "rest" => bytesleft > 0
  /\ receiver' = "null"
  /\ UNCHANGED <<message, senders, stream, bytesleft, ret_buf, bytesread>>

\* Nowhere to put the message: NULL_MSG after the first read.
CannotStore(k) ==
  /\ StorageMayFail
  /\ receiver = "first"
  /\ message.size > 0
  /\ k \in FirstReads /\ k <= Len(stream)
  /\ Drop(k)
  /\ receiver' = "failed"
  /\ UNCHANGED <<message, senders, bytesleft, ret_buf, bytesread>>

send_msg == create_message \/ FirstPacket \/ (\E n \in 1..SendSize : NextPacket(n)) \/ SendEnds

recv_msg ==
  \/ \E k \in 1..SendSize : FirstRead(k) \/ NextRead(k) \/ CannotStore(k)
  \/ NoMessage \/ RecvFails \/ RecvEnds

Next == send_msg \/ Die \/ recv_msg

\* Both ends are threads, and TCP delivers.
Spec == Init /\ [][Next]_vars /\ WF_vars(send_msg) /\ WF_vars(recv_msg)

-----------------------------------------------------------------------------
(* Correctness.                                                            *)

\* Every variable keeps its type.
TypeOK ==
  /\ message \in Messages
  /\ sender \in {"create", "first", "rest", "sent", "dead", "reset"}
  /\ bytestosend \in Int
  /\ pos \in Nat
  /\ bufferroom \in 0..SendSize
  /\ stream \in Seq(Nat)
  /\ receiver \in {"first", "rest", "received", "null", "failed"}
  /\ bytesleft \in (-IntLimit)..(IntLimit - 1)
  /\ ret_buf \in Seq(Nat)
  /\ bytesread \in 0..SendSize

\* comms.c: "Successfully read entire message": when recv_msg returns a message,
\* each of its bytes is the one that was sent, however the stream was cut.
Delivered ==
  receiver = "received" =>
    \A i \in 1..message.size : i \in DOMAIN ret_buf /\ ret_buf[i] = i

\* The bytes from the n-th int on: one int of them, or all.
Field(name, n) ==
  SubSeq(ret_buf, n * IntSize + 1, IF name = "name" THEN message.size ELSE (n + 1) * IntSize)

\* messages.cpp: what the handler of a message parses is, field by field, what
\* its sender put there.
Understood ==
  receiver = "received" /\ message.kind # "file" =>
    LET fields == created[message.kind] IN
    \A i \in DOMAIN fields :
      LET got == Field(fields[i], parsed[message.kind][fields[i]]) IN
      /\ fields[i] # "name" => got = [j \in 1..IntSize |-> (i - 1) * IntSize + j]
      /\ fields[i] = "name" => got = [j \in 1..(message.size - (i - 1) * IntSize) |-> (i - 1) * IntSize + j]

\* A buffer has the length of the message: nothing is copied past its end when
\* the first packet is read as a whole; when it comes in pieces, no more than
\* its padding.
StaysInBuffer ==
  message.kind # "file" =>
    \/ Len(ret_buf) <= message.size
    \/ bytesread < SendSize /\ Len(ret_buf) <= SendSize - UpdateHeader

\* "Successfully sent entire message": unless a process ends or the receiver has
\* no room, the loops of send_msg and recv_msg end and the message has arrived.
MessageArrives == <>(receiver \in {"received", "failed"} \/ sender \in {"dead", "reset"})

\* recv_msg returns, whatever becomes of the sender.
ReceiverReturns == <>(receiver \in {"received", "null", "failed"})
=============================================================================
