--------------------------- MODULE TransfersProofs ---------------------------
(***************************************************************************)
(* What the steps of Transfers preserve, in either system: for any peers,  *)
(* files, threads and blocks, with crashes and restarts.                   *)
(***************************************************************************)
EXTENDS Transfers, SequenceTheorems, TLAPS

\* What may be on its way to a peer: a request, or an order of the index server.
Requests == [type : {"REQUEST_FILE"}, file : Files, client : Threads \cup {Gone}]
Orders == [type : {"REPLICATION_REQ"}, file : Files, holder : Peers]
Mails == {Requests, Requests \cup Orders}

\* Where a thread may be, in one system or the other.
AllStages ==
  {"join", "menu", "listing", "asking", "searching", "idle", "connecting", "waiting", "receiving",
   "registering", "opening", "sending", "dead"}

\* Every variable has its type, whatever the threads do beside their transfers.
Typed ==
  /\ TransfersTypeOK
  /\ stage \in [Threads -> AllStages]
  /\ inbox \in [Peers -> Seq(Requests \cup Orders)]

\* What a thread holds is what its stage is about.
Shape ==
  \A t \in Threads :
    /\ stage[t] \in {"connecting", "waiting", "receiving", "opening", "sending"} => file[t] \in Files
    /\ stage[t] = "connecting" => from[t] \in Peers
    /\ stage[t] = "waiting" => count[t] = 0
    /\ stage[t] \in {"receiving", "sending"} => count[t] + 1 \in Blocks
    /\ stage[t] = "receiving" => content[t[1]][file[t]] # NoFile
    /\ t[1] \notin up => stage[t] = "dead"

\* Whoever is asked for a file has all of it, so that there is nothing but blocks on
\* their way, and what has been received is there.
NamedIsWhole == \A t \in Threads : stage[t] = "connecting" => Whole(from[t], file[t])
AskedIsWhole ==
  \A p \in Peers : \A i \in DOMAIN inbox[p] :
    inbox[p][i].type = "REQUEST_FILE" => Whole(p, inbox[p][i].file)
SentIsWhole == \A t \in Threads : stage[t] \in {"opening", "sending"} => Whole(t[1], file[t])
OnlyData == \A t \in Threads : \A i \in DOMAIN channel[t] : channel[t][i] = "data"
ReceivedIsThere == \A t \in Threads : stage[t] = "receiving" => 1..count[t] \subseteq content[t[1]][file[t]]
NobodyRefuses == \A p \in Peers : result[p] # "refused"

Sound ==
  exposed = {} =>
    NamedIsWhole /\ AskedIsWhole /\ SentIsWhole /\ OnlyData /\ ReceivedIsThere /\ NobodyRefuses

\* A step keeps what the transfers rest on.
Kept ==
  /\ TransfersTypeOK' /\ Shape' /\ Sound'
  /\ \A M \in Mails : inbox \in [Peers -> Seq(M)] => inbox' \in [Peers -> Seq(M)]

-----------------------------------------------------------------------------
(* Types.                                                                  *)

LEMMA ThreadFacts ==
  ASSUME NEW t \in Threads
  PROVE  t[1] \in Peers /\ t[2] \in Handlers \cup {Cli} /\ t = <<t[1], t[2]>> /\ t # Gone
BY TransferAssumption DEF Threads, Gone

\* Stages and the rest of a thread's state, after a step of one thread.
LEMMA BlockFacts ==
  /\ NumBlocks \in Nat /\ Blocks = 1..NumBlocks /\ 1 \in Blocks /\ NoFile \notin SUBSET Blocks
  /\ \A b \in Nat : b + 1 \in Blocks => b \in {0} \cup Blocks
  /\ \A b \in Blocks : b \in Nat
<1>1. NumBlocks \in Nat /\ NumBlocks >= 1
  BY TransferAssumption
<1>2. NoFile \notin SUBSET Blocks
  BY TransferAssumption
<1> QED BY <1>1, <1>2 DEF Blocks

LEMMA MailFacts ==
  ASSUME NEW M \in Mails
  PROVE  /\ Requests \subseteq M
         /\ \A m \in M : m.type = "REQUEST_FILE" => m \in Requests
         /\ \A m \in M : m.type \in {"REQUEST_FILE", "REPLICATION_REQ"}
<1>1. \A m \in Requests : m.type = "REQUEST_FILE"
  BY DEF Requests
<1>2. \A m \in Orders : m.type = "REPLICATION_REQ"
  BY DEF Orders
<1> QED BY <1>1, <1>2 DEF Mails

\* The connections to a peer are a sequence of requests and orders.
LEMMA InboxFacts ==
  ASSUME Typed, NEW p \in Peers
  PROVE  /\ inbox[p] \in Seq(Requests \cup Orders)
         /\ DOMAIN inbox[p] = 1..Len(inbox[p]) /\ Len(inbox[p]) \in Nat
         /\ \A i \in DOMAIN inbox[p] :
              /\ inbox[p][i] \in Requests \cup Orders
              /\ inbox[p][i].type = "REQUEST_FILE" => inbox[p][i] \in Requests
<1>1. inbox[p] \in Seq(Requests \cup Orders)
  BY DEF Typed
<1>2. DOMAIN inbox[p] = 1..Len(inbox[p]) /\ Len(inbox[p]) \in Nat
  BY <1>1, LenProperties
<1>3. \A i \in DOMAIN inbox[p] : inbox[p][i] \in Requests \cup Orders
  BY <1>1, <1>2, ElementOfSeq
<1>4. Requests \cup Orders \in Mails
  BY DEF Mails
<1> QED BY <1>1, <1>2, <1>3, <1>4, MailFacts

\* The connections of all peers, after one more to a peer and after one less.
LEMMA InboxAppend ==
  ASSUME Typed, NEW p \in Peers, NEW m \in Requests \cup Orders,
         inbox' = [inbox EXCEPT ![p] = Append(@, m)]
  PROVE  /\ \A M \in Mails : m \in M /\ inbox \in [Peers -> Seq(M)] => inbox' \in [Peers -> Seq(M)]
         /\ \A q \in Peers : q # p => inbox'[q] = inbox[q]
         /\ \A i \in DOMAIN inbox'[p] :
              inbox'[p][i] = m \/ (i \in DOMAIN inbox[p] /\ inbox'[p][i] = inbox[p][i])
<1>1. inbox \in [Peers -> Seq(Requests \cup Orders)] /\ m \in Requests \cup Orders
  BY DEF Typed
<1>2. inbox'[p] = Append(inbox[p], m) /\ \A q \in Peers : q # p => inbox'[q] = inbox[q]
  BY <1>1
<1>3. ASSUME NEW M \in Mails, m \in M, inbox \in [Peers -> Seq(M)] PROVE inbox' \in [Peers -> Seq(M)]
  <2>1. m \in M /\ inbox[p] \in Seq(M)
    BY <1>3
  <2>2. Append(inbox[p], m) \in Seq(M)
    BY <2>1, AppendProperties
  <2> QED BY <1>3, <2>2
<1>4. /\ DOMAIN inbox[p] = 1..Len(inbox[p]) /\ Len(inbox[p]) \in Nat
      /\ Append(inbox[p], m) \in Seq(Requests \cup Orders)
      /\ Len(Append(inbox[p], m)) = Len(inbox[p]) + 1
      /\ \A i \in 1..Len(inbox[p]) : Append(inbox[p], m)[i] = inbox[p][i]
      /\ Append(inbox[p], m)[Len(inbox[p]) + 1] = m
  BY <1>1, InboxFacts, AppendProperties
<1>5. DOMAIN Append(inbox[p], m) = 1..(Len(inbox[p]) + 1)
  BY <1>4, LenProperties
<1> QED BY <1>2, <1>3, <1>4, <1>5

LEMMA InboxTail ==
  ASSUME Typed, NEW p \in Peers, inbox[p] # <<>>, inbox' = [inbox EXCEPT ![p] = Tail(@)]
  PROVE  /\ \A M \in Mails : inbox \in [Peers -> Seq(M)] => inbox' \in [Peers -> Seq(M)]
         /\ \A q \in Peers : q # p => inbox'[q] = inbox[q]
         /\ Head(inbox[p]) = inbox[p][1] /\ 1 \in DOMAIN inbox[p]
         /\ \A i \in DOMAIN inbox'[p] : i + 1 \in DOMAIN inbox[p] /\ inbox'[p][i] = inbox[p][i + 1]
<1>1. inbox \in [Peers -> Seq(Requests \cup Orders)]
  BY DEF Typed
<1>2. inbox'[p] = Tail(inbox[p]) /\ \A q \in Peers : q # p => inbox'[q] = inbox[q]
  BY <1>1
<1>3. ASSUME NEW M \in Mails, inbox \in [Peers -> Seq(M)] PROVE inbox' \in [Peers -> Seq(M)]
  <2>1. Tail(inbox[p]) \in Seq(M)
    BY <1>3, HeadTailProperties
  <2> QED BY <1>3, <2>1
<1>4. /\ DOMAIN inbox[p] = 1..Len(inbox[p]) /\ Len(inbox[p]) \in Nat /\ Len(inbox[p]) # 0
      /\ Tail(inbox[p]) \in Seq(Requests \cup Orders)
      /\ Len(Tail(inbox[p])) = Len(inbox[p]) - 1
      /\ \A i \in 1..Len(Tail(inbox[p])) : Tail(inbox[p])[i] = inbox[p][i + 1]
  BY <1>1, InboxFacts, HeadTailProperties, EmptySeq
<1>5. DOMAIN Tail(inbox[p]) = 1..Len(Tail(inbox[p]))
  BY <1>4, LenProperties
<1>6. Head(inbox[p]) = inbox[p][1]
  BY <1>1
<1>7. ASSUME NEW i \in DOMAIN inbox'[p] PROVE i + 1 \in DOMAIN inbox[p] /\ inbox'[p][i] = inbox[p][i + 1]
  <2>1. PICK n \in Nat : n = Len(inbox[p])
    BY <1>4
  <2>2. i \in 1..(n - 1) /\ i \in 1..Len(Tail(inbox[p]))
    BY <1>2, <1>4, <1>5, <2>1
  <2>3. i + 1 \in 1..n
    BY <2>1, <2>2
  <2> QED BY <1>2, <1>4, <2>1, <2>2, <2>3
<1>8. 1 \in DOMAIN inbox[p]
  BY <1>4
<1> QED BY <1>2, <1>3, <1>6, <1>7, <1>8

\* What a thread sends to another, and what it takes.
LEMMA ChannelAppend ==
  ASSUME TransfersTypeOK, NEW c \in Threads, NEW what \in {"STATUS_BAD", "data", "hole"},
         channel' = [channel EXCEPT ![c] = Append(@, what)]
  PROVE  /\ channel' \in [Threads -> Seq({"STATUS_BAD", "data", "hole"})]
         /\ OnlyData /\ what = "data" => OnlyData'
<1>1. channel \in [Threads -> Seq({"STATUS_BAD", "data", "hole"})]
  BY DEF TransfersTypeOK
<1>2. PICK s \in Seq({"STATUS_BAD", "data", "hole"}) : s = channel[c]
  BY <1>1
<1>3. /\ Append(s, what) \in Seq({"STATUS_BAD", "data", "hole"})
      /\ Len(Append(s, what)) = Len(s) + 1 /\ Len(s) \in Nat
      /\ \A i \in 1..Len(s) : Append(s, what)[i] = s[i]
      /\ Append(s, what)[Len(s) + 1] = what
      /\ DOMAIN s = 1..Len(s)
  BY AppendProperties, LenProperties
<1>4. DOMAIN Append(s, what) = 1..(Len(s) + 1)
  BY <1>3, LenProperties
<1>5. channel' = [channel EXCEPT ![c] = Append(s, what)]
  BY <1>2
<1>6. channel' \in [Threads -> Seq({"STATUS_BAD", "data", "hole"})]
  BY <1>1, <1>3, <1>5
<1>7. ASSUME OnlyData, what = "data" PROVE OnlyData'
  <2>1. \A i \in DOMAIN s : s[i] = "data"
    BY <1>2, <1>7 DEF OnlyData
  <2>2. \A i \in DOMAIN Append(s, what) : Append(s, what)[i] = "data"
    BY <1>3, <1>4, <1>7, <2>1
  <2>3. \A t \in Threads : channel'[t] = IF t = c THEN Append(s, what) ELSE channel[t]
    BY <1>1, <1>5
  <2> QED BY <1>7, <2>2, <2>3 DEF OnlyData
<1> QED BY <1>6, <1>7

LEMMA ChannelTail ==
  ASSUME TransfersTypeOK, NEW c \in Threads, channel[c] # <<>>
  PROVE  /\ Head(channel[c]) \in {"STATUS_BAD", "data", "hole"}
         /\ OnlyData => Head(channel[c]) = "data"
         /\ channel' = [channel EXCEPT ![c] = Tail(@)] =>
              /\ channel' \in [Threads -> Seq({"STATUS_BAD", "data", "hole"})]
              /\ OnlyData => OnlyData'
<1>1. channel \in [Threads -> Seq({"STATUS_BAD", "data", "hole"})]
  BY DEF TransfersTypeOK
<1>2. PICK s \in Seq({"STATUS_BAD", "data", "hole"}) : s = channel[c]
  BY <1>1
<1>3. /\ Tail(s) \in Seq({"STATUS_BAD", "data", "hole"})
      /\ Len(Tail(s)) = Len(s) - 1 /\ Len(s) \in Nat /\ Len(s) # 0
      /\ \A i \in 1..Len(Tail(s)) : Tail(s)[i] = s[i + 1]
      /\ DOMAIN s = 1..Len(s)
      /\ Head(s) \in {"STATUS_BAD", "data", "hole"}
  BY <1>2, HeadTailProperties, LenProperties, EmptySeq
<1>4. DOMAIN Tail(s) = 1..(Len(s) - 1) /\ Head(s) = s[1]
  BY <1>3, LenProperties
<1>5. ASSUME OnlyData
      PROVE  Head(s) = "data" /\ \A i \in DOMAIN Tail(s) : Tail(s)[i] = "data"
  <2>1. \A i \in DOMAIN s : s[i] = "data"
    BY <1>2, <1>5 DEF OnlyData
  <2>2. PICK n \in Nat : n = Len(s) /\ n # 0
    <3>1. Len(s) \in Nat /\ Len(s) # 0
      BY <1>3
    <3> QED BY <3>1, Zenon
  <2>3. 1 \in 1..n /\ \A i \in 1..(n - 1) : i + 1 \in 1..n
    BY <2>2
  <2>4. ASSUME NEW i \in DOMAIN Tail(s) PROVE Tail(s)[i] = "data"
    <3>1. i \in 1..(n - 1) /\ i + 1 \in DOMAIN s
      BY <1>3, <1>4, <2>2, <2>3
    <3> QED BY <1>3, <2>1, <2>2, <3>1
  <2> QED BY <1>3, <1>4, <2>1, <2>2, <2>3, <2>4
<1>6. ASSUME channel' = [channel EXCEPT ![c] = Tail(@)]
      PROVE  /\ channel' \in [Threads -> Seq({"STATUS_BAD", "data", "hole"})]
             /\ OnlyData => OnlyData'
  <2>1. channel' = [channel EXCEPT ![c] = Tail(s)]
    BY <1>2, <1>6
  <2>2. \A t \in Threads : channel'[t] = IF t = c THEN Tail(s) ELSE channel[t]
    BY <1>1, <2>1
  <2> QED BY <1>1, <1>3, <1>5, <2>1, <2>2 DEF OnlyData
<1> QED BY <1>2, <1>3, <1>5, <1>6

LEMMA ChannelCleared ==
  ASSUME TransfersTypeOK, NEW c \in Threads, channel' = [channel EXCEPT ![c] = <<>>]
  PROVE  /\ channel' \in [Threads -> Seq({"STATUS_BAD", "data", "hole"})]
         /\ OnlyData => OnlyData'
<1>1. channel \in [Threads -> Seq({"STATUS_BAD", "data", "hole"})]
  BY DEF TransfersTypeOK
<1>2. <<>> \in Seq({"STATUS_BAD", "data", "hole"}) /\ DOMAIN <<>> = {}
  BY EmptySeq
<1>3. \A t \in Threads : channel'[t] = IF t = c THEN <<>> ELSE channel[t]
  BY <1>1
<1> QED BY <1>1, <1>2, <1>3 DEF OnlyData

-----------------------------------------------------------------------------
(* Deaths and restarts.                                                    *)

\* The connections of those that are left, after the death of p.
LEMMA InboxCut ==
  ASSUME Typed, NEW p \in Peers, Die(p)
  PROVE  /\ \A M \in Mails : inbox \in [Peers -> Seq(M)] => inbox' \in [Peers -> Seq(M)]
         /\ \A q \in Peers : \A i \in DOMAIN inbox'[q] :
              /\ i \in DOMAIN inbox[q] /\ inbox'[q][i].type = inbox[q][i].type
              /\ inbox[q][i].type = "REQUEST_FILE" => inbox'[q][i].file = inbox[q][i].file
              /\ inbox[q][i].type # "REQUEST_FILE" => inbox'[q][i] = inbox[q][i]
<1> DEFINE Cut(m) ==
      IF m.type = "REQUEST_FILE" /\ m.client[1] = p THEN [m EXCEPT !.client = Gone] ELSE m
<1>1. /\ inbox' \in [Peers -> {inbox'[q] : q \in Peers}]
      /\ \A q \in Peers : inbox'[q] = IF q = p THEN <<>> ELSE [i \in DOMAIN inbox[q] |-> Cut(inbox[q][i])]
  BY DEF Die
<1>2. ASSUME NEW M \in Mails, NEW m \in M
      PROVE  /\ Cut(m) \in M /\ Cut(m).type = m.type
             /\ m.type = "REQUEST_FILE" => Cut(m).file = m.file
             /\ m.type # "REQUEST_FILE" => Cut(m) = m
  <2>1. CASE m.type = "REQUEST_FILE" /\ m.client[1] = p
    <3>1. m \in Requests
      BY <1>2, <2>1, MailFacts
    <3>2. [m EXCEPT !.client = Gone] \in Requests /\ [m EXCEPT !.client = Gone].file = m.file
          /\ [m EXCEPT !.client = Gone].type = m.type
      BY <3>1 DEF Requests
    <3>3. Cut(m) = [m EXCEPT !.client = Gone]
      BY <2>1
    <3> QED BY <3>2, <3>3, MailFacts
  <2>2. CASE ~(m.type = "REQUEST_FILE" /\ m.client[1] = p)
    <3>1. Cut(m) = m
      BY <2>2
    <3> QED BY <3>1
  <2> QED BY <2>1, <2>2
<1> HIDE DEF Cut
<1>3. ASSUME NEW M \in Mails, inbox \in [Peers -> Seq(M)], NEW q \in Peers PROVE inbox'[q] \in Seq(M)
  <2>1. CASE q = p
    BY <1>1, <2>1, EmptySeq
  <2>2. CASE q # p
    <3>1. PICK s \in Seq(M) : s = inbox[q]
      BY <1>3
    <3>2. Len(s) \in Nat /\ DOMAIN s = 1..Len(s) /\ \A i \in 1..Len(s) : s[i] \in M
      BY LenProperties, ElementOfSeq
    <3>3. inbox'[q] = [i \in 1..Len(s) |-> Cut(s[i])]
      BY <1>1, <2>2, <3>1, <3>2
    <3>4. \A i \in 1..Len(s) : Cut(s[i]) \in M
      BY <1>2, <3>2
    <3>5. [i \in 1..Len(s) |-> Cut(s[i])] \in [1..Len(s) -> M]
      BY <3>4
    <3> QED BY <3>2, <3>3, <3>5
  <2> QED BY <2>1, <2>2
<1>4. ASSUME NEW q \in Peers, NEW i \in DOMAIN inbox'[q]
      PROVE  /\ i \in DOMAIN inbox[q] /\ inbox'[q][i].type = inbox[q][i].type
             /\ inbox[q][i].type = "REQUEST_FILE" => inbox'[q][i].file = inbox[q][i].file
             /\ inbox[q][i].type # "REQUEST_FILE" => inbox'[q][i] = inbox[q][i]
  <2>1. q # p
    BY <1>1, <1>4
  <2>2. i \in DOMAIN inbox[q] /\ inbox'[q][i] = Cut(inbox[q][i])
    BY <1>1, <1>4, <2>1
  <2>3. inbox[q][i] \in Requests \cup Orders /\ Requests \cup Orders \in Mails
    BY <2>2, InboxFacts DEF Mails
  <2> QED BY <1>2, <2>2, <2>3
<1> QED BY <1>1, <1>3, <1>4

\* A death takes the state of a process' threads, and no file.
LEMMA DieKeeps ==
  ASSUME Typed, Shape, Sound, NEW p \in Peers, Die(p)
  PROVE  Kept
<1>1. /\ up' = up \ {p} /\ UNCHANGED <<content, result, restarts, exposed>>
      /\ stage' = [t \in Threads |-> IF t[1] = p THEN "dead" ELSE stage[t]]
      /\ client' = [t \in Threads |-> IF p \in {t[1], client[t][1]} THEN Gone ELSE client[t]]
      /\ from' = [t \in Threads |->
           IF t[1] = p \/ (from[t] = p /\ stage[t] # "connecting") THEN NoPeer ELSE from[t]]
      /\ channel' = [t \in Threads |-> IF t[1] = p THEN <<>> ELSE channel[t]]
      /\ file' = [t \in Threads |-> IF t[1] = p THEN NoFile ELSE file[t]]
      /\ count' = [t \in Threads |-> IF t[1] = p THEN 0 ELSE count[t]]
  BY DEF Die
<1>2. TransfersTypeOK'
  <2>1. <<>> \in Seq({"STATUS_BAD", "data", "hole"})
    BY EmptySeq
  <2>2. channel' \in [Threads -> Seq({"STATUS_BAD", "data", "hole"})]
    BY <1>1, <2>1 DEF Typed, TransfersTypeOK
  <2>3. /\ client' \in [Threads -> Threads \cup {Gone}] /\ from' \in [Threads -> Peers \cup {NoPeer}]
        /\ file' \in [Threads -> Files \cup {NoFile}] /\ count' \in [Threads -> {0} \cup Blocks]
    BY <1>1 DEF Typed, TransfersTypeOK
  <2> QED BY <1>1, <2>2, <2>3 DEF Typed, TransfersTypeOK
<1>3. ASSUME NEW t \in Threads
      PROVE  IF t[1] = p THEN stage'[t] = "dead" /\ channel'[t] = <<>>
             ELSE /\ stage'[t] = stage[t] /\ file'[t] = file[t] /\ count'[t] = count[t]
                  /\ channel'[t] = channel[t] /\ stage[t] = "connecting" => from'[t] = from[t]
  BY <1>1
<1>4. Shape'
  <2> SUFFICES ASSUME NEW t \in Threads
               PROVE  (/\ stage[t] \in {"connecting", "waiting", "receiving", "opening", "sending"} =>
                            file[t] \in Files
                       /\ stage[t] = "connecting" => from[t] \in Peers
                       /\ stage[t] = "waiting" => count[t] = 0
                       /\ stage[t] \in {"receiving", "sending"} => count[t] + 1 \in Blocks
                       /\ stage[t] = "receiving" => content[t[1]][file[t]] # NoFile
                       /\ t[1] \notin up => stage[t] = "dead")'
    BY DEF Shape
  <2> QED BY <1>1, <1>3 DEF Shape
<1>5. Sound'
  <2> SUFFICES ASSUME exposed = {}
               PROVE  (/\ NamedIsWhole /\ AskedIsWhole /\ SentIsWhole /\ OnlyData /\ ReceivedIsThere
                       /\ NobodyRefuses)'
    BY <1>1 DEF Sound
  <2>1. \A q, f : Whole(q, f)' <=> Whole(q, f)
    BY <1>1 DEF Whole
  <2>2. NamedIsWhole' /\ SentIsWhole' /\ ReceivedIsThere'
    BY <1>1, <1>3, <2>1 DEF Sound, NamedIsWhole, SentIsWhole, ReceivedIsThere
  <2>3. OnlyData'
    <3> SUFFICES ASSUME NEW t \in Threads, NEW i \in DOMAIN channel'[t] PROVE channel'[t][i] = "data"
      BY DEF OnlyData
    <3>1. t[1] # p
      <4>1. DOMAIN <<>> = {}
        OBVIOUS
      <4>2. t[1] = p => channel'[t] = <<>>
        BY <1>1
      <4> QED BY <4>1, <4>2
    <3>2. channel'[t] = channel[t]
      BY <1>1, <3>1
    <3> QED BY <3>2 DEF Sound, OnlyData
  <2>4. AskedIsWhole'
    BY <2>1, InboxCut DEF Sound, AskedIsWhole
  <2>5. NobodyRefuses'
    BY <1>1 DEF Sound, NobodyRefuses
  <2> QED BY <2>2, <2>3, <2>4, <2>5
<1> QED BY <1>2, <1>4, <1>5, InboxCut DEF Kept

\* A restart, whatever it announces.
LEMMA RestartKeeps ==
  ASSUME Typed, Shape, Sound, NEW p \in Peers, NEW first \in {"menu", "join"}, Restart(p, first),
         exposed \subseteq exposed', exposed' \subseteq Peers \X Files
  PROVE  Kept
<1>1. /\ restarts' = restarts + 1 /\ restarts < MaxRestarts /\ up' = up \cup {p}
      /\ stage' = [t \in Threads |->
           IF t[1] # p THEN stage[t] ELSE IF t[2] = Cli THEN first ELSE "idle"]
      /\ UNCHANGED <<inbox, content, file, client, count, from, channel, result>>
  BY DEF Restart, work
<1>2. TransfersTypeOK'
  <2>1. restarts' \in 0..MaxRestarts
    BY <1>1, TransferAssumption DEF Typed, TransfersTypeOK
  <2> QED BY <1>1, <2>1 DEF Typed, TransfersTypeOK
<1>3. \A t \in Threads : stage'[t] = stage[t] \/ stage'[t] \in {"menu", "join", "idle"}
  BY <1>1
<1>4. Shape'
  BY <1>1, <1>3 DEF Shape
<1>5. Sound'
  <2> SUFFICES ASSUME exposed' = {}
               PROVE  (/\ NamedIsWhole /\ AskedIsWhole /\ SentIsWhole /\ OnlyData /\ ReceivedIsThere
                       /\ NobodyRefuses)'
    BY DEF Sound
  <2>1. exposed = {}
    OBVIOUS
  <2>2. \A q, f : Whole(q, f)' <=> Whole(q, f)
    BY <1>1 DEF Whole
  <2>3. NamedIsWhole' /\ SentIsWhole' /\ ReceivedIsThere'
    BY <1>1, <1>3, <2>1, <2>2 DEF Sound, NamedIsWhole, SentIsWhole, ReceivedIsThere
  <2> QED BY <1>1, <2>1, <2>2, <2>3 DEF Sound, AskedIsWhole, OnlyData, NobodyRefuses
<1> QED BY <1>1, <1>2, <1>4, <1>5 DEF Kept
-----------------------------------------------------------------------------
(* Downloads.                                                              *)

LEMMA request_fileKeeps ==
  ASSUME Typed, Shape, Sound, NEW t \in Threads, request_file(t)
  PROVE  Kept
<1>1. CASE from[t] \notin up /\ Die(t[1])
  BY <1>1, ThreadFacts, DieKeeps
<1>2. CASE /\ inbox' = [inbox EXCEPT ![from[t]] = Append(@, Request(t))]
           /\ channel' = [channel EXCEPT ![t] = <<>>]
           /\ count' = [count EXCEPT ![t] = 0]
           /\ Goto(t, "waiting")
           /\ UNCHANGED <<up, content, file, from, client, result, restarts, exposed>>
  <2>1. stage[t] = "connecting" /\ file[t] \in Files /\ from[t] \in Peers
    BY DEF request_file, Shape
  <2>2. Request(t) \in Requests /\ Request(t).file = file[t]
    BY <2>1 DEF Request, Requests
  <2>3. /\ \A u \in Threads : u # t => stage'[u] = stage[u] /\ count'[u] = count[u]
        /\ stage'[t] = "waiting" /\ count'[t] = 0
    BY <1>2 DEF Goto, Typed, TransfersTypeOK
  <2>4. TransfersTypeOK'
    BY <1>2, ChannelCleared DEF Typed, TransfersTypeOK
  <2>5. Shape'
    BY <1>2, <2>1, <2>3 DEF Shape
  <2>6. Sound'
    <3> SUFFICES ASSUME exposed = {}
                 PROVE  (/\ NamedIsWhole /\ AskedIsWhole /\ SentIsWhole /\ OnlyData /\ ReceivedIsThere
                         /\ NobodyRefuses)'
      BY <1>2 DEF Sound
    <3>1. \A q, f : Whole(q, f)' <=> Whole(q, f)
      BY <1>2 DEF Whole
    <3>2. Whole(from[t], file[t])
      BY <2>1 DEF Sound, NamedIsWhole
    <3>3. NamedIsWhole' /\ SentIsWhole' /\ ReceivedIsThere' /\ NobodyRefuses'
      BY <1>2, <2>3, <3>1 DEF Sound, NamedIsWhole, SentIsWhole, ReceivedIsThere, NobodyRefuses
    <3>4. OnlyData'
      BY <1>2, ChannelCleared DEF Typed, Sound
    <3>5. AskedIsWhole'
      BY <1>2, <2>1, <2>2, <3>1, <3>2, InboxAppend DEF Sound, AskedIsWhole
    <3> QED BY <3>3, <3>4, <3>5
  <2>7. \A M \in Mails : Request(t) \in M
    BY <2>2, MailFacts
  <2> QED BY <1>2, <2>1, <2>2, <2>4, <2>5, <2>6, <2>7, InboxAppend DEF Kept
<1> QED BY <1>1, <1>2 DEF request_file

\* Where a download ends, nobody is named and nothing is held.
LEMMA EndedFacts ==
  ASSUME Typed, NEW t \in Threads, NEW how \in {"refused", "lost", "downloaded"}, Ended(t, how)
  PROVE  /\ \A u \in Threads : u # t => stage'[u] = stage[u]
         /\ stage'[t] = IF t[2] = Cli THEN "menu" ELSE IF how = "downloaded" THEN "registering" ELSE "idle"
         /\ result' \in [Peers -> {"none", "nobody", "refused", "lost", "downloaded"}]
         /\ how # "refused" /\ NobodyRefuses => NobodyRefuses'
BY ThreadFacts DEF Ended, Goto, Typed, TransfersTypeOK, NobodyRefuses

LEMMA RefusedKeeps ==
  ASSUME Typed, Shape, Sound, NEW t \in Threads, Refused(t)
  PROVE  Kept
<1>1. /\ stage[t] = "waiting" /\ channel' = [channel EXCEPT ![t] = <<>>]
      /\ UNCHANGED <<up, inbox, content, file, client, count, from, restarts, exposed>>
  BY DEF Refused, work
<1>2. PICK how \in {"refused", "lost"} :
        /\ Ended(t, how)
        /\ how = "refused" => channel[t] # <<>> /\ Head(channel[t]) = "STATUS_BAD"
  BY DEF Refused
<1>3. /\ \A u \in Threads : u # t => stage'[u] = stage[u]
      /\ stage'[t] \in {"menu", "idle"}
      /\ result' \in [Peers -> {"none", "nobody", "refused", "lost", "downloaded"}]
      /\ how # "refused" /\ NobodyRefuses => NobodyRefuses'
  BY <1>2, EndedFacts
<1>4. TransfersTypeOK'
  BY <1>1, <1>3, ChannelCleared DEF Typed, TransfersTypeOK
<1>5. Shape'
  BY <1>1, <1>3 DEF Shape
<1>6. Sound'
  <2> SUFFICES ASSUME exposed = {}
               PROVE  (/\ NamedIsWhole /\ AskedIsWhole /\ SentIsWhole /\ OnlyData /\ ReceivedIsThere
                       /\ NobodyRefuses)'
    BY <1>1 DEF Sound
  <2>1. \A q, f : Whole(q, f)' <=> Whole(q, f)
    BY <1>1 DEF Whole
  <2>2. NamedIsWhole' /\ SentIsWhole' /\ ReceivedIsThere' /\ AskedIsWhole'
    BY <1>1, <1>3, <2>1 DEF Sound, NamedIsWhole, SentIsWhole, ReceivedIsThere, AskedIsWhole
  <2>3. OnlyData'
    BY <1>1, ChannelCleared DEF Typed, Sound
  <2>4. NobodyRefuses'
    BY <1>2, <1>3, ChannelTail DEF Sound, Typed
  <2> QED BY <2>2, <2>3, <2>4
<1> QED BY <1>1, <1>4, <1>5, <1>6 DEF Kept

LEMMA ResetKeeps ==
  ASSUME Typed, Shape, Sound, NEW t \in Threads, Reset(t)
  PROVE  Kept
<1>1. /\ stage[t] = "receiving" /\ Ended(t, "lost")
      /\ UNCHANGED <<up, inbox, content, file, client, count, from, channel, restarts, exposed>>
  BY DEF Reset, work
<1>2. /\ \A u \in Threads : u # t => stage'[u] = stage[u]
      /\ stage'[t] \in {"menu", "idle"}
      /\ result' \in [Peers -> {"none", "nobody", "refused", "lost", "downloaded"}]
      /\ NobodyRefuses => NobodyRefuses'
  BY <1>1, EndedFacts
<1>3. TransfersTypeOK'
  BY <1>1, <1>2 DEF Typed, TransfersTypeOK
<1>4. Shape'
  BY <1>1, <1>2 DEF Shape
<1>5. Sound'
  <2> SUFFICES ASSUME exposed = {}
               PROVE  (/\ NamedIsWhole /\ AskedIsWhole /\ SentIsWhole /\ OnlyData /\ ReceivedIsThere
                       /\ NobodyRefuses)'
    BY <1>1 DEF Sound
  <2>1. \A q, f : Whole(q, f)' <=> Whole(q, f)
    BY <1>1 DEF Whole
  <2> QED BY <1>1, <1>2, <2>1 DEF Sound, NamedIsWhole, SentIsWhole, ReceivedIsThere, AskedIsWhole, OnlyData
<1> QED BY <1>1, <1>3, <1>4, <1>5 DEF Kept
\* One file of one peer changes.
LEMMA ContentFacts ==
  ASSUME TransfersTypeOK, NEW p \in Peers, NEW f \in Files, NEW v \in {NoFile} \cup SUBSET Blocks,
         content' = [content EXCEPT ![p][f] = v]
  PROVE  /\ content' \in [Peers -> [Files -> {NoFile} \cup SUBSET Blocks]]
         /\ content'[p][f] = v
         /\ \A q \in Peers, g \in Files : q # p \/ g # f => content'[q][g] = content[q][g]
<1>1. content \in [Peers -> [Files -> {NoFile} \cup SUBSET Blocks]]
  BY DEF TransfersTypeOK
<1>2. /\ content'[p] = [content[p] EXCEPT ![f] = v]
      /\ \A q \in Peers : q # p => content'[q] = content[q]
  BY <1>1
<1>3. [content[p] EXCEPT ![f] = v] \in [Files -> {NoFile} \cup SUBSET Blocks]
  BY <1>1
<1>4. content' \in [Peers -> [Files -> {NoFile} \cup SUBSET Blocks]]
  BY <1>1, <1>3
<1> QED BY <1>1, <1>2, <1>4

LEMMA CreateFacts ==
  ASSUME Typed, Shape, NEW t \in Threads, Create(t)
  PROVE  /\ stage[t] = "waiting" /\ file[t] \in Files /\ count[t] = 0
         /\ Goto(t, "receiving")
         /\ UNCHANGED <<up, inbox, file, client, count, from, channel, result, restarts, exposed>>
         /\ content' \in [Peers -> [Files -> {NoFile} \cup SUBSET Blocks]]
         /\ content'[t[1]][file[t]] # NoFile
         /\ \A q \in Peers, g \in Files :
              content[q][g] # NoFile => content'[q][g] = content[q][g]
         /\ \A q \in Peers, g \in Files :
              q # t[1] \/ g # file[t] => content'[q][g] = content[q][g]
<1>1. /\ stage[t] = "waiting" /\ file[t] \in Files /\ count[t] = 0 /\ t[1] \in Peers
      /\ content' = [content EXCEPT ![t[1]][file[t]] = Opened(@)]
      /\ Goto(t, "receiving")
      /\ UNCHANGED <<up, inbox, file, client, count, from, channel, result, restarts, exposed>>
  BY ThreadFacts DEF Create, Shape, work
<1>2. content[t[1]][file[t]] \in {NoFile} \cup SUBSET Blocks
  BY <1>1 DEF Typed, TransfersTypeOK
<1>3. PICK v \in SUBSET Blocks :
        /\ content' = [content EXCEPT ![t[1]][file[t]] = v]
        /\ content[t[1]][file[t]] # NoFile => v = content[t[1]][file[t]]
  <2>1. Opened(content[t[1]][file[t]]) \in SUBSET Blocks
    BY <1>2 DEF Opened
  <2>2. content[t[1]][file[t]] # NoFile => Opened(content[t[1]][file[t]]) = content[t[1]][file[t]]
    BY DEF Opened
  <2> HIDE DEF Opened
  <2> QED BY <1>1, <2>1, <2>2
<1>4. /\ content' \in [Peers -> [Files -> {NoFile} \cup SUBSET Blocks]]
      /\ content'[t[1]][file[t]] = v
      /\ \A q \in Peers, g \in Files : q # t[1] \/ g # file[t] => content'[q][g] = content[q][g]
  <2>1. PICK p \in Peers, f \in Files : p = t[1] /\ f = file[t]
    BY <1>1
  <2>2. content' = [content EXCEPT ![p][f] = v]
    BY <1>3, <2>1
  <2>3. /\ content' \in [Peers -> [Files -> {NoFile} \cup SUBSET Blocks]]
        /\ content'[p][f] = v
        /\ \A q \in Peers, g \in Files : q # p \/ g # f => content'[q][g] = content[q][g]
    <3>1. TransfersTypeOK
      BY DEF Typed
    <3> QED BY <2>2, <3>1, ContentFacts, ZenonT(60)
  <2> QED BY <2>1, <2>3
<1>5. content'[t[1]][file[t]] # NoFile
  BY <1>4, BlockFacts
<1>6. ASSUME NEW q \in Peers, NEW g \in Files, content[q][g] # NoFile
      PROVE  content'[q][g] = content[q][g]
  <2>1. CASE q = t[1] /\ g = file[t]
    BY <1>3, <1>4, <1>6, <2>1
  <2>2. CASE q # t[1] \/ g # file[t]
    BY <1>4, <2>2
  <2> QED BY <2>1, <2>2
<1> QED BY <1>1, <1>4, <1>5, <1>6

LEMMA CreateKeeps ==
  ASSUME Typed, Shape, Sound, NEW t \in Threads, Create(t)
  PROVE  Kept
<1>1. /\ stage[t] = "waiting" /\ file[t] \in Files /\ count[t] = 0 /\ t[1] \in Peers
      /\ UNCHANGED <<up, inbox, file, client, count, from, channel, result, restarts, exposed>>
      /\ content' \in [Peers -> [Files -> {NoFile} \cup SUBSET Blocks]]
      /\ content'[t[1]][file[t]] # NoFile
      /\ \A q \in Peers, g \in Files : content[q][g] # NoFile => content'[q][g] = content[q][g]
  BY CreateFacts, ThreadFacts
<1>2. /\ \A u \in Threads : u # t => stage'[u] = stage[u]
      /\ stage'[t] = "receiving"
  BY CreateFacts DEF Goto, Typed
<1>3. TransfersTypeOK'
  BY <1>1 DEF Typed, TransfersTypeOK
<1>4. \A u \in Threads : u[1] \in Peers
  BY ThreadFacts
<1>5. Shape'
  BY <1>1, <1>2, <1>4, BlockFacts DEF Shape
<1>6. Sound'
  <2> SUFFICES ASSUME exposed = {}
               PROVE  (/\ NamedIsWhole /\ AskedIsWhole /\ SentIsWhole /\ OnlyData /\ ReceivedIsThere
                       /\ NobodyRefuses)'
    BY <1>1 DEF Sound
  <2>1. \A q \in Peers, g \in Files : Whole(q, g) => Whole(q, g)'
    BY <1>1, BlockFacts DEF Whole
  <2>2. NamedIsWhole' /\ SentIsWhole'
    BY <1>1, <1>2, <1>4, <2>1 DEF Sound, NamedIsWhole, SentIsWhole, Shape
  <2>3. ReceivedIsThere'
    BY <1>1, <1>2, <1>4 DEF Sound, ReceivedIsThere, Shape
  <2>4. AskedIsWhole'
    <3>1. \A q \in Peers : \A i \in DOMAIN inbox[q] :
            inbox[q][i].type = "REQUEST_FILE" => inbox[q][i].file \in Files
      BY InboxFacts DEF Requests
    <3> QED BY <1>1, <2>1, <3>1 DEF Sound, AskedIsWhole
  <2> QED BY <1>1, <2>2, <2>3, <2>4 DEF Sound, OnlyData, NobodyRefuses
<1> QED BY <1>1, <1>3, <1>5, <1>6 DEF Kept

LEMMA ReceiveFacts ==
  ASSUME Typed, Shape, NEW t \in Threads, Receive(t)
  PROVE  \E b \in Blocks :
         /\ b = count[t] + 1 /\ stage[t] = "receiving" /\ file[t] \in Files
         /\ channel[t] # <<>> /\ channel' = [channel EXCEPT ![t] = Tail(@)]
         /\ count' = [count EXCEPT ![t] = b]
         /\ IF b + 1 \in Blocks THEN UNCHANGED <<stage, result>> ELSE Ended(t, "downloaded")
         /\ UNCHANGED <<up, inbox, file, client, from, restarts, exposed>>
         /\ content' \in [Peers -> [Files -> {NoFile} \cup SUBSET Blocks]]
         /\ content[t[1]][file[t]] \in SUBSET Blocks
         /\ content'[t[1]][file[t]] \in SUBSET Blocks
         /\ Head(channel[t]) = "data" => content'[t[1]][file[t]] = content[t[1]][file[t]] \cup {b}
         /\ \A q \in Peers, g \in Files :
              q # t[1] \/ g # file[t] => content'[q][g] = content[q][g]
<1>1. PICK b \in Blocks : b = count[t] + 1
  BY DEF Receive, Shape
<1>2. /\ stage[t] = "receiving" /\ file[t] \in Files /\ t[1] \in Peers
      /\ channel[t] # <<>> /\ channel' = [channel EXCEPT ![t] = Tail(@)]
      /\ count' = [count EXCEPT ![t] = b]
      /\ IF b + 1 \in Blocks THEN UNCHANGED <<stage, result>> ELSE Ended(t, "downloaded")
      /\ UNCHANGED <<up, inbox, file, client, from, restarts, exposed>>
      /\ content' = [content EXCEPT ![t[1]][file[t]] =
           IF Head(channel[t]) = "data" THEN @ \cup {b} ELSE @ \ {b}]
      /\ content[t[1]][file[t]] # NoFile
  BY <1>1, ThreadFacts DEF Receive, More, Shape
<1>3. content[t[1]][file[t]] \in SUBSET Blocks
  BY <1>2 DEF Typed, TransfersTypeOK
<1>4. PICK v \in SUBSET Blocks :
        /\ content' = [content EXCEPT ![t[1]][file[t]] = v]
        /\ Head(channel[t]) = "data" => v = content[t[1]][file[t]] \cup {b}
  BY <1>2, <1>3
<1>5. /\ content' \in [Peers -> [Files -> {NoFile} \cup SUBSET Blocks]]
      /\ content'[t[1]][file[t]] = v
      /\ \A q \in Peers, g \in Files : q # t[1] \/ g # file[t] => content'[q][g] = content[q][g]
  <2>1. PICK p \in Peers, f \in Files : p = t[1] /\ f = file[t]
    BY <1>2
  <2>2. content' = [content EXCEPT ![p][f] = v]
    BY <1>4, <2>1
  <2>3. /\ content' \in [Peers -> [Files -> {NoFile} \cup SUBSET Blocks]]
        /\ content'[p][f] = v
        /\ \A q \in Peers, g \in Files : q # p \/ g # f => content'[q][g] = content[q][g]
    <3>1. TransfersTypeOK
      BY DEF Typed
    <3> QED BY <2>2, <3>1, ContentFacts, ZenonT(60)
  <2> QED BY <2>1, <2>3
<1> QED BY <1>1, <1>2, <1>3, <1>4, <1>5

LEMMA ReceiveKeeps ==
  ASSUME Typed, Shape, Sound, NEW t \in Threads, Receive(t)
  PROVE  Kept
<1>1. PICK b \in Blocks :
         /\ b = count[t] + 1 /\ stage[t] = "receiving" /\ file[t] \in Files /\ t[1] \in Peers
         /\ channel[t] # <<>> /\ channel' = [channel EXCEPT ![t] = Tail(@)]
         /\ count' = [count EXCEPT ![t] = b]
         /\ IF b + 1 \in Blocks THEN UNCHANGED <<stage, result>> ELSE Ended(t, "downloaded")
         /\ UNCHANGED <<up, inbox, file, client, from, restarts, exposed>>
         /\ content' \in [Peers -> [Files -> {NoFile} \cup SUBSET Blocks]]
         /\ content[t[1]][file[t]] \in SUBSET Blocks
         /\ content'[t[1]][file[t]] \in SUBSET Blocks
         /\ Head(channel[t]) = "data" => content'[t[1]][file[t]] = content[t[1]][file[t]] \cup {b}
         /\ \A q \in Peers, g \in Files :
              q # t[1] \/ g # file[t] => content'[q][g] = content[q][g]
  BY ReceiveFacts, ThreadFacts
<1>2. /\ \A u \in Threads : u # t => stage'[u] = stage[u] /\ count'[u] = count[u]
      /\ count'[t] = b
      /\ stage'[t] \in {"receiving", "menu", "registering"}
      /\ stage'[t] = "receiving" => b + 1 \in Blocks
      /\ result' \in [Peers -> {"none", "nobody", "refused", "lost", "downloaded"}]
      /\ NobodyRefuses => NobodyRefuses'
  <2>1. \A u \in Threads : u # t => count'[u] = count[u]
    BY <1>1 DEF Typed, TransfersTypeOK
  <2>2. count'[t] = b
    BY <1>1 DEF Typed, TransfersTypeOK
  <2>3. CASE b + 1 \in Blocks
    BY <1>1, <2>1, <2>2, <2>3 DEF Typed, TransfersTypeOK, NobodyRefuses
  <2>4. CASE b + 1 \notin Blocks
    BY <1>1, <2>1, <2>2, <2>4, EndedFacts
  <2> QED BY <2>3, <2>4
<1>3. \A u \in Threads : u[1] \in Peers
  BY ThreadFacts
<1>4. TransfersTypeOK'
  <2>1. channel' \in [Threads -> Seq({"STATUS_BAD", "data", "hole"})]
    BY <1>1, ChannelTail DEF Typed
  <2>2. count' \in [Threads -> {0} \cup Blocks]
    BY <1>1 DEF Typed, TransfersTypeOK
  <2> QED BY <1>1, <1>2, <2>1, <2>2 DEF Typed, TransfersTypeOK
<1>5. Shape'
  <2>1. count[t] + 1 = b /\ b \in Nat /\ content'[t[1]][file[t]] # NoFile
    BY <1>1, BlockFacts
  <2>2. ASSUME NEW u \in Threads, u # t, stage[u] = "receiving"
        PROVE  content'[u[1]][file[u]] # NoFile
    BY <1>1, <1>3, <2>1, <2>2 DEF Shape
  <2> QED BY <1>1, <1>2, <2>1, <2>2 DEF Shape
<1>6. Sound'
  <2> SUFFICES ASSUME exposed = {}
               PROVE  (/\ NamedIsWhole /\ AskedIsWhole /\ SentIsWhole /\ OnlyData /\ ReceivedIsThere
                       /\ NobodyRefuses)'
    BY <1>1 DEF Sound
  <2>1. /\ content'[t[1]][file[t]] = content[t[1]][file[t]] \cup {b}
        /\ OnlyData'
    BY <1>1, ChannelTail DEF Typed, Sound
  <2>2. \A q \in Peers, g \in Files : Whole(q, g) => Whole(q, g)'
    BY <1>1, <2>1 DEF Whole
  <2>3. NamedIsWhole' /\ SentIsWhole'
    BY <1>1, <1>2, <1>3, <2>2 DEF Sound, NamedIsWhole, SentIsWhole, Shape
  <2>4. ReceivedIsThere'
    <3> SUFFICES ASSUME NEW u \in Threads, stage'[u] = "receiving", NEW n \in 1..count'[u]
                 PROVE  n \in content'[u[1]][file[u]]
      BY <1>1 DEF ReceivedIsThere
    <3>1. stage[u] = "receiving" /\ file[u] \in Files /\ u[1] \in Peers
      BY <1>1, <1>2, <1>3 DEF Shape
    <3>2. n \in 1..count[u] \/ (u = t /\ n = b)
      <4>1. PICK c \in Nat : c = count[t] /\ b = c + 1
        <5>1. count[t] \in {0} \cup Blocks
          BY DEF Typed, TransfersTypeOK
        <5>2. count[t] \in Nat
          BY <5>1, BlockFacts
        <5> QED BY <1>1, <5>2
      <4>2. CASE u = t
        <5>1. n \in 1..(c + 1)
          BY <1>2, <4>1, <4>2
        <5> QED BY <4>1, <4>2, <5>1
      <4>3. CASE u # t
        BY <1>2, <4>3
      <4> QED BY <4>2, <4>3
    <3>3. n \in content[u[1]][file[u]] \/ (u = t /\ n = b)
      BY <3>1, <3>2 DEF Sound, ReceivedIsThere
    <3> QED BY <1>1, <2>1, <3>1, <3>3
  <2>5. AskedIsWhole'
    <3>1. \A q \in Peers : \A i \in DOMAIN inbox[q] :
            inbox[q][i].type = "REQUEST_FILE" => inbox[q][i].file \in Files
      BY InboxFacts DEF Requests
    <3> QED BY <1>1, <2>2, <3>1 DEF Sound, AskedIsWhole
  <2> QED BY <1>2, <2>1, <2>3, <2>4, <2>5 DEF Sound
<1> QED BY <1>1, <1>4, <1>5, <1>6 DEF Kept
-----------------------------------------------------------------------------
(* Uploads.                                                                *)

LEMMA HandleRequestKeeps ==
  ASSUME Typed, Shape, Sound, NEW t \in Threads, HandleRequest(t)
  PROVE  Kept
<1>1. PICK p \in Peers : p = t[1]
  BY ThreadFacts
<1>2. PICK m : m = Head(inbox[p])
  OBVIOUS
<1>3. /\ stage[t] = "idle" /\ inbox[p] # <<>> /\ m.type = "REQUEST_FILE" /\ inbox' = [inbox EXCEPT ![p] = Tail(@)]
      /\ file' = [file EXCEPT ![t] = m.file] /\ client' = [client EXCEPT ![t] = m.client]
      /\ Goto(t, "opening")
      /\ UNCHANGED <<up, content, count, from, channel, result, restarts, exposed>>
  BY <1>1, <1>2 DEF HandleRequest
<1>4. m = inbox[p][1] /\ 1 \in DOMAIN inbox[p]
  BY <1>2, <1>3, InboxTail
<1>5. m.file \in Files /\ m.client \in Threads \cup {Gone}
  BY <1>3, <1>4, InboxFacts DEF Requests
<1>6. /\ \A u \in Threads : u # t => stage'[u] = stage[u] /\ file'[u] = file[u]
      /\ stage'[t] = "opening" /\ file'[t] = m.file
  BY <1>3 DEF Goto, Typed, TransfersTypeOK
<1>7. TransfersTypeOK'
  BY <1>3, <1>5 DEF Typed, TransfersTypeOK
<1>8. Shape'
  BY <1>3, <1>5, <1>6 DEF Shape
<1>9. Sound'
  <2> SUFFICES ASSUME exposed = {}
               PROVE  (/\ NamedIsWhole /\ AskedIsWhole /\ SentIsWhole /\ OnlyData /\ ReceivedIsThere
                       /\ NobodyRefuses)'
    BY <1>3 DEF Sound
  <2>1. \A q, f : Whole(q, f)' <=> Whole(q, f)
    BY <1>3 DEF Whole
  <2>2. Whole(p, m.file)
    BY <1>3, <1>4 DEF Sound, AskedIsWhole
  <2>3. NamedIsWhole' /\ ReceivedIsThere' /\ SentIsWhole'
    BY <1>1, <1>3, <1>6, <2>1, <2>2 DEF Sound, NamedIsWhole, SentIsWhole, ReceivedIsThere
  <2>4. AskedIsWhole'
    <3> SUFFICES ASSUME NEW q \in Peers, NEW i \in DOMAIN inbox'[q], inbox'[q][i].type = "REQUEST_FILE"
                 PROVE  Whole(q, inbox'[q][i].file)
      BY <2>1 DEF AskedIsWhole
    <3>1. PICK j \in DOMAIN inbox[q] : inbox'[q][i] = inbox[q][j]
      <4>1. CASE q = p
        <5>1. \A k \in DOMAIN inbox'[p] : k + 1 \in DOMAIN inbox[p] /\ inbox'[p][k] = inbox[p][k + 1]
          BY <1>3, InboxTail
        <5> QED BY <4>1, <5>1
      <4>2. CASE q # p
        <5>1. inbox'[q] = inbox[q]
          BY <1>3, <4>2, InboxTail
        <5> QED BY <5>1
      <4> QED BY <4>1, <4>2
    <3> QED BY <3>1 DEF Sound, AskedIsWhole
  <2> QED BY <1>3, <2>3, <2>4 DEF Sound, OnlyData, NobodyRefuses
<1> QED BY <1>3, <1>7, <1>8, <1>9, InboxTail DEF Kept

\* What is sent is a block, if there is nothing else.
LEMMA SendFacts ==
  ASSUME TransfersTypeOK, NEW t \in Threads, NEW what \in {"STATUS_BAD", "data", "hole"},
         Send(client[t], what)
  PROVE  /\ channel' \in [Threads -> Seq({"STATUS_BAD", "data", "hole"})]
         /\ OnlyData /\ what = "data" => OnlyData'
<1>1. client[t] \in Threads \cup {Gone} /\ channel \in [Threads -> Seq({"STATUS_BAD", "data", "hole"})]
  BY DEF TransfersTypeOK
<1>2. CASE client[t] = Gone
  BY <1>1, <1>2 DEF Send, OnlyData
<1>3. CASE client[t] # Gone
  <2>1. PICK c \in Threads : c = client[t]
    BY <1>1, <1>3
  <2>2. channel' = [channel EXCEPT ![c] = Append(@, what)]
    BY <1>3, <2>1 DEF Send
  <2> QED BY <2>2, ChannelAppend
<1> QED BY <1>2, <1>3

LEMMA send_fileKeeps ==
  ASSUME Typed, Shape, Sound, NEW t \in Threads, send_file(t)
  PROVE  Kept
<1>1. /\ stage[t] = "opening"
      /\ UNCHANGED <<up, inbox, content, file, from, client, result, restarts, exposed>>
  BY DEF send_file
<1>2. \/ /\ content[t[1]][file[t]] = NoFile
         /\ Send(client[t], "STATUS_BAD") /\ Goto(t, "idle") /\ count' = count
      \/ /\ content[t[1]][file[t]] # NoFile
         /\ count' = [count EXCEPT ![t] = 0] /\ Goto(t, "sending") /\ channel' = channel
  BY DEF send_file
<1>3. /\ \A u \in Threads : u # t => stage'[u] = stage[u] /\ count'[u] = count[u]
      /\ stage'[t] \in {"idle", "sending"}
      /\ stage'[t] = "sending" => count'[t] = 0
  BY <1>2 DEF Goto, Typed, TransfersTypeOK
<1>4. TransfersTypeOK'
  <2>1. channel' \in [Threads -> Seq({"STATUS_BAD", "data", "hole"})]
    BY <1>2, SendFacts DEF Typed, TransfersTypeOK
  <2>2. count' \in [Threads -> {0} \cup Blocks]
    BY <1>2 DEF Typed, TransfersTypeOK
  <2> QED BY <1>1, <2>1, <2>2 DEF Typed, TransfersTypeOK
<1>5. Shape'
  BY <1>1, <1>3, BlockFacts DEF Shape
<1>6. Sound'
  <2> SUFFICES ASSUME exposed = {}
               PROVE  (/\ NamedIsWhole /\ AskedIsWhole /\ SentIsWhole /\ OnlyData /\ ReceivedIsThere
                       /\ NobodyRefuses)'
    BY <1>1 DEF Sound
  <2>1. \A q, f : Whole(q, f)' <=> Whole(q, f)
    BY <1>1 DEF Whole
  <2>2. Whole(t[1], file[t])
    BY <1>1 DEF Sound, SentIsWhole
  <2>3. NamedIsWhole' /\ ReceivedIsThere' /\ SentIsWhole' /\ AskedIsWhole' /\ NobodyRefuses'
    BY <1>1, <1>3, <2>1, <2>2
    DEF Sound, NamedIsWhole, SentIsWhole, ReceivedIsThere, AskedIsWhole, NobodyRefuses
  <2>4. OnlyData'
    <3>1. channel' = channel
      BY <1>2, <2>2, BlockFacts DEF Whole
    <3> QED BY <3>1 DEF Sound, OnlyData
  <2> QED BY <2>3, <2>4
<1> QED BY <1>1, <1>4, <1>5, <1>6 DEF Kept

LEMMA SendBlockKeeps ==
  ASSUME Typed, Shape, Sound, NEW t \in Threads, SendBlock(t)
  PROVE  Kept
<1>1. PICK b \in Blocks : b = count[t] + 1
  BY DEF SendBlock, Shape
<1>2. /\ stage[t] = "sending" /\ count' = [count EXCEPT ![t] = b]
      /\ Send(client[t], IF b \in content[t[1]][file[t]] THEN "data" ELSE "hole")
      /\ IF b + 1 \in Blocks THEN stage' = stage ELSE Goto(t, "idle")
      /\ UNCHANGED <<up, inbox, content, file, from, client, result, restarts, exposed>>
  BY <1>1 DEF SendBlock, MoreToSend
<1>3. /\ \A u \in Threads : u # t => stage'[u] = stage[u] /\ count'[u] = count[u]
      /\ stage'[t] \in {"idle", "sending"} /\ count'[t] = b
      /\ stage'[t] = "sending" => b + 1 \in Blocks
  BY <1>2 DEF Goto, Typed, TransfersTypeOK
<1>4. TransfersTypeOK'
  <2>1. channel' \in [Threads -> Seq({"STATUS_BAD", "data", "hole"})]
    BY <1>2, SendFacts DEF Typed
  <2>2. count' \in [Threads -> {0} \cup Blocks]
    BY <1>2 DEF Typed, TransfersTypeOK
  <2> QED BY <1>2, <2>1, <2>2 DEF Typed, TransfersTypeOK
<1>5. Shape'
  BY <1>2, <1>3 DEF Shape
<1>6. Sound'
  <2> SUFFICES ASSUME exposed = {}
               PROVE  (/\ NamedIsWhole /\ AskedIsWhole /\ SentIsWhole /\ OnlyData /\ ReceivedIsThere
                       /\ NobodyRefuses)'
    BY <1>2 DEF Sound
  <2>1. \A q, f : Whole(q, f)' <=> Whole(q, f)
    BY <1>2 DEF Whole
  <2>2. Whole(t[1], file[t])
    BY <1>2 DEF Sound, SentIsWhole
  <2>3. NamedIsWhole' /\ ReceivedIsThere' /\ SentIsWhole' /\ AskedIsWhole' /\ NobodyRefuses'
    BY <1>2, <1>3, <2>1, <2>2
    DEF Sound, NamedIsWhole, SentIsWhole, ReceivedIsThere, AskedIsWhole, NobodyRefuses
  <2>4. Send(client[t], "data")
    BY <1>2, <2>2 DEF Whole
  <2>5. OnlyData'
    BY <2>4, SendFacts DEF Sound, Typed
  <2> QED BY <2>3, <2>5
<1> QED BY <1>2, <1>4, <1>5, <1>6 DEF Kept

-----------------------------------------------------------------------------
(* All of it.                                                              *)

\* Every step of a transfer keeps what the transfers rest on.
LEMMA TransferKeeps ==
  ASSUME Typed, Shape, Sound, NEW t \in Threads, Download(t) \/ Upload(t) \/ Reset(t)
  PROVE  Kept
<1>1. t[1] \in Peers
  BY ThreadFacts
<1> QED BY <1>1, request_fileKeeps, RefusedKeeps, CreateKeeps, ReceiveKeeps, ResetKeeps,
           HandleRequestKeeps, send_fileKeeps, SendBlockKeeps, DieKeeps
        DEF Download, Upload, SendToNobody

\* No transfer takes a block of a whole file, as long as nobody exposes a copy.
LEMMA TransferKeepsWhole ==
  ASSUME Typed, Shape, Sound, exposed = {}, NEW t \in Threads, Download(t) \/ Upload(t) \/ Reset(t),
         NEW p \in Peers, NEW f \in Files, Whole(p, f)
  PROVE  content'[p][f] = Blocks
<1>1. CASE Create(t)
  <2>1. content[p][f] # NoFile
    BY BlockFacts DEF Whole
  <2> QED BY <1>1, <2>1, CreateFacts DEF Whole
<1>2. CASE Receive(t)
  <2>1. Head(channel[t]) = "data"
    BY <1>2, ChannelTail DEF Receive, Sound, Typed
  <2>2. CASE p = t[1] /\ f = file[t]
    <3>1. PICK b \in Blocks : content'[p][f] = content[p][f] \cup {b}
      BY <1>2, <2>1, <2>2, ReceiveFacts
    <3> QED BY <3>1 DEF Whole
  <2>3. CASE p # t[1] \/ f # file[t]
    BY <1>2, <2>3, ReceiveFacts DEF Whole
  <2> QED BY <2>2, <2>3
<1>3. CASE request_file(t) \/ Refused(t) \/ Upload(t) \/ Reset(t)
  <2>1. content' = content
    BY <1>3 DEF request_file, Refused, Upload, HandleRequest, send_file, SendBlock, SendToNobody, Reset, Die
  <2> QED BY <2>1 DEF Whole
<1> QED BY <1>1, <1>2, <1>3 DEF Download

\* A download that succeeds has received every block.
LEMMA SuccessIsWhole ==
  ASSUME Typed, Shape, Sound, exposed = {}, NEW t \in Threads, Receive(t),
         stage'[t] \in {"menu", "registering"}
  PROVE  content'[t[1]][file[t]] = Blocks
<1>1. PICK b \in Blocks :
         /\ b = count[t] + 1 /\ stage[t] = "receiving" /\ channel[t] # <<>>
         /\ b + 1 \in Blocks => stage' = stage
         /\ content[t[1]][file[t]] \in SUBSET Blocks
         /\ Head(channel[t]) = "data" => content'[t[1]][file[t]] = content[t[1]][file[t]] \cup {b}
  BY ReceiveFacts
<1>2. content'[t[1]][file[t]] = content[t[1]][file[t]] \cup {b}
  BY <1>1, ChannelTail DEF Sound, Typed
<1>3. b + 1 \notin Blocks
  BY <1>1
<1>4. 1..count[t] \subseteq content[t[1]][file[t]]
  BY <1>1 DEF Sound, ReceivedIsThere
<1>5. b = NumBlocks /\ count[t] = b - 1 /\ Blocks = 1..b
  <2>1. count[t] \in {0} \cup Blocks
    BY DEF Typed, TransfersTypeOK
  <2> QED BY <1>1, <1>3, <2>1, BlockFacts
<1>6. Blocks = 1..(b - 1) \cup {b}
  BY <1>5, BlockFacts
<1> QED BY <1>1, <1>2, <1>4, <1>5, <1>6
=============================================================================
