------------------------- MODULE CentralizedPeerProofs -------------------------
(***************************************************************************)
(* Theorems about CentralizedPeer, for any peers, files, threads and       *)
(* commands, with crashes and restarts.                                    *)
(***************************************************************************)
EXTENDS CentralizedPeer, TransfersProofs

\* What is sent to the server; the question of a process that has ended is nobody's.
Greetings == [type : {"NEW_USER"}, peer : Peers]
Registrations == [type : {"REGISTER_FILE"}, file : Files, peer : Peers]
Questions == [type : {"SEARCH_INDEX"}, file : Files, peer : Peers \cup {NoPeer}]
Calls == Greetings \cup Registrations \cup Questions

\* What the server holds, as far as its peers can tell.
ServerTyped ==
  /\ server_up \in BOOLEAN
  /\ queue \in Seq(Calls)
  /\ msg \in [Workers -> Calls \cup {Index!NoMessage}]
  /\ pc \in [Workers -> {"idle", "NEW_USER", "REGISTER_FILE", "SEARCH_INDEX", "replicate", "scan", "send"}]
  /\ file_peer_map \in [Files -> Seq(Index!Conns)]
  /\ \A w \in Workers :
       /\ pc[w] \in {"NEW_USER", "REGISTER_FILE", "SEARCH_INDEX"} => msg[w].type = pc[w]
       /\ pc[w] \in {"replicate", "scan", "send"} => msg[w].type = "REGISTER_FILE"
       /\ pc[w] = "idle" => msg[w].type = "NULL_MSG"

\* The command line asks and downloads, the handlers replicate and serve.
CliStages ==
  {"join", "menu", "listing", "asking", "searching", "connecting", "waiting", "receiving", "dead"}
HandlerStages ==
  {"idle", "connecting", "waiting", "receiving", "registering", "opening", "sending", "dead"}
Roles ==
  \A t \in Threads :
    /\ stage[t] \in IF t[2] = Cli THEN CliStages ELSE HandlerStages
    /\ stage[t] \in {"asking", "searching", "registering"} => file[t] \in Files

Searching(p) == stage[<<p, Cli>>] \in {"asking", "searching"}

\* A question of p waits at the server, or is being answered.
Waits(i, p) == queue[i].type = "SEARCH_INDEX" /\ queue[i].peer = p
Answering(w, p) == msg[w].type = "SEARCH_INDEX" /\ msg[w].peer = p

\* Nothing is left of an earlier question of p.
Quiet(p) ==
  /\ \A i \in DOMAIN queue : ~Waits(i, p)
  /\ \A w \in Workers : ~Answering(w, p)

\* A peer has one question at a time, and no answer before it was asked.
OneQuestion(p) ==
  /\ \A i, j \in DOMAIN queue : Waits(i, p) /\ Waits(j, p) => i = j
  /\ \A v, w \in Workers : Answering(v, p) /\ Answering(w, p) => v = w
  /\ \A i \in DOMAIN queue, w \in Workers : ~(Waits(i, p) /\ Answering(w, p))
  /\ reply[p] # NoReply => Quiet(p)
  /\ stage[<<p, Cli>>] \notin {"asking", "searching", "dead"} => Quiet(p) /\ reply[p] = NoReply

Asked ==
  /\ server_up => \A p \in Peers : OneQuestion(p)
  /\ \A p \in Peers : Searching(p) =>
       /\ \A i \in DOMAIN queue : Waits(i, p) => queue[i].file = file[<<p, Cli>>]
       /\ \A w \in Workers : Answering(w, p) => msg[w].file = file[<<p, Cli>>]

\* Whoever is to be listed, is listed, is named in an answer or in an order has it all.
QueuedIsWhole ==
  \A i \in DOMAIN queue : queue[i].type = "REGISTER_FILE" => Whole(queue[i].peer, queue[i].file)
TakenIsWhole == \A w \in Workers : msg[w].type = "REGISTER_FILE" => Whole(msg[w].peer, msg[w].file)
ListedIsWhole ==
  \A f \in Files : \A i \in DOMAIN file_peer_map[f] : Whole(file_peer_map[f][i].peer, f)
OrderedIsWhole ==
  \A p \in Peers : \A i \in DOMAIN inbox[p] :
    inbox[p][i].type = "REPLICATION_REQ" => Whole(inbox[p][i].holder, inbox[p][i].file)
AnswerIsWhole ==
  \A p \in Peers : Searching(p) /\ reply[p] \in Peers => Whole(reply[p], file[<<p, Cli>>])
ReplicaIsWhole == \A t \in Threads : stage[t] = "registering" => Whole(t[1], file[t])

IndexSound ==
  exposed = {} =>
    QueuedIsWhole /\ TakenIsWhole /\ ListedIsWhole /\ OrderedIsWhole /\ AnswerIsWhole /\ ReplicaIsWhole

IInv == TypeOK /\ ServerTyped /\ Roles /\ Shape /\ Sound /\ Asked /\ IndexSound

-----------------------------------------------------------------------------
(* Facts.                                                                  *)

LEMMA LineFacts ==
  ASSUME NEW p \in Peers
  PROVE  <<p, Cli>> \in Threads /\ <<p, Cli>>[1] = p /\ <<p, Cli>>[2] = Cli
BY DEF Threads

LEMMA LineOfThread ==
  ASSUME NEW t \in Threads, t[2] = Cli
  PROVE  t = <<t[1], Cli>> /\ t[1] \in Peers
BY ThreadFacts

LEMMA TypedFacts ==
  ASSUME TypeOK
  PROVE  /\ Typed /\ inbox \in [Peers -> Seq(Requests \cup Orders)] /\ Requests \cup Orders \in Mails
         /\ stage \in [Threads -> Stages]
         /\ Connections = Requests \cup Orders
<1>1. Connections = Requests \cup Orders
  BY DEF Connections, Index!Orders, Requests, Orders
<1>2. inbox \in [Peers -> Seq(Requests \cup Orders)] /\ stage \in [Threads -> Stages]
  BY <1>1 DEF TypeOK
<1>3. Stages \subseteq AllStages
  BY DEF Stages, AllStages
<1>4. stage \in [Threads -> AllStages]
  BY <1>2, <1>3
<1> QED BY <1>1, <1>2, <1>4 DEF Typed, TypeOK, Mails

LEMMA CallFacts ==
  /\ Index!NoMessage.type = "NULL_MSG"
  /\ \A m \in Calls :
       /\ m.type \in {"NEW_USER", "REGISTER_FILE", "SEARCH_INDEX"}
       /\ m.type = "REGISTER_FILE" => m.file \in Files /\ m.peer \in Peers
       /\ m.type = "SEARCH_INDEX" => m \in Questions /\ m.file \in Files /\ m.peer \in Peers \cup {NoPeer}
       /\ m.type = "NEW_USER" => m.peer \in Peers
<1>1. Index!NoMessage.type = "NULL_MSG"
  BY DEF Index!NoMessage
<1>2. \A m \in Greetings : m.type = "NEW_USER" /\ m.peer \in Peers
  BY DEF Greetings
<1>3. \A m \in Registrations : m.type = "REGISTER_FILE" /\ m.file \in Files /\ m.peer \in Peers
  BY DEF Registrations
<1>4. \A m \in Questions : m.type = "SEARCH_INDEX" /\ m.file \in Files /\ m.peer \in Peers \cup {NoPeer}
  BY DEF Questions
<1> QED BY <1>1, <1>2, <1>3, <1>4 DEF Calls

LEMMA QueueFacts ==
  ASSUME ServerTyped
  PROVE  /\ queue \in Seq(Calls) /\ Len(queue) \in Nat /\ DOMAIN queue = 1..Len(queue)
         /\ \A i \in DOMAIN queue : queue[i] \in Calls
         /\ \A w \in Workers : msg[w] \in Calls \cup {Index!NoMessage}
<1>1. queue \in Seq(Calls)
  BY DEF ServerTyped
<1>2. Len(queue) \in Nat /\ DOMAIN queue = 1..Len(queue)
  BY <1>1, LenProperties
<1>3. \A i \in DOMAIN queue : queue[i] \in Calls
  BY <1>1, <1>2, ElementOfSeq
<1> QED BY <1>1, <1>2, <1>3 DEF ServerTyped

LEMMA QueueAppend ==
  ASSUME ServerTyped, NEW m \in Calls, queue' = Append(queue, m)
  PROVE  /\ queue' \in Seq(Calls)
         /\ \E n : /\ n \notin DOMAIN queue /\ DOMAIN queue' = DOMAIN queue \cup {n} /\ queue'[n] = m
                   /\ \A i \in DOMAIN queue : queue'[i] = queue[i]
<1>1. PICK s \in Seq(Calls) : s = queue
  BY DEF ServerTyped
<1>2. PICK n \in Nat : n = Len(s) /\ DOMAIN s = 1..n
  <2>1. Len(s) \in Nat /\ DOMAIN s = 1..Len(s)
    BY LenProperties
  <2> QED BY <2>1, Zenon
<1>3. /\ Append(s, m) \in Seq(Calls) /\ Len(Append(s, m)) = n + 1
      /\ \A i \in 1..n : Append(s, m)[i] = s[i]
      /\ Append(s, m)[n + 1] = m
  BY <1>1, <1>2, AppendProperties
<1>4. DOMAIN Append(s, m) = 1..(n + 1) /\ n + 1 \notin 1..n /\ 1..(n + 1) = 1..n \cup {n + 1}
  BY <1>3, LenProperties
<1> QED BY <1>1, <1>2, <1>3, <1>4

LEMMA QueueTail ==
  ASSUME ServerTyped, queue # <<>>, queue' = Tail(queue)
  PROVE  /\ queue' \in Seq(Calls) /\ Head(queue) = queue[1] /\ 1 \in DOMAIN queue
         /\ \A i \in DOMAIN queue' :
              i \in Nat /\ i + 1 \in DOMAIN queue /\ i + 1 # 1 /\ queue'[i] = queue[i + 1]
<1>1. PICK s \in Seq(Calls) : s = queue /\ s # <<>>
  BY DEF ServerTyped
<1>2. PICK n \in Nat : n = Len(s) /\ n # 0 /\ DOMAIN s = 1..n
  <2>1. Len(s) \in Nat /\ DOMAIN s = 1..Len(s) /\ Len(s) # 0
    BY <1>1, LenProperties, EmptySeq
  <2> QED BY <2>1, Zenon
<1>3. /\ Tail(s) \in Seq(Calls) /\ Len(Tail(s)) = n - 1 /\ Head(s) = s[1]
      /\ \A i \in 1..Len(Tail(s)) : Tail(s)[i] = s[i + 1]
  BY <1>1, <1>2, HeadTailProperties
<1>4. DOMAIN Tail(s) = 1..(n - 1)
  BY <1>3, LenProperties
<1>5. \A i \in 1..(n - 1) : i \in Nat /\ i + 1 \in 1..n /\ i + 1 # 1
  BY <1>2
<1> QED BY <1>1, <1>2, <1>3, <1>4, <1>5

-----------------------------------------------------------------------------
(* What is left alone.                                                     *)

\* A step of nobody who asks, and nobody's answer.
LEMMA AskedFrame ==
  ASSUME Asked, server_up' => server_up, queue' = queue, reply' = reply,
         \A w \in Workers : msg'[w] = msg[w] \/ msg'[w].type = "NULL_MSG",
         \A p \in Peers : Searching(p)' => Searching(p) /\ file'[<<p, Cli>>] = file[<<p, Cli>>],
         \A p \in Peers : stage'[<<p, Cli>>] \notin {"asking", "searching", "dead"} =>
                          stage[<<p, Cli>>] \notin {"asking", "searching", "dead"}
  PROVE  Asked'
<1>1. \A i, p : Waits(i, p)' <=> Waits(i, p)
  BY DEF Waits
<1>2. \A w \in Workers : \A p : Answering(w, p)' => Answering(w, p) /\ msg'[w] = msg[w]
  BY DEF Answering
<1>3. \A p : Quiet(p) => Quiet(p)'
  BY <1>1, <1>2 DEF Quiet
<1>4. ASSUME NEW p \in Peers, OneQuestion(p) PROVE OneQuestion(p)'
  BY <1>1, <1>2, <1>3, <1>4 DEF OneQuestion
<1>5. ASSUME NEW p \in Peers, Searching(p)'
      PROVE  /\ \A i \in DOMAIN queue' : Waits(i, p)' => queue'[i].file = file'[<<p, Cli>>]
             /\ \A w \in Workers : Answering(w, p)' => msg'[w].file = file'[<<p, Cli>>]
  BY <1>1, <1>2, <1>5 DEF Asked
<1> QED BY <1>4, <1>5 DEF Asked

\* What is whole in the index and around it stays so as long as files do.
LEMMA StillWhole ==
  ASSUME IInv, exposed = {},
         \A q \in Peers, f \in Files : content[q][f] = Blocks => content'[q][f] = Blocks
  PROVE  /\ \A i \in DOMAIN queue :
              queue[i].type = "REGISTER_FILE" => content'[queue[i].peer][queue[i].file] = Blocks
         /\ \A w \in Workers :
              msg[w].type = "REGISTER_FILE" => content'[msg[w].peer][msg[w].file] = Blocks
         /\ \A f \in Files : \A i \in DOMAIN file_peer_map[f] : content'[file_peer_map[f][i].peer][f] = Blocks
         /\ \A p \in Peers : \A i \in DOMAIN inbox[p] :
              inbox[p][i].type = "REPLICATION_REQ" => content'[inbox[p][i].holder][inbox[p][i].file] = Blocks
         /\ \A p \in Peers :
              Searching(p) /\ reply[p] \in Peers => content'[reply[p]][file[<<p, Cli>>]] = Blocks
         /\ \A t \in Threads : stage[t] = "registering" => content'[t[1]][file[t]] = Blocks
<1>0. QueuedIsWhole /\ TakenIsWhole /\ ListedIsWhole /\ OrderedIsWhole /\ AnswerIsWhole /\ ReplicaIsWhole
  BY DEF IInv, IndexSound
<1>1. ASSUME NEW i \in DOMAIN queue, queue[i].type = "REGISTER_FILE"
      PROVE  content'[queue[i].peer][queue[i].file] = Blocks
  <2>1. queue[i].peer \in Peers /\ queue[i].file \in Files
    BY <1>1, QueueFacts, CallFacts DEF IInv
  <2> QED BY <1>0, <1>1, <2>1 DEF QueuedIsWhole, Whole
<1>2. ASSUME NEW w \in Workers, msg[w].type = "REGISTER_FILE"
      PROVE  content'[msg[w].peer][msg[w].file] = Blocks
  <2>1. msg[w].peer \in Peers /\ msg[w].file \in Files
    BY <1>2, QueueFacts, CallFacts DEF IInv
  <2> QED BY <1>0, <1>2, <2>1 DEF TakenIsWhole, Whole
<1>3. ASSUME NEW f \in Files, NEW i \in DOMAIN file_peer_map[f]
      PROVE  content'[file_peer_map[f][i].peer][f] = Blocks
  <2>1. file_peer_map[f] \in Seq(Index!Conns)
    BY DEF IInv, ServerTyped
  <2>2. file_peer_map[f][i] \in Index!Conns
    BY <2>1, LenProperties, ElementOfSeq
  <2>3. file_peer_map[f][i].peer \in Peers
    BY <2>2 DEF Index!Conns
  <2> QED BY <1>0, <2>3 DEF ListedIsWhole, Whole
<1>4. ASSUME NEW p \in Peers, NEW i \in DOMAIN inbox[p], inbox[p][i].type = "REPLICATION_REQ"
      PROVE  content'[inbox[p][i].holder][inbox[p][i].file] = Blocks
  <2>1. inbox[p][i] \in Orders
    BY <1>4, TypedFacts, InboxFacts DEF IInv, Requests
  <2> QED BY <1>0, <1>4, <2>1 DEF OrderedIsWhole, Whole, Orders
<1>5. ASSUME NEW p \in Peers, Searching(p), reply[p] \in Peers
      PROVE  content'[reply[p]][file[<<p, Cli>>]] = Blocks
  <2>1. file[<<p, Cli>>] \in Files
    BY <1>5, LineFacts DEF IInv, Roles, Searching
  <2> QED BY <1>0, <1>5, <2>1 DEF AnswerIsWhole, Whole
<1>6. ASSUME NEW t \in Threads, stage[t] = "registering" PROVE content'[t[1]][file[t]] = Blocks
  <2>1. file[t] \in Files /\ t[1] \in Peers
    BY <1>6, ThreadFacts DEF IInv, Roles
  <2> QED BY <1>0, <1>6, <2>1 DEF ReplicaIsWhole, Whole
<1> QED BY <1>1, <1>2, <1>3, <1>4, <1>5, <1>6

\* The index, when the server does nothing.
LEMMA IndexFrame ==
  ASSUME IInv, UNCHANGED <<server, reply, exposed>>,
         exposed = {} => \A q \in Peers, f \in Files : content[q][f] = Blocks => content'[q][f] = Blocks,
         \A p \in Peers : \A i \in DOMAIN inbox'[p] : inbox'[p][i].type = "REPLICATION_REQ" =>
           \E j \in DOMAIN inbox[p] : inbox[p][j] = inbox'[p][i],
         \A p \in Peers : Searching(p)' => Searching(p) /\ file'[<<p, Cli>>] = file[<<p, Cli>>],
         \A t \in Threads : stage'[t] = "registering" =>
           \/ stage[t] = "registering" /\ file'[t] = file[t]
           \/ exposed = {} => content'[t[1]][file'[t]] = Blocks
  PROVE  IndexSound'
<1> SUFFICES ASSUME exposed = {}
             PROVE  (QueuedIsWhole /\ TakenIsWhole /\ ListedIsWhole /\ OrderedIsWhole /\ AnswerIsWhole
                     /\ ReplicaIsWhole)'
  BY DEF IndexSound
<1>1. UNCHANGED <<queue, msg, file_peer_map, reply>>
  BY DEF server
<1>2. QueuedIsWhole' /\ TakenIsWhole' /\ ListedIsWhole'
  BY <1>1, StillWhole DEF QueuedIsWhole, TakenIsWhole, ListedIsWhole, Whole
<1>3. OrderedIsWhole'
  BY StillWhole DEF OrderedIsWhole, Whole
<1>4. AnswerIsWhole'
  BY <1>1, StillWhole DEF AnswerIsWhole, Whole
<1>5. ReplicaIsWhole'
  BY StillWhole DEF ReplicaIsWhole, Whole
<1> QED BY <1>2, <1>3, <1>4, <1>5

-----------------------------------------------------------------------------
(* Transfers and deaths.                                                   *)

\* What a step that keeps the transfers leaves of the types.
LEMMA OwnTypes ==
  ASSUME TypeOK, Kept, stage' \in [Threads -> Stages], reply' \in [Peers -> Peers \cup {NoPeer, NoReply}],
         menu' \in [Peers -> Seq(Choices)], todo' \in [Peers -> SUBSET Files]
  PROVE  TypeOK'
<1>1. inbox' \in [Peers -> Seq(Requests \cup Orders)]
  BY TypedFacts DEF Kept
<1>2. Connections' = Requests \cup Orders
  BY DEF Connections, Index!Orders, Requests, Orders
<1>3. inbox' \in [Peers -> Seq(Connections')]
  BY <1>1, <1>2
<1> QED BY <1>3 DEF TypeOK, Kept

LEMMA ServerFrame ==
  ASSUME ServerTyped, UNCHANGED <<server_up, queue, msg, pc, file_peer_map>>
  PROVE  ServerTyped'
BY DEF ServerTyped, Index!NoMessage, Index!Conns

LEMMA DieInv ==
  ASSUME IInv, NEW p \in Peers, Die(p), UNCHANGED <<server, reply, todo>>, menu' \in [Peers -> Seq(Choices)]
  PROVE  IInv'
<1>1. Kept
  BY TypedFacts, DieKeeps DEF IInv
<1>2. /\ \A t \in Threads :
           IF t[1] = p THEN stage'[t] = "dead" ELSE stage'[t] = stage[t] /\ file'[t] = file[t]
      /\ stage' \in [Threads -> Stages]
      /\ content' = content /\ exposed' = exposed
  BY TypedFacts DEF Die, IInv, Stages
<1>3. TypeOK'
  <2>1. reply' \in [Peers -> Peers \cup {NoPeer, NoReply}] /\ todo' \in [Peers -> SUBSET Files]
    BY DEF IInv, TypeOK
  <2> QED BY <1>1, <1>2, <2>1, OwnTypes DEF IInv
<1>4. Roles'
  BY <1>2 DEF IInv, Roles, CliStages, HandlerStages
<1>5. UNCHANGED <<server_up, queue, msg, pc, file_peer_map, reply>>
  BY DEF server
<1>6. ServerTyped'
  BY <1>5, ServerFrame DEF IInv
<1>7. \A q \in Peers :
        IF q = p THEN stage'[<<q, Cli>>] = "dead"
        ELSE stage'[<<q, Cli>>] = stage[<<q, Cli>>] /\ file'[<<q, Cli>>] = file[<<q, Cli>>]
  BY <1>2, LineFacts
<1>8. \A q \in Peers : Searching(q)' => Searching(q) /\ file'[<<q, Cli>>] = file[<<q, Cli>>]
  BY <1>7 DEF Searching
<1>9. Asked'
  BY <1>5, <1>7, <1>8, AskedFrame DEF IInv
<1>10. IndexSound'
  <2>1. \A q \in Peers : \A i \in DOMAIN inbox'[q] : inbox'[q][i].type = "REPLICATION_REQ" =>
          \E j \in DOMAIN inbox[q] : inbox[q][j] = inbox'[q][i]
    BY TypedFacts, InboxCut DEF IInv
  <2>2. \A t \in Threads : stage'[t] = "registering" => stage[t] = "registering" /\ file'[t] = file[t]
    BY <1>2
  <2> QED BY <1>2, <1>8, <2>1, <2>2, IndexFrame
<1> QED BY <1>1, <1>3, <1>4, <1>6, <1>9, <1>10 DEF IInv, Kept

\* A step of a transfer: a death, or a step of one thread in its role.
LEMMA TransferFrame ==
  ASSUME TypeOK, Roles, NEW t \in Threads, Download(t) \/ (t[2] # Cli /\ Upload(t)) \/ Reset(t)
  PROVE  \/ Die(t[1])
         \/ /\ UNCHANGED <<up, from, restarts, exposed>>
            /\ \A u \in Threads : u # t => stage'[u] = stage[u] /\ file'[u] = file[u]
            /\ stage' \in [Threads -> Stages]
            /\ stage[t] \in {"connecting", "waiting", "receiving"} => file'[t] = file[t]
            /\ t[2] = Cli =>
                 /\ stage[t] \in {"connecting", "waiting", "receiving"}
                 /\ stage'[t] \in {"waiting", "receiving", "menu"}
            /\ t[2] # Cli => stage'[t] \in HandlerStages
            /\ stage'[t] = "registering" => Receive(t) /\ stage[t] = "receiving"
<1>0. stage \in [Threads -> Stages] /\ file \in [Threads -> Files \cup {NoFile}]
  BY DEF TypeOK, TransfersTypeOK
<1>1. CASE request_file(t)
  BY <1>0, <1>1 DEF request_file, Goto, Stages, HandlerStages
<1>2. CASE Create(t)
  BY <1>0, <1>2 DEF Create, Goto, Stages, work, HandlerStages
<1>3. CASE Refused(t) \/ Reset(t)
  BY <1>0, <1>3 DEF Refused, Reset, Ended, Goto, Stages, work, HandlerStages
<1>4. CASE Receive(t)
  BY <1>0, <1>4 DEF Receive, Ended, Goto, Stages, HandlerStages
<1>5. CASE t[2] # Cli /\ Upload(t)
  <2>2. CASE HandleRequest(t)
    BY <1>0, <1>5, <2>2 DEF HandleRequest, Goto, Stages, HandlerStages
  <2>3. CASE send_file(t)
    BY <1>0, <1>5, <2>3 DEF send_file, Goto, Stages, HandlerStages
  <2>4. CASE SendBlock(t)
    BY <1>0, <1>5, <2>4 DEF SendBlock, Goto, Stages, HandlerStages
  <2>5. CASE SendToNobody(t)
    BY <2>5 DEF SendToNobody
  <2> QED BY <1>5, <2>2, <2>3, <2>4, <2>5 DEF Upload
<1> QED BY <1>1, <1>2, <1>3, <1>4, <1>5 DEF Download

\* No transfer puts an order of the server into a connection.
LEMMA TransferOrders ==
  ASSUME Typed, Shape, NEW t \in Threads, Download(t) \/ Upload(t) \/ Reset(t), ~Die(t[1]),
         NEW p \in Peers, NEW i \in DOMAIN inbox'[p], inbox'[p][i].type = "REPLICATION_REQ"
  PROVE  \E j \in DOMAIN inbox[p] : inbox[p][j] = inbox'[p][i]
<1>1. CASE request_file(t)
  <2>1. /\ inbox' = [inbox EXCEPT ![from[t]] = Append(@, Request(t))]
        /\ from[t] \in Peers /\ file[t] \in Files
    BY <1>1 DEF request_file, Shape
  <2>2. PICK q \in Peers, m \in Requests : q = from[t] /\ m = Request(t)
    BY <2>1 DEF Request, Requests
  <2>3. inbox' = [inbox EXCEPT ![q] = Append(@, m)] /\ m.type = "REQUEST_FILE"
    BY <2>1, <2>2 DEF Requests
  <2> QED BY <2>3, InboxAppend
<1>2. CASE HandleRequest(t)
  <2>1. PICK q \in Peers : q = t[1]
    BY ThreadFacts
  <2>2. inbox[q] # <<>> /\ inbox' = [inbox EXCEPT ![q] = Tail(@)]
    BY <1>2, <2>1 DEF HandleRequest
  <2>3. CASE p = q
    <3>1. \A k \in DOMAIN inbox'[q] : k + 1 \in DOMAIN inbox[q] /\ inbox'[q][k] = inbox[q][k + 1]
      BY <2>2, InboxTail
    <3> QED BY <2>3, <3>1
  <2>4. CASE p # q
    BY <2>2, <2>4, InboxTail
  <2> QED BY <2>3, <2>4
<1>3. CASE Refused(t) \/ Create(t) \/ Receive(t) \/ Reset(t) \/ send_file(t) \/ SendBlock(t)
  <2>1. inbox' = inbox
    BY <1>3 DEF Refused, Create, Receive, Reset, send_file, SendBlock
  <2> QED BY <2>1
<1> QED BY <1>1, <1>2, <1>3 DEF Download, Upload, SendToNobody

LEMMA TransferInv ==
  ASSUME IInv, NEW t \in Threads, Download(t) \/ (t[2] # Cli /\ Upload(t)) \/ Reset(t),
         UNCHANGED <<server, reply, user>>
  PROVE  IInv'
<1>0. menu' \in [Peers -> Seq(Choices)] /\ todo' \in [Peers -> SUBSET Files] /\ todo' = todo
      /\ reply' \in [Peers -> Peers \cup {NoPeer, NoReply}]
  BY DEF user, IInv, TypeOK
<1>1. CASE Die(t[1])
  BY <1>0, <1>1, DieInv, ThreadFacts
<1>2. CASE ~Die(t[1])
  <2>1. Kept /\ Typed
    BY TypedFacts, TransferKeeps DEF IInv
  <2>2. /\ UNCHANGED <<up, from, restarts, exposed>>
        /\ \A u \in Threads : u # t => stage'[u] = stage[u] /\ file'[u] = file[u]
        /\ stage' \in [Threads -> Stages]
        /\ stage[t] \in {"connecting", "waiting", "receiving"} => file'[t] = file[t]
        /\ t[2] = Cli =>
             /\ stage[t] \in {"connecting", "waiting", "receiving"}
             /\ stage'[t] \in {"waiting", "receiving", "menu"}
        /\ t[2] # Cli => stage'[t] \in HandlerStages
        /\ stage'[t] = "registering" => Receive(t) /\ stage[t] = "receiving"
    BY <1>2, TransferFrame DEF IInv
  <2>3. TypeOK'
    BY <1>0, <2>1, <2>2, OwnTypes DEF IInv
  <2>4. Roles'
    <3>1. stage'[t] = "registering" => file'[t] \in Files
      BY <2>2 DEF IInv, Shape
    <3> QED BY <2>2, <3>1 DEF IInv, Roles, CliStages, HandlerStages
  <2>5. UNCHANGED <<server_up, queue, msg, pc, file_peer_map, reply>>
    BY DEF server
  <2>6. ServerTyped'
    BY <2>5, ServerFrame DEF IInv
  <2>7. \A q \in Peers :
          \/ stage'[<<q, Cli>>] = stage[<<q, Cli>>] /\ file'[<<q, Cli>>] = file[<<q, Cli>>]
          \/ /\ stage[<<q, Cli>>] \in {"connecting", "waiting", "receiving"}
             /\ stage'[<<q, Cli>>] \in {"waiting", "receiving", "menu"}
    <3> SUFFICES ASSUME NEW q \in Peers
                 PROVE  \/ stage'[<<q, Cli>>] = stage[<<q, Cli>>] /\ file'[<<q, Cli>>] = file[<<q, Cli>>]
                        \/ /\ stage[<<q, Cli>>] \in {"connecting", "waiting", "receiving"}
                           /\ stage'[<<q, Cli>>] \in {"waiting", "receiving", "menu"}
      OBVIOUS
    <3>1. CASE t = <<q, Cli>>
      BY <2>2, <3>1
    <3>2. CASE t # <<q, Cli>>
      BY <2>2, <3>2, LineFacts
    <3> QED BY <3>1, <3>2
  <2>8. \A q \in Peers : Searching(q)' => Searching(q) /\ file'[<<q, Cli>>] = file[<<q, Cli>>]
    BY <2>7 DEF Searching
  <2>9. Asked'
    BY <2>5, <2>7, <2>8, AskedFrame DEF IInv
  <2>10. IndexSound'
    <3>1. exposed = {} => \A q \in Peers, f \in Files : content[q][f] = Blocks => content'[q][f] = Blocks
      BY <2>1, TransferKeepsWhole DEF IInv, Whole
    <3>2. \A q \in Peers : \A i \in DOMAIN inbox'[q] : inbox'[q][i].type = "REPLICATION_REQ" =>
            \E j \in DOMAIN inbox[q] : inbox[q][j] = inbox'[q][i]
      BY <1>2, <2>1, TransferOrders DEF IInv
    <3>3. ASSUME NEW u \in Threads, stage'[u] = "registering"
          PROVE  \/ stage[u] = "registering" /\ file'[u] = file[u]
                 \/ exposed = {} => content'[u[1]][file'[u]] = Blocks
      <4>1. CASE u # t
        BY <2>2, <3>3, <4>1
      <4>2. CASE u = t
        <5>1. Receive(t) /\ file'[t] = file[t] /\ stage'[t] \in {"menu", "registering"}
          BY <2>2, <3>3, <4>2
        <5>2. exposed = {} => content'[t[1]][file[t]] = Blocks
          BY <2>1, <5>1, SuccessIsWhole DEF IInv
        <5> QED BY <4>2, <5>1, <5>2
      <4> QED BY <4>1, <4>2
    <3> QED BY <2>2, <2>8, <3>1, <3>2, <3>3, IndexFrame
  <2> QED BY <2>1, <2>3, <2>4, <2>6, <2>9, <2>10 DEF IInv, Kept
<1> QED BY <1>1, <1>2

-----------------------------------------------------------------------------
(* The server.                                                             *)

\* The peers, when the server does something.
LEMMA PeersFrame ==
  ASSUME IInv, UNCHANGED <<up, inbox, content, stage, work, from, channel, result, restarts, exposed, user>>,
         reply' \in [Peers -> Peers \cup {NoPeer, NoReply}]
  PROVE  /\ TypeOK' /\ Roles' /\ Shape' /\ Sound'
         /\ \A p \in Peers : Searching(p)' = Searching(p) /\ file'[<<p, Cli>>] = file[<<p, Cli>>]
         /\ UNCHANGED <<content, stage, file, inbox, exposed>>
         /\ \A q, f : Whole(q, f)' = Whole(q, f)
<1>1. UNCHANGED <<up, inbox, content, stage, file, client, count, from, channel, result, restarts, exposed, menu, todo>>
  BY DEF work, user
<1>2. \A q, f : Whole(q, f)' = Whole(q, f)
  BY <1>1 DEF Whole
<1>3. TransfersTypeOK'
  BY <1>1 DEF IInv, TypeOK, TransfersTypeOK
<1>4. TypeOK'
  <2>1. inbox' \in [Peers -> Seq(Connections')]
    BY <1>1 DEF IInv, TypeOK, Connections, Index!Orders
  <2> QED BY <1>1, <1>3, <2>1 DEF IInv, TypeOK
<1>5. Roles' /\ Shape'
  BY <1>1 DEF IInv, Roles, Shape
<1>6. Sound'
  BY <1>1, <1>2 DEF IInv, Sound, NamedIsWhole, AskedIsWhole, SentIsWhole, OnlyData, ReceivedIsThere,
                    NobodyRefuses
<1> QED BY <1>1, <1>2, <1>4, <1>5, <1>6 DEF Searching

\* A step of a worker with what it has, or the end of its handler.
LEMMA WorkerInv ==
  ASSUME IInv, UNCHANGED <<up, inbox, content, stage, work, from, channel, result, restarts, exposed, user>>,
         UNCHANGED <<queue, reply>>, server_up' => server_up, ServerTyped',
         \A w \in Workers : msg'[w] = msg[w] \/ msg'[w].type = "NULL_MSG",
         exposed = {} => ListedIsWhole'
  PROVE  IInv'
<1>1. reply' \in [Peers -> Peers \cup {NoPeer, NoReply}]
  BY DEF IInv, TypeOK
<1>2. /\ TypeOK' /\ Roles' /\ Shape' /\ Sound'
      /\ \A p \in Peers : Searching(p)' = Searching(p) /\ file'[<<p, Cli>>] = file[<<p, Cli>>]
      /\ UNCHANGED <<content, stage, file, inbox, exposed>>
      /\ \A q, f : Whole(q, f)' = Whole(q, f)
  BY <1>1, PeersFrame
<1>3. Asked'
  BY <1>2, AskedFrame DEF IInv
<1>4. IndexSound'
  BY <1>2 DEF IInv, IndexSound, QueuedIsWhole, TakenIsWhole, OrderedIsWhole, AnswerIsWhole, ReplicaIsWhole
<1> QED BY <1>2, <1>3, <1>4 DEF IInv

\* What a worker holds and does after a step of its own.
LEMMA WorkerTyped ==
  ASSUME ServerTyped, NEW w \in Workers, server_up' \in BOOLEAN, queue' = queue,
         file_peer_map' \in [Files -> Seq(Index!Conns)],
         \/ Index!Return(w)
         \/ msg[w].type = "REGISTER_FILE" /\ msg' = msg
            /\ \E place \in {"replicate", "scan", "send"} : pc' = [pc EXCEPT ![w] = place]
         \/ UNCHANGED <<pc, msg>>
  PROVE  ServerTyped' /\ \A v \in Workers : msg'[v] = msg[v] \/ msg'[v].type = "NULL_MSG"
<1>1. CASE Index!Return(w)
  <2>1. msg' = [msg EXCEPT ![w] = Index!NoMessage] /\ pc' = [pc EXCEPT ![w] = "idle"]
    BY <1>1 DEF Index!Return, Index!NoMessage
  <2>2. \A v \in Workers : /\ msg'[v] = IF v = w THEN Index!NoMessage ELSE msg[v]
                           /\ pc'[v] = IF v = w THEN "idle" ELSE pc[v]
    BY <2>1 DEF ServerTyped
  <2>3. Index!NoMessage' = Index!NoMessage /\ Index!Conns' = Index!Conns
    BY DEF Index!NoMessage, Index!Conns
  <2>4. /\ msg' \in [Workers -> Calls \cup {Index!NoMessage}]
        /\ pc' \in [Workers -> {"idle", "NEW_USER", "REGISTER_FILE", "SEARCH_INDEX", "replicate", "scan", "send"}]
    BY <2>1 DEF ServerTyped
  <2>5. ServerTyped'
    BY <2>2, <2>3, <2>4, CallFacts DEF ServerTyped
  <2> QED BY <2>2, <2>5, CallFacts
<1>2. ASSUME NEW place \in {"replicate", "scan", "send"}, msg[w].type = "REGISTER_FILE", msg' = msg,
             pc' = [pc EXCEPT ![w] = place]
      PROVE  ServerTyped'
  <2>1. \A v \in Workers : pc'[v] = IF v = w THEN place ELSE pc[v]
    BY <1>2 DEF ServerTyped
  <2>2. pc' \in [Workers -> {"idle", "NEW_USER", "REGISTER_FILE", "SEARCH_INDEX", "replicate", "scan", "send"}]
    BY <1>2 DEF ServerTyped
  <2>3. Index!NoMessage' = Index!NoMessage /\ Index!Conns' = Index!Conns
    BY DEF Index!NoMessage, Index!Conns
  <2> QED BY <1>2, <2>1, <2>2, <2>3 DEF ServerTyped
<1>3. CASE UNCHANGED <<pc, msg>>
  BY <1>3 DEF ServerTyped, Index!NoMessage, Index!Conns
<1> QED BY <1>1, <1>2, <1>3

LEMMA TakeInv ==
  ASSUME IInv, NEW w \in Workers, Index!Take(w),
         UNCHANGED <<content, stage, work, from, channel, result, restarts, exposed, user>>
  PROVE  IInv'
<1>1. /\ server_up /\ pc[w] = "idle" /\ queue # <<>>
      /\ queue' = Tail(queue) /\ msg' = [msg EXCEPT ![w] = Head(queue)]
      /\ pc' = [pc EXCEPT ![w] = Head(queue).type]
      /\ UNCHANGED <<server_up, up, file_peer_map, inbox, reply>>
  BY DEF Index!Take
<1>2. /\ queue' \in Seq(Calls) /\ Head(queue) = queue[1] /\ 1 \in DOMAIN queue
      /\ \A i \in DOMAIN queue' : i \in Nat /\ i + 1 \in DOMAIN queue /\ i + 1 # 1 /\ queue'[i] = queue[i + 1]
  BY <1>1, QueueTail DEF IInv
<1>3. PICK m \in Calls : m = queue[1]
  BY <1>2, QueueFacts DEF IInv
<1>4. /\ \A v \in Workers : msg'[v] = (IF v = w THEN m ELSE msg[v]) /\ pc'[v] = IF v = w THEN m.type ELSE pc[v]
      /\ msg' \in [Workers -> Calls \cup {Index!NoMessage}]
      /\ pc' \in [Workers -> {"idle", "NEW_USER", "REGISTER_FILE", "SEARCH_INDEX", "replicate", "scan", "send"}]
  BY <1>1, <1>2, <1>3, CallFacts DEF IInv, ServerTyped
<1>5. ServerTyped'
  <2>1. Index!NoMessage' = Index!NoMessage /\ Index!Conns' = Index!Conns
    BY DEF Index!NoMessage, Index!Conns
  <2> QED BY <1>1, <1>2, <1>4, <2>1, CallFacts DEF IInv, ServerTyped
<1>6. reply' \in [Peers -> Peers \cup {NoPeer, NoReply}]
  BY <1>1 DEF IInv, TypeOK
<1>7. /\ TypeOK' /\ Roles' /\ Shape' /\ Sound'
      /\ \A p \in Peers : Searching(p)' = Searching(p) /\ file'[<<p, Cli>>] = file[<<p, Cli>>]
      /\ UNCHANGED <<content, stage, file, inbox, exposed>>
      /\ \A q, f : Whole(q, f)' = Whole(q, f)
  BY <1>1, <1>6, PeersFrame
<1>8. /\ \A i \in DOMAIN queue' : \A p : Waits(i, p)' <=> Waits(i + 1, p)
      /\ \A v \in Workers : \A p : Answering(v, p)' <=> IF v = w THEN Waits(1, p) ELSE Answering(v, p)
  BY <1>2, <1>3, <1>4 DEF Waits, Answering
<1>9. Asked'
  <2>1. ASSUME NEW p \in Peers, Quiet(p) PROVE Quiet(p)'
    BY <1>2, <1>8, <2>1 DEF Quiet
  <2>2. ASSUME NEW p \in Peers, OneQuestion(p) PROVE OneQuestion(p)'
    <3>1. \A i, j \in DOMAIN queue' : Waits(i, p)' /\ Waits(j, p)' => i = j
      <4>1. \A i, j \in DOMAIN queue' : Waits(i, p)' /\ Waits(j, p)' => i + 1 = j + 1
        BY <1>2, <1>8, <2>2 DEF OneQuestion
      <4> QED BY <1>2, <4>1
    <3>2. \A u, v \in Workers : Answering(u, p)' /\ Answering(v, p)' => u = v
      BY <1>2, <1>8, <2>2 DEF OneQuestion
    <3>3. \A i \in DOMAIN queue', v \in Workers : ~(Waits(i, p)' /\ Answering(v, p)')
      BY <1>2, <1>8, <2>2 DEF OneQuestion
    <3>4. /\ reply'[p] # NoReply => Quiet(p)'
          /\ stage'[<<p, Cli>>] \notin {"asking", "searching", "dead"} => Quiet(p)' /\ reply'[p] = NoReply
      BY <1>1, <1>7, <2>1, <2>2 DEF OneQuestion
    <3> QED BY <3>1, <3>2, <3>3, <3>4 DEF OneQuestion
  <2>3. ASSUME NEW p \in Peers, Searching(p)'
        PROVE  /\ \A i \in DOMAIN queue' : Waits(i, p)' => queue'[i].file = file'[<<p, Cli>>]
               /\ \A v \in Workers : Answering(v, p)' => msg'[v].file = file'[<<p, Cli>>]
    BY <1>2, <1>3, <1>4, <1>7, <1>8, <2>3 DEF IInv, Asked
  <2> QED BY <1>1, <2>2, <2>3 DEF IInv, Asked
<1>10. IndexSound'
  <2> SUFFICES ASSUME exposed = {}
               PROVE  (QueuedIsWhole /\ TakenIsWhole /\ ListedIsWhole /\ OrderedIsWhole /\ AnswerIsWhole
                       /\ ReplicaIsWhole)'
    BY <1>7 DEF IndexSound
  <2>1. QueuedIsWhole'
    BY <1>2, <1>7 DEF IInv, IndexSound, QueuedIsWhole
  <2>2. TakenIsWhole'
    BY <1>2, <1>3, <1>4, <1>7 DEF IInv, IndexSound, QueuedIsWhole, TakenIsWhole
  <2>3. ListedIsWhole' /\ OrderedIsWhole' /\ AnswerIsWhole' /\ ReplicaIsWhole'
    BY <1>1, <1>7 DEF IInv, IndexSound, ListedIsWhole, OrderedIsWhole, AnswerIsWhole, ReplicaIsWhole
  <2> QED BY <2>1, <2>2, <2>3
<1> QED BY <1>5, <1>7, <1>9, <1>10 DEF IInv

\* Steps of a worker that leave the index and the peers alone.
LEMMA RoundInv ==
  ASSUME IInv, NEW w \in Workers,
         \/ Index!register_user(w) \/ Index!find_replication_peers(w) \/ Index!look(w)
         \/ Index!end_replication(w),
         UNCHANGED <<content, stage, work, from, channel, result, restarts, exposed, user>>
  PROVE  IInv'
<1>1. UNCHANGED <<server_up, up, queue, file_peer_map, inbox, reply>>
  BY DEF Index!register_user, Index!find_replication_peers, Index!look, Index!end_replication
<1>2. \/ Index!Return(w)
      \/ msg[w].type = "REGISTER_FILE" /\ msg' = msg
         /\ \E place \in {"replicate", "scan", "send"} : pc' = [pc EXCEPT ![w] = place]
      \/ UNCHANGED <<pc, msg>>
  <2>1. CASE Index!register_user(w) \/ Index!end_replication(w)
    BY <2>1 DEF Index!register_user, Index!end_replication
  <2>2. CASE Index!find_replication_peers(w)
    <3>1. msg[w].type = "REGISTER_FILE"
      BY <2>2 DEF IInv, ServerTyped, Index!find_replication_peers, Index!At
    <3> QED BY <2>2, <3>1 DEF Index!find_replication_peers, Index!Goto
  <2>3. CASE Index!look(w)
    <3>1. msg[w].type = "REGISTER_FILE"
      BY <2>3 DEF IInv, ServerTyped, Index!look, Index!At
    <3> QED BY <2>3, <3>1 DEF Index!look, Index!Goto
  <2> QED BY <2>1, <2>2, <2>3
<1>3. ServerTyped' /\ \A v \in Workers : msg'[v] = msg[v] \/ msg'[v].type = "NULL_MSG"
  BY <1>1, <1>2, WorkerTyped DEF IInv, ServerTyped
<1>4. exposed = {} => ListedIsWhole'
  BY <1>1 DEF IInv, IndexSound, ListedIsWhole, Whole
<1> QED BY <1>1, <1>3, <1>4, WorkerInv

\* A registration is of a file the peer has all of.
LEMMA register_fileInv ==
  ASSUME IInv, NEW w \in Workers, Index!register_file(w),
         UNCHANGED <<content, stage, work, from, channel, result, restarts, exposed, user>>
  PROVE  IInv'
<1>1. msg[w].type = "REGISTER_FILE" /\ msg[w] \in Calls
  BY QueueFacts, CallFacts DEF IInv, ServerTyped, Index!register_file, Index!At
<1>2. PICK f \in Files, p \in Peers : f = msg[w].file /\ p = msg[w].peer
  BY <1>1, CallFacts
<1>3. PICK c \in Index!Conns :
        c.peer = p /\ file_peer_map' = [file_peer_map EXCEPT ![f] = Append(@, c)]
  <2>1. PICK s \in Sockets :
          file_peer_map' = [file_peer_map EXCEPT ![f] = Append(@, [peer |-> p, sock |-> s])]
    BY <1>2 DEF Index!register_file, Index!add_peer
  <2>2. [peer |-> p, sock |-> s] \in Index!Conns /\ [peer |-> p, sock |-> s].peer = p
    BY DEF Index!Conns
  <2> QED BY <2>1, <2>2
<1>4. UNCHANGED <<server_up, up, queue, inbox, reply>>
  BY DEF Index!register_file
<1>5. PICK s \in Seq(Index!Conns) : s = file_peer_map[f]
  BY DEF IInv, ServerTyped
<1>6. /\ Append(s, c) \in Seq(Index!Conns)
      /\ \A i \in DOMAIN Append(s, c) : Append(s, c)[i] = c \/ (i \in DOMAIN s /\ Append(s, c)[i] = s[i])
  <2>1. PICK n \in Nat : n = Len(s) /\ DOMAIN s = 1..n
    <3>1. Len(s) \in Nat /\ DOMAIN s = 1..Len(s)
      BY LenProperties
    <3> QED BY <3>1, Zenon
  <2>2. /\ Append(s, c) \in Seq(Index!Conns) /\ Len(Append(s, c)) = n + 1
        /\ \A i \in 1..n : Append(s, c)[i] = s[i]
        /\ Append(s, c)[n + 1] = c
    BY <2>1, AppendProperties
  <2>3. DOMAIN Append(s, c) = 1..(n + 1) /\ \A i \in 1..(n + 1) : i \in 1..n \/ i = n + 1
    BY <2>2, LenProperties
  <2> QED BY <2>1, <2>2, <2>3
<1>7. /\ file_peer_map' \in [Files -> Seq(Index!Conns)]
      /\ \A g \in Files : file_peer_map'[g] = IF g = f THEN Append(s, c) ELSE file_peer_map[g]
  BY <1>3, <1>5, <1>6 DEF IInv, ServerTyped
<1>8. Index!Return(w) \/ (msg' = msg /\ pc' = [pc EXCEPT ![w] = "replicate"])
  BY DEF Index!register_file, Index!Goto
<1>9. ServerTyped' /\ \A v \in Workers : msg'[v] = msg[v] \/ msg'[v].type = "NULL_MSG"
  BY <1>1, <1>4, <1>7, <1>8, WorkerTyped DEF IInv, ServerTyped
<1>10. exposed = {} => ListedIsWhole'
  <2> SUFFICES ASSUME exposed = {}, NEW g \in Files, NEW i \in DOMAIN file_peer_map'[g]
               PROVE  content[file_peer_map'[g][i].peer][g] = Blocks
    BY DEF ListedIsWhole, Whole
  <2>1. ListedIsWhole /\ Whole(p, f)
    BY <1>1, <1>2 DEF IInv, IndexSound, TakenIsWhole
  <2>2. CASE i \in DOMAIN file_peer_map[g] /\ file_peer_map'[g][i] = file_peer_map[g][i]
    BY <2>1, <2>2 DEF ListedIsWhole, Whole
  <2>3. CASE g = f /\ file_peer_map'[g][i] = c
    BY <1>3, <2>1, <2>3 DEF Whole
  <2> QED BY <1>5, <1>6, <1>7, <2>2, <2>3
<1> QED BY <1>4, <1>9, <1>10, WorkerInv

\* An answer names a holder of the file that was asked for, and is the only one.
LEMMA search_indexInv ==
  ASSUME IInv, NEW w \in Workers, Index!search_index(w),
         UNCHANGED <<content, stage, work, from, channel, result, restarts, exposed, user>>
  PROVE  IInv'
<1>1. /\ server_up /\ msg[w].type = "SEARCH_INDEX" /\ msg[w] \in Calls
      /\ Index!Return(w) /\ UNCHANGED <<server_up, up, queue, file_peer_map, inbox>>
  BY QueueFacts, CallFacts DEF IInv, ServerTyped, Index!search_index, Index!At
<1>2. PICK f \in Files, p \in Peers \cup {NoPeer} : f = msg[w].file /\ p = msg[w].peer
  BY <1>1, CallFacts
<1>3. PICK h \in Peers \cup {NoPeer} :
        /\ reply' = [reply EXCEPT ![p] = h]
        /\ h \in Peers => \E i \in DOMAIN file_peer_map[f] : file_peer_map[f][i].peer = h
  <2>1. PICK h \in Index!get_rand_peer(f) : reply' = [reply EXCEPT ![p] = h]
    BY <1>2 DEF Index!search_index
  <2>2. CASE h \in Index!Holders(f)
    <3>1. PICK i \in DOMAIN file_peer_map[f] : file_peer_map[f][i].peer = h
      BY <2>2 DEF Index!Holders
    <3>2. file_peer_map[f][i] \in Index!Conns
      <4>1. file_peer_map[f] \in Seq(Index!Conns)
        BY DEF IInv, ServerTyped
      <4> QED BY <4>1, LenProperties, ElementOfSeq
    <3>3. h \in Peers
      BY <3>1, <3>2 DEF Index!Conns
    <3> QED BY <2>1, <3>1, <3>3
  <2>3. CASE h = NoPeer
    BY <2>1, <2>3, TransferAssumption
  <2> QED BY <2>1, <2>2, <2>3 DEF Index!get_rand_peer
<1>4. /\ reply' \in [Peers -> Peers \cup {NoPeer, NoReply}]
      /\ \A q \in Peers : reply'[q] = IF q = p THEN h ELSE reply[q]
  BY <1>3 DEF IInv, TypeOK
<1>5. /\ TypeOK' /\ Roles' /\ Shape' /\ Sound'
      /\ \A q \in Peers : Searching(q)' = Searching(q) /\ file'[<<q, Cli>>] = file[<<q, Cli>>]
      /\ UNCHANGED <<content, stage, file, inbox, exposed>>
      /\ \A q, g : Whole(q, g)' = Whole(q, g)
  BY <1>1, <1>4, PeersFrame
<1>6. ServerTyped' /\ \A v \in Workers : msg'[v] = msg[v] \/ msg'[v].type = "NULL_MSG"
  BY <1>1, WorkerTyped DEF IInv, ServerTyped
<1>7. /\ \A i, q : Waits(i, q)' <=> Waits(i, q)
      /\ \A v \in Workers : \A q : Answering(v, q)' <=> v # w /\ Answering(v, q)
      /\ \A v \in Workers : v # w => msg'[v] = msg[v]
  <2>1. \A v \in Workers : msg'[v] = IF v = w THEN Index!NoMessage ELSE msg[v]
    BY <1>1 DEF Index!Return, Index!NoMessage, IInv, ServerTyped
  <2> QED BY <1>1, <2>1, CallFacts DEF Waits, Answering
<1>8. Asked'
  <2>1. ASSUME NEW q \in Peers, OneQuestion(q) PROVE OneQuestion(q)'
    <3>1. Quiet(q) => Quiet(q)'
      BY <1>1, <1>7 DEF Quiet
    <3>2. q = p => Quiet(q)' /\ ~Quiet(q)
      <4>1. q = p => Answering(w, q)
        BY <1>1, <1>2 DEF Answering
      <4> QED BY <1>1, <1>7, <2>1, <4>1 DEF OneQuestion, Quiet
    <3>3. reply'[q] # NoReply => Quiet(q)'
      BY <1>4, <2>1, <3>1, <3>2 DEF OneQuestion
    <3>4. stage'[<<q, Cli>>] \notin {"asking", "searching", "dead"} => Quiet(q)' /\ reply'[q] = NoReply
      BY <1>4, <1>5, <2>1, <3>1, <3>2 DEF OneQuestion
    <3> QED BY <1>1, <1>7, <2>1, <3>3, <3>4 DEF OneQuestion
  <2>2. ASSUME NEW q \in Peers, Searching(q)'
        PROVE  /\ \A i \in DOMAIN queue' : Waits(i, q)' => queue'[i].file = file'[<<q, Cli>>]
               /\ \A v \in Workers : Answering(v, q)' => msg'[v].file = file'[<<q, Cli>>]
    BY <1>1, <1>5, <1>7, <2>2 DEF IInv, Asked
  <2> QED BY <1>1, <2>1, <2>2 DEF IInv, Asked
<1>9. IndexSound'
  <2> SUFFICES ASSUME exposed = {}
               PROVE  (QueuedIsWhole /\ TakenIsWhole /\ ListedIsWhole /\ OrderedIsWhole /\ AnswerIsWhole
                       /\ ReplicaIsWhole)'
    BY <1>5 DEF IndexSound
  <2>1. QueuedIsWhole' /\ ListedIsWhole' /\ OrderedIsWhole' /\ ReplicaIsWhole'
    BY <1>1, <1>5 DEF IInv, IndexSound, QueuedIsWhole, ListedIsWhole, OrderedIsWhole, ReplicaIsWhole
  <2>2. TakenIsWhole'
    BY <1>5, <1>6 DEF IInv, IndexSound, TakenIsWhole
  <2>3. AnswerIsWhole'
    <3> SUFFICES ASSUME NEW q \in Peers, Searching(q), reply'[q] \in Peers
                 PROVE  Whole(reply'[q], file[<<q, Cli>>])
      BY <1>5 DEF AnswerIsWhole
    <3>1. CASE q = p
      <4>1. f = file[<<q, Cli>>]
        BY <1>1, <1>2, <3>1 DEF IInv, Asked, Answering
      <4> QED BY <1>3, <1>4, <3>1, <4>1 DEF IInv, IndexSound, ListedIsWhole
    <3>2. CASE q # p
      BY <1>4, <3>2 DEF IInv, IndexSound, AnswerIsWhole
    <3> QED BY <3>1, <3>2
  <2> QED BY <2>1, <2>2, <2>3
<1> QED BY <1>5, <1>6, <1>8, <1>9 DEF IInv

\* An order names the peer whose registration it is for.
LEMMA request_replicationInv ==
  ASSUME IInv, NEW w \in Workers, Index!request_replication(w),
         UNCHANGED <<content, stage, work, from, channel, result, restarts, exposed, user>>
  PROVE  IInv'
<1>1. /\ msg[w].type = "REGISTER_FILE" /\ msg[w] \in Calls
      /\ UNCHANGED <<up, queue, file_peer_map, pc, msg, reply>>
  BY QueueFacts, CallFacts DEF IInv, ServerTyped, Index!request_replication, Index!At
<1>2. CASE server_up' = FALSE /\ inbox' = inbox
  <2>1. ServerTyped' /\ \A v \in Workers : msg'[v] = msg[v] \/ msg'[v].type = "NULL_MSG"
    BY <1>1, <1>2, WorkerTyped DEF IInv, ServerTyped
  <2>2. exposed = {} => ListedIsWhole'
    BY <1>1 DEF IInv, IndexSound, ListedIsWhole, Whole
  <2> QED BY <1>1, <1>2, <2>1, <2>2, WorkerInv
<1>3. ASSUME NEW p \in Peers, inbox' = [inbox EXCEPT ![p] = Append(@, Index!Order(w))], server_up' = server_up
      PROVE  IInv'
  <2>1. PICK m \in Orders : m = Index!Order(w)
    BY <1>1, CallFacts DEF Index!Order, Orders
  <2>2. m.type = "REPLICATION_REQ" /\ m.file = msg[w].file /\ m.holder = msg[w].peer
    BY <2>1 DEF Index!Order
  <2>3. inbox' = [inbox EXCEPT ![p] = Append(@, m)] /\ m \in Requests \cup Orders
    BY <1>3, <2>1
  <2>4. Typed /\ inbox \in [Peers -> Seq(Requests \cup Orders)] /\ Requests \cup Orders \in Mails
    BY TypedFacts DEF IInv
  <2>5. /\ inbox' \in [Peers -> Seq(Requests \cup Orders)]
        /\ \A q \in Peers : q # p => inbox'[q] = inbox[q]
        /\ \A i \in DOMAIN inbox'[p] :
             inbox'[p][i] = m \/ (i \in DOMAIN inbox[p] /\ inbox'[p][i] = inbox[p][i])
    BY <2>3, <2>4, InboxAppend
  <2>6. UNCHANGED <<up, content, stage, file, client, count, from, channel, result, restarts, exposed, menu, todo>>
    BY <1>1 DEF work, user
  <2>7. \A q, f : Whole(q, f)' = Whole(q, f)
    BY <2>6 DEF Whole
  <2>8. TypeOK'
    <3>1. TransfersTypeOK'
      BY <2>6 DEF IInv, TypeOK, TransfersTypeOK
    <3>2. Connections' = Requests \cup Orders
      BY DEF Connections, Index!Orders, Requests, Orders
    <3>3. inbox' \in [Peers -> Seq(Connections')]
      BY <2>5, <3>2
    <3> QED BY <1>1, <2>6, <3>1, <3>3 DEF IInv, TypeOK
  <2>9. ServerTyped' /\ Roles' /\ Shape'
    BY <1>1, <1>3, <2>6, ServerFrame DEF IInv, Roles, Shape
  <2>10. Sound'
    <3> SUFFICES ASSUME exposed = {} PROVE AskedIsWhole'
      BY <2>6, <2>7 DEF IInv, Sound, NamedIsWhole, SentIsWhole, OnlyData, ReceivedIsThere, NobodyRefuses
    <3>1. \A q \in Peers : \A i \in DOMAIN inbox'[q] : inbox'[q][i].type = "REQUEST_FILE" =>
            i \in DOMAIN inbox[q] /\ inbox'[q][i] = inbox[q][i]
      BY <2>2, <2>5
    <3> QED BY <2>7, <3>1 DEF IInv, Sound, AskedIsWhole
  <2>11. Asked'
    <3>1. \A q \in Peers : Searching(q)' = Searching(q) /\ file'[<<q, Cli>>] = file[<<q, Cli>>]
      BY <2>6 DEF Searching
    <3> QED BY <1>1, <1>3, <2>6, <3>1, AskedFrame DEF IInv
  <2>12. IndexSound'
    <3> SUFFICES ASSUME exposed = {}
                 PROVE  (QueuedIsWhole /\ TakenIsWhole /\ ListedIsWhole /\ OrderedIsWhole /\ AnswerIsWhole
                         /\ ReplicaIsWhole)'
      BY <2>6 DEF IndexSound
    <3>1. QueuedIsWhole' /\ TakenIsWhole' /\ ListedIsWhole' /\ ReplicaIsWhole'
      BY <1>1, <2>6, <2>7 DEF IInv, IndexSound, QueuedIsWhole, TakenIsWhole, ListedIsWhole, ReplicaIsWhole
    <3>2. AnswerIsWhole'
      BY <1>1, <2>6, <2>7 DEF IInv, IndexSound, AnswerIsWhole, Searching
    <3>3. OrderedIsWhole'
      <4>1. Whole(m.holder, m.file)
        BY <1>1, <2>2 DEF IInv, IndexSound, TakenIsWhole
      <4>2. \A q \in Peers : \A i \in DOMAIN inbox'[q] :
              inbox'[q][i] = m \/ (i \in DOMAIN inbox[q] /\ inbox'[q][i] = inbox[q][i])
        BY <2>5
      <4> QED BY <2>7, <4>1, <4>2 DEF IInv, IndexSound, OrderedIsWhole
    <3> QED BY <3>1, <3>2, <3>3
  <2> QED BY <2>8, <2>9, <2>10, <2>11, <2>12 DEF IInv
<1>4. Head(valid_peers[w]).peer \in up => Head(valid_peers[w]).peer \in Peers
  BY DEF IInv, TypeOK, TransfersTypeOK
<1> QED BY <1>2, <1>3, <1>4 DEF Index!request_replication

LEMMA ServeInv ==
  ASSUME IInv, NEW w \in Workers, Serve(w)
  PROVE  IInv'
<1>1. UNCHANGED <<content, stage, work, from, channel, result, restarts, exposed, user>> /\ Index!Work(w)
  BY DEF Serve
<1> QED BY <1>1, TakeInv, RoundInv, register_fileInv, search_indexInv, request_replicationInv DEF Index!Work

-----------------------------------------------------------------------------
(* The peers.                                                              *)

\* A thread moves on, with what it holds.
LEMMA MoveFrame ==
  ASSUME IInv, UNCHANGED <<up, inbox, content, work, from, channel, result, restarts>>,
         exposed \subseteq exposed', exposed' \subseteq Peers \X Files,
         reply' \in [Peers -> Peers \cup {NoPeer, NoReply}],
         menu' \in [Peers -> Seq(Choices)], todo' \in [Peers -> SUBSET Files],
         stage' \in [Threads -> Stages],
         \A t \in Threads :
           \/ stage'[t] = stage[t]
           \/ IF t[2] = Cli
              THEN stage[t] \in {"join", "menu", "listing"} /\ stage'[t] \in {"menu", "listing"}
              ELSE stage[t] # "dead" /\ stage'[t] = "idle"
  PROVE  /\ TypeOK' /\ Roles' /\ Shape' /\ Sound'
         /\ \A q, f : Whole(q, f)' = Whole(q, f)
         /\ UNCHANGED <<content, file, inbox>>
         /\ \A p \in Peers :
              \/ stage'[<<p, Cli>>] = stage[<<p, Cli>>]
              \/ /\ stage[<<p, Cli>>] \in {"join", "menu", "listing"}
                 /\ stage'[<<p, Cli>>] \in {"menu", "listing"}
         /\ \A t \in Threads : stage'[t] = "registering" => stage[t] = "registering"
<1>1. UNCHANGED <<up, inbox, content, file, client, count, from, channel, result, restarts>>
  BY DEF work
<1>2. \A q, f : Whole(q, f)' = Whole(q, f)
  BY <1>1 DEF Whole
<1>3. TransfersTypeOK'
  BY <1>1 DEF IInv, TypeOK, TransfersTypeOK
<1>4. TypeOK'
  <2>1. inbox' \in [Peers -> Seq(Connections')]
    BY <1>1 DEF IInv, TypeOK, Connections, Index!Orders
  <2> QED BY <1>1, <1>3, <2>1 DEF TypeOK
<1>5. Roles'
  BY <1>1 DEF IInv, Roles, CliStages, HandlerStages
<1>6. Shape'
  BY <1>1 DEF IInv, Shape
<1>7. Sound'
  <2> SUFFICES ASSUME exposed' = {}
               PROVE  (/\ NamedIsWhole /\ AskedIsWhole /\ SentIsWhole /\ OnlyData /\ ReceivedIsThere
                       /\ NobodyRefuses)'
    BY DEF Sound
  <2>1. NamedIsWhole /\ AskedIsWhole /\ SentIsWhole /\ OnlyData /\ ReceivedIsThere /\ NobodyRefuses
    BY DEF IInv, Sound
  <2>2. NamedIsWhole' /\ SentIsWhole' /\ ReceivedIsThere'
    BY <1>1, <1>2, <2>1 DEF NamedIsWhole, SentIsWhole, ReceivedIsThere
  <2>3. AskedIsWhole' /\ OnlyData' /\ NobodyRefuses'
    BY <1>1, <1>2, <2>1 DEF AskedIsWhole, OnlyData, NobodyRefuses
  <2> QED BY <2>2, <2>3
<1>8. \A p \in Peers :
        \/ stage'[<<p, Cli>>] = stage[<<p, Cli>>]
        \/ /\ stage[<<p, Cli>>] \in {"join", "menu", "listing"}
           /\ stage'[<<p, Cli>>] \in {"menu", "listing"}
  BY LineFacts
<1> QED BY <1>1, <1>2, <1>4, <1>5, <1>6, <1>7, <1>8

\* It does so without the server.
LEMMA MoveInv ==
  ASSUME IInv, UNCHANGED <<server, reply, up, inbox, content, work, from, channel, result, restarts, exposed>>,
         menu' \in [Peers -> Seq(Choices)], todo' \in [Peers -> SUBSET Files],
         NEW p \in Peers, NEW s \in {"menu", "listing"}, stage[<<p, Cli>>] \in {"join", "menu", "listing"},
         Goto(<<p, Cli>>, s)
  PROVE  IInv'
<1>1. /\ stage' \in [Threads -> Stages]
      /\ \A t \in Threads :
           \/ stage'[t] = stage[t]
           \/ t[2] = Cli /\ stage[t] \in {"join", "menu", "listing"} /\ stage'[t] \in {"menu", "listing"}
  <2>1. s \in Stages
    BY DEF Stages
  <2> QED BY <2>1, LineFacts DEF Goto, IInv, TypeOK
<1>2. reply' \in [Peers -> Peers \cup {NoPeer, NoReply}] /\ exposed' \subseteq Peers \X Files
  BY DEF IInv, TypeOK, TransfersTypeOK
<1>3. /\ TypeOK' /\ Roles' /\ Shape' /\ Sound'
      /\ UNCHANGED <<content, file, inbox>>
      /\ \A q \in Peers :
           \/ stage'[<<q, Cli>>] = stage[<<q, Cli>>]
           \/ /\ stage[<<q, Cli>>] \in {"join", "menu", "listing"}
              /\ stage'[<<q, Cli>>] \in {"menu", "listing"}
      /\ \A t \in Threads : stage'[t] = "registering" => stage[t] = "registering"
  BY <1>1, <1>2, MoveFrame
<1>4. UNCHANGED <<server_up, queue, msg, pc, file_peer_map>>
  BY DEF server
<1>5. ServerTyped'
  BY <1>4, ServerFrame DEF IInv
<1>6. \A q \in Peers : Searching(q)' => Searching(q) /\ file'[<<q, Cli>>] = file[<<q, Cli>>]
  BY <1>3 DEF Searching
<1>7. Asked'
  BY <1>3, <1>4, <1>6, AskedFrame DEF IInv
<1>8. IndexSound'
  <2>1. \A q \in Peers : \A i \in DOMAIN inbox'[q] : inbox'[q][i].type = "REPLICATION_REQ" =>
          \E j \in DOMAIN inbox[q] : inbox[q][j] = inbox'[q][i]
    BY <1>3
  <2> QED BY <1>3, <1>6, <2>1, IndexFrame
<1> QED BY <1>3, <1>5, <1>7, <1>8 DEF IInv

\* It tells the server, but asks nothing.
LEMMA TellInv ==
  ASSUME IInv, NEW m \in Greetings \cup Registrations, Index!Arrive(m),
         UNCHANGED <<content, work, from, channel, result, restarts, menu>>,
         exposed \subseteq exposed', exposed' \subseteq Peers \X Files,
         exposed' = {} /\ m.type = "REGISTER_FILE" => Whole(m.peer, m.file),
         todo' \in [Peers -> SUBSET Files],
         stage' \in [Threads -> Stages],
         \A t \in Threads :
           \/ stage'[t] = stage[t]
           \/ IF t[2] = Cli
              THEN stage[t] \in {"join", "menu", "listing"} /\ stage'[t] \in {"menu", "listing"}
              ELSE stage[t] # "dead" /\ stage'[t] = "idle"
  PROVE  IInv'
<1>1. server_up /\ queue' = Append(queue, m) /\ UNCHANGED <<server_up, up, file_peer_map, pc, msg, inbox, reply>>
  BY DEF Index!Arrive
<1>2. m \in Calls /\ m.type # "SEARCH_INDEX"
  BY DEF Calls, Greetings, Registrations
<1>3. /\ queue' \in Seq(Calls)
      /\ \E n : /\ n \notin DOMAIN queue /\ DOMAIN queue' = DOMAIN queue \cup {n} /\ queue'[n] = m
                /\ \A i \in DOMAIN queue : queue'[i] = queue[i]
  BY <1>1, <1>2, QueueAppend DEF IInv
<1>4. PICK n : /\ n \notin DOMAIN queue /\ DOMAIN queue' = DOMAIN queue \cup {n} /\ queue'[n] = m
               /\ \A i \in DOMAIN queue : queue'[i] = queue[i]
  BY <1>3
<1>5. reply' \in [Peers -> Peers \cup {NoPeer, NoReply}] /\ menu' \in [Peers -> Seq(Choices)]
  BY <1>1 DEF IInv, TypeOK
<1>6. UNCHANGED <<up, inbox, content, work, from, channel, result, restarts>>
  BY <1>1
<1>7. /\ TypeOK' /\ Roles' /\ Shape' /\ Sound'
      /\ \A q, f : Whole(q, f)' = Whole(q, f)
      /\ UNCHANGED <<content, file, inbox>>
      /\ \A p \in Peers :
           \/ stage'[<<p, Cli>>] = stage[<<p, Cli>>]
           \/ /\ stage[<<p, Cli>>] \in {"join", "menu", "listing"}
              /\ stage'[<<p, Cli>>] \in {"menu", "listing"}
      /\ \A t \in Threads : stage'[t] = "registering" => stage[t] = "registering"
  BY <1>5, <1>6, MoveFrame
<1>8. ServerTyped'
  <2>1. Index!NoMessage' = Index!NoMessage /\ Index!Conns' = Index!Conns
    BY DEF Index!NoMessage, Index!Conns
  <2> QED BY <1>1, <1>3, <2>1 DEF IInv, ServerTyped
<1>9. Asked'
  <2>1. /\ \A i \in DOMAIN queue' : \A p : Waits(i, p)' <=> i \in DOMAIN queue /\ Waits(i, p)
        /\ \A v, p : Answering(v, p)' <=> Answering(v, p)
    BY <1>1, <1>2, <1>4 DEF Waits, Answering
  <2>2. ASSUME NEW p \in Peers, OneQuestion(p) PROVE OneQuestion(p)'
    <3>1. Quiet(p) => Quiet(p)'
      BY <2>1 DEF Quiet
    <3> QED BY <1>1, <1>7, <2>1, <2>2, <3>1 DEF OneQuestion
  <2>3. ASSUME NEW p \in Peers, Searching(p)'
        PROVE  /\ \A i \in DOMAIN queue' : Waits(i, p)' => queue'[i].file = file'[<<p, Cli>>]
               /\ \A v \in Workers : Answering(v, p)' => msg'[v].file = file'[<<p, Cli>>]
    <3>1. Searching(p)
      BY <1>7, <2>3 DEF Searching
    <3> QED BY <1>1, <1>4, <1>7, <2>1, <3>1 DEF IInv, Asked
  <2> QED BY <1>1, <2>2, <2>3 DEF IInv, Asked
<1>10. IndexSound'
  <2> SUFFICES ASSUME exposed' = {}
               PROVE  (QueuedIsWhole /\ TakenIsWhole /\ ListedIsWhole /\ OrderedIsWhole /\ AnswerIsWhole
                       /\ ReplicaIsWhole)'
    BY DEF IndexSound
  <2>1. QueuedIsWhole /\ TakenIsWhole /\ ListedIsWhole /\ OrderedIsWhole /\ AnswerIsWhole /\ ReplicaIsWhole
    BY DEF IInv, IndexSound
  <2>2. QueuedIsWhole'
    BY <1>4, <1>7, <2>1 DEF QueuedIsWhole
  <2>3. TakenIsWhole' /\ ListedIsWhole' /\ OrderedIsWhole' /\ ReplicaIsWhole'
    BY <1>1, <1>7, <2>1 DEF TakenIsWhole, ListedIsWhole, OrderedIsWhole, ReplicaIsWhole
  <2>4. AnswerIsWhole'
    <3>1. \A p \in Peers : Searching(p)' => Searching(p)
      BY <1>7 DEF Searching
    <3> QED BY <1>1, <1>7, <2>1, <3>1 DEF AnswerIsWhole
  <2> QED BY <2>2, <2>3, <2>4
<1> QED BY <1>7, <1>8, <1>9, <1>10 DEF IInv

LEMMA TellNobodyInv ==
  ASSUME IInv, NEW p \in Peers, TellNobody(p)
  PROVE  IInv'
BY DieInv DEF TellNobody, user, IInv, TypeOK

LEMMA register_userInv ==
  ASSUME IInv, NEW p \in Peers, register_user(p)
  PROVE  IInv'
<1>1. CASE TellNobody(p)
  BY <1>1, TellNobodyInv
<1>2. CASE /\ Tell(p, [type |-> "NEW_USER", peer |-> p])
           /\ Goto(<<p, Cli>>, "menu")
           /\ UNCHANGED <<content, work, from, channel, result, restarts, exposed, user>>
  <2>1. PICK m \in Greetings : m = [type |-> "NEW_USER", peer |-> p]
    BY DEF Greetings
  <2>2. Index!Arrive(m) /\ m.type # "REGISTER_FILE"
    BY <1>2, <2>1 DEF Tell
  <2>3. stage[<<p, Cli>>] = "join"
    BY DEF register_user
  <2>4. /\ stage' \in [Threads -> Stages]
        /\ \A t \in Threads :
             \/ stage'[t] = stage[t]
             \/ t[2] = Cli /\ stage[t] \in {"join", "menu", "listing"} /\ stage'[t] \in {"menu", "listing"}
    BY <1>2, <2>3, LineFacts DEF Goto, IInv, TypeOK, Stages
  <2>5. exposed' = exposed /\ exposed \subseteq Peers \X Files /\ todo' \in [Peers -> SUBSET Files] /\ menu' = menu
    BY <1>2 DEF IInv, TypeOK, TransfersTypeOK, user
  <2> QED BY <1>2, <2>2, <2>4, <2>5, TellInv
<1> QED BY <1>1, <1>2 DEF register_user

LEMMA ChoiceFacts ==
  ASSUME IInv, NEW p \in Peers, NEW c, Choose(p, c)
  PROVE  /\ stage[<<p, Cli>>] = "menu" /\ menu' \in [Peers -> Seq(Choices)]
         /\ c.do \in {"search", "request", "register"} => c.file \in Files
<1>1. stage[<<p, Cli>>] = "menu" /\ menu[p] # <<>> /\ c = Head(menu[p]) /\ menu' = [menu EXCEPT ![p] = Tail(@)]
  BY DEF Choose
<1>2. menu[p] \in Seq(Choices)
  BY DEF IInv, TypeOK
<1>3. Head(menu[p]) \in Choices /\ Tail(menu[p]) \in Seq(Choices)
  BY <1>1, <1>2, HeadTailProperties
<1>4. menu' \in [Peers -> Seq(Choices)]
  BY <1>1, <1>3 DEF IInv, TypeOK
<1>5. c.do \in {"search", "request", "register"} => c.file \in Files
  BY <1>1, <1>3 DEF Choices, Directory
<1> QED BY <1>1, <1>4, <1>5

LEMMA register_directoryInv ==
  ASSUME IInv, NEW p \in Peers, NEW c \in Choices, register_directory(p, c)
  PROVE  IInv'
<1>1. /\ c.do \in {"directory", "register"} /\ Choose(p, c)
      /\ todo' = [todo EXCEPT ![p] = IF c = Directory THEN Listing(p) ELSE {c.file}]
      /\ Goto(<<p, Cli>>, "listing")
      /\ UNCHANGED <<server, reply, up, inbox, content, work, from, channel, result, restarts, exposed>>
  BY DEF register_directory
<1>2. stage[<<p, Cli>>] = "menu" /\ menu' \in [Peers -> Seq(Choices)]
  BY <1>1, ChoiceFacts
<1>3. c # Directory => c.file \in Files
  BY DEF Choices
<1>4. todo' \in [Peers -> SUBSET Files]
  <2>1. Listing(p) \subseteq Files
    BY DEF Listing
  <2>2. \A S \in SUBSET Files : [todo EXCEPT ![p] = S] \in [Peers -> SUBSET Files]
    BY DEF IInv, TypeOK
  <2>3. (IF c = Directory THEN Listing(p) ELSE {c.file}) \in SUBSET Files
    BY <1>3, <2>1
  <2> QED BY <1>1, <2>2, <2>3
<1> QED BY <1>1, <1>2, <1>4, MoveInv

LEMMA ListFileInv ==
  ASSUME IInv, NEW p \in Peers, ListFile(p)
  PROVE  IInv'
<1>1. CASE TellNobody(p)
  BY <1>1, TellNobodyInv
<1>2. stage[<<p, Cli>>] = "listing"
  BY DEF ListFile
<1>3. ASSUME NEW f \in todo[p], register_file(<<p, Cli>>, f), Announce(p, {f}),
             todo' = [todo EXCEPT ![p] = @ \ {f}],
             UNCHANGED <<stage, content, work, from, channel, result, restarts, menu>>
      PROVE  IInv'
  <2>1. f \in Files /\ todo' \in [Peers -> SUBSET Files]
    BY <1>3 DEF IInv, TypeOK
  <2>2. PICK m \in Registrations : m = [type |-> "REGISTER_FILE", file |-> f, peer |-> p]
    BY <2>1 DEF Registrations
  <2>3. Index!Arrive(m) /\ m.file = f /\ m.peer = p
    BY <1>3, <2>2 DEF register_file, Tell
  <2>4. /\ exposed \subseteq exposed' /\ exposed' \subseteq Peers \X Files
        /\ exposed' = {} => Whole(p, f)
    <3>1. exposed' = exposed \cup {<<p, g>> : g \in {h \in {f} : ~Whole(p, h)}}
      BY <1>3 DEF Announce
    <3>2. ~Whole(p, f) => <<p, f>> \in exposed'
      BY <3>1
    <3> QED BY <2>1, <3>1, <3>2 DEF IInv, TypeOK, TransfersTypeOK
  <2>5. stage' \in [Threads -> Stages] /\ stage' = stage
    BY <1>3 DEF IInv, TypeOK
  <2> QED BY <1>3, <2>1, <2>3, <2>4, <2>5, TellInv
<1>4. CASE /\ Goto(<<p, Cli>>, "menu")
           /\ UNCHANGED <<server, reply, up, inbox, content, work, from, channel, result, restarts,
                          exposed, user>>
  <2>1. menu' \in [Peers -> Seq(Choices)] /\ todo' \in [Peers -> SUBSET Files]
    BY <1>4 DEF user, IInv, TypeOK
  <2> QED BY <1>2, <1>4, <2>1, MoveInv
<1> QED BY <1>1, <1>3, <1>4 DEF ListFile

LEMMA replicate_fileInv ==
  ASSUME IInv, NEW t \in Threads, t[2] # Cli, replicate_file(t)
  PROVE  IInv'
<1>1. CASE TellNobody(t[1])
  BY <1>1, TellNobodyInv, ThreadFacts
<1>2. CASE /\ register_file(t, file[t])
           /\ Goto(t, "idle")
           /\ UNCHANGED <<content, work, from, channel, result, restarts, exposed, user>>
  <2>1. PICK p \in Peers, f \in Files : p = t[1] /\ f = file[t]
    BY ThreadFacts DEF IInv, Roles, replicate_file
  <2>2. PICK m \in Registrations : m = [type |-> "REGISTER_FILE", file |-> f, peer |-> p]
    BY DEF Registrations
  <2>3. Index!Arrive(m) /\ m.file = f /\ m.peer = p
    BY <1>2, <2>1, <2>2 DEF register_file, Tell
  <2>4. stage[t] = "registering"
    BY DEF replicate_file
  <2>5. exposed = {} => Whole(m.peer, m.file)
    BY <2>1, <2>3, <2>4 DEF IInv, IndexSound, ReplicaIsWhole
  <2>6. /\ stage' \in [Threads -> Stages]
        /\ \A u \in Threads :
             \/ stage'[u] = stage[u]
             \/ u[2] # Cli /\ stage[u] # "dead" /\ stage'[u] = "idle"
    BY <1>2, <2>4 DEF Goto, IInv, TypeOK, Stages
  <2>7. exposed' = exposed /\ exposed \subseteq Peers \X Files /\ todo' \in [Peers -> SUBSET Files] /\ menu' = menu
    BY <1>2 DEF IInv, TypeOK, TransfersTypeOK, user
  <2> QED BY <1>2, <2>3, <2>5, <2>6, <2>7, TellInv
<1> QED BY <1>1, <1>2 DEF replicate_file

\* The answer is taken: nothing is left of the question, unless the server is gone.
LEMMA SearchEndsInv ==
  ASSUME IInv, NEW p \in Peers, SearchEnds(p)
  PROVE  IInv'
<1> DEFINE t == <<p, Cli>>
<1>0. t \in Threads /\ t[1] = p /\ t[2] = Cli
  BY LineFacts
<1>1. /\ stage[t] \in {"asking", "searching"}
      /\ reply[p] # NoReply \/ ~server_up
      /\ reply' = [reply EXCEPT ![p] = NoReply]
      /\ UNCHANGED <<server_up, queue, msg, pc, file_peer_map>>
      /\ UNCHANGED <<up, inbox, content, file, client, count, channel, restarts, exposed, menu, todo>>
  BY DEF SearchEnds, server, work, user
<1>2. file[t] \in Files
  BY <1>0, <1>1 DEF IInv, Roles
<1>3. \/ /\ stage[t] = "searching" /\ reply[p] \in Peers
         /\ from' = [from EXCEPT ![t] = reply[p]] /\ stage' = [stage EXCEPT ![t] = "connecting"] /\ result' = result
      \/ /\ stage' = [stage EXCEPT ![t] = "menu"] /\ from' = from
         /\ \E r \in {result[p], "nobody"} : result' = [result EXCEPT ![p] = r]
  BY DEF SearchEnds, Goto
<1>4. /\ stage' \in [Threads -> Stages] /\ stage'[t] \in {"menu", "connecting"}
      /\ \A u \in Threads : u # t => stage'[u] = stage[u] /\ from'[u] = from[u]
      /\ stage'[t] = "connecting" => stage[t] = "searching" /\ reply[p] \in Peers /\ from'[t] = reply[p]
      /\ from' \in [Threads -> Peers \cup {NoPeer}]
  BY <1>0, <1>1, <1>3 DEF IInv, TypeOK, TransfersTypeOK, Stages
<1>5. /\ result' \in [Peers -> {"none", "nobody", "refused", "lost", "downloaded"}]
      /\ NobodyRefuses => NobodyRefuses'
  BY <1>3 DEF IInv, TypeOK, TransfersTypeOK, NobodyRefuses
<1>6. /\ reply' \in [Peers -> Peers \cup {NoPeer, NoReply}] /\ reply'[p] = NoReply
      /\ \A q \in Peers : q # p => reply'[q] = reply[q]
  BY <1>1 DEF IInv, TypeOK
<1>7. TypeOK'
  <2>1. TransfersTypeOK'
    BY <1>1, <1>4, <1>5 DEF IInv, TypeOK, TransfersTypeOK
  <2>2. inbox' \in [Peers -> Seq(Connections')]
    BY <1>1 DEF IInv, TypeOK, Connections, Index!Orders
  <2> QED BY <1>1, <1>4, <1>6, <2>1, <2>2 DEF IInv, TypeOK
<1>8. ServerTyped'
  BY <1>1, ServerFrame DEF IInv
<1>9. Roles'
  BY <1>0, <1>1, <1>4 DEF IInv, Roles, CliStages
<1>10. Shape'
  <2>1. t[1] \in up
    BY <1>0, <1>1 DEF IInv, Shape
  <2> QED BY <1>1, <1>2, <1>4, <2>1 DEF IInv, Shape
<1>11. \A q, f : Whole(q, f)' = Whole(q, f)
  BY <1>1 DEF Whole
<1>12. Sound'
  <2> SUFFICES ASSUME exposed = {}
               PROVE  (/\ NamedIsWhole /\ AskedIsWhole /\ SentIsWhole /\ OnlyData /\ ReceivedIsThere
                       /\ NobodyRefuses)'
    BY <1>1 DEF Sound
  <2>1. NamedIsWhole /\ AskedIsWhole /\ SentIsWhole /\ OnlyData /\ ReceivedIsThere /\ NobodyRefuses
    BY DEF IInv, Sound
  <2>2. stage'[t] = "connecting" => Whole(from'[t], file'[t])
    BY <1>1, <1>4 DEF IInv, IndexSound, AnswerIsWhole, Searching
  <2>3. NamedIsWhole'
    BY <1>1, <1>4, <1>11, <2>1, <2>2 DEF NamedIsWhole
  <2>4. SentIsWhole' /\ ReceivedIsThere'
    BY <1>1, <1>4, <1>11, <2>1 DEF SentIsWhole, ReceivedIsThere
  <2>5. AskedIsWhole' /\ OnlyData' /\ NobodyRefuses'
    BY <1>1, <1>5, <1>11, <2>1 DEF AskedIsWhole, OnlyData
  <2> QED BY <2>3, <2>4, <2>5
<1>13. \A q \in Peers : IF q = p THEN ~Searching(q)' ELSE stage'[<<q, Cli>>] = stage[<<q, Cli>>]
  BY <1>0, <1>4, LineFacts DEF Searching
<1>14. Asked'
  <2>1. /\ \A i, q : Waits(i, q)' <=> Waits(i, q)
        /\ \A v, q : Answering(v, q)' <=> Answering(v, q)
        /\ \A q : Quiet(q)' <=> Quiet(q)
    BY <1>1 DEF Waits, Answering, Quiet
  <2>2. ASSUME NEW q \in Peers, OneQuestion(q), server_up PROVE OneQuestion(q)'
    <3>1. q = p => Quiet(q)
      BY <1>1, <2>2 DEF OneQuestion
    <3> QED BY <1>1, <1>6, <1>13, <2>1, <2>2, <3>1 DEF OneQuestion
  <2>3. ASSUME NEW q \in Peers, Searching(q)'
        PROVE  /\ \A i \in DOMAIN queue' : Waits(i, q)' => queue'[i].file = file'[<<q, Cli>>]
               /\ \A v \in Workers : Answering(v, q)' => msg'[v].file = file'[<<q, Cli>>]
    <3>1. Searching(q)
      BY <1>13, <2>3 DEF Searching
    <3> QED BY <1>1, <2>1, <3>1 DEF IInv, Asked
  <2> QED BY <1>1, <2>2, <2>3 DEF IInv, Asked
<1>15. IndexSound'
  <2> SUFFICES ASSUME exposed = {}
               PROVE  (QueuedIsWhole /\ TakenIsWhole /\ ListedIsWhole /\ OrderedIsWhole /\ AnswerIsWhole
                       /\ ReplicaIsWhole)'
    BY <1>1 DEF IndexSound
  <2>1. QueuedIsWhole /\ TakenIsWhole /\ ListedIsWhole /\ OrderedIsWhole /\ AnswerIsWhole /\ ReplicaIsWhole
    BY DEF IInv, IndexSound
  <2>2. QueuedIsWhole' /\ TakenIsWhole' /\ ListedIsWhole' /\ OrderedIsWhole'
    BY <1>1, <1>11, <2>1 DEF QueuedIsWhole, TakenIsWhole, ListedIsWhole, OrderedIsWhole
  <2>3. AnswerIsWhole'
    <3>1. \A q \in Peers : Searching(q)' => q # p /\ Searching(q)
      BY <1>13 DEF Searching
    <3> QED BY <1>1, <1>6, <1>11, <2>1, <3>1 DEF AnswerIsWhole
  <2>4. ReplicaIsWhole'
    BY <1>1, <1>4, <1>11, <2>1 DEF ReplicaIsWhole
  <2> QED BY <2>2, <2>3, <2>4
<1> QED BY <1>7, <1>8, <1>9, <1>10, <1>12, <1>14, <1>15 DEF IInv

\* A question, when nothing is left of the one before.
LEMMA search_for_fileInv ==
  ASSUME IInv, NEW p \in Peers, NEW c \in Choices, search_for_file(p, c)
  PROVE  IInv'
<1> DEFINE t == <<p, Cli>>
<1>0. t \in Threads /\ t[1] = p /\ t[2] = Cli
  BY LineFacts
<1>1. /\ Choose(p, c) /\ c.do \in {"search", "request"}
  BY DEF search_for_file
<1>2. stage[t] = "menu" /\ menu' \in [Peers -> Seq(Choices)] /\ c.file \in Files
  BY <1>1, ChoiceFacts
<1>3. CASE p \in up /\ ~server_up /\ Die(p) /\ UNCHANGED <<server, reply, todo>>
  BY <1>2, <1>3, DieInv
<1>4. CASE /\ Tell(p, [type |-> "SEARCH_INDEX", file |-> c.file, peer |-> p])
           /\ file' = [file EXCEPT ![t] = c.file]
           /\ Goto(t, IF c.do = "search" THEN "asking" ELSE "searching")
           /\ UNCHANGED <<content, from, client, count, channel, result, restarts, exposed, todo>>
  <2>1. PICK m \in Questions : m = [type |-> "SEARCH_INDEX", file |-> c.file, peer |-> p]
    BY <1>2 DEF Questions
  <2>2. m \in Calls /\ m.type = "SEARCH_INDEX" /\ m.file = c.file /\ m.peer = p
    BY <2>1 DEF Calls
  <2>3. /\ p \in up /\ server_up /\ queue' = Append(queue, m)
        /\ UNCHANGED <<server_up, up, file_peer_map, pc, msg, inbox, reply>>
    BY <1>4, <2>1 DEF Tell, Index!Arrive
  <2>4. queue' \in Seq(Calls)
    BY <2>2, <2>3, QueueAppend DEF IInv
  <2>5. PICK n : /\ n \notin DOMAIN queue /\ DOMAIN queue' = DOMAIN queue \cup {n} /\ queue'[n] = m
                 /\ \A i \in DOMAIN queue : queue'[i] = queue[i]
    BY <2>2, <2>3, QueueAppend DEF IInv
  <2>6. /\ stage' \in [Threads -> Stages] /\ stage'[t] \in {"asking", "searching"}
        /\ file' \in [Threads -> Files \cup {NoFile}] /\ file'[t] = c.file
        /\ \A u \in Threads : u # t => stage'[u] = stage[u] /\ file'[u] = file[u]
    BY <1>0, <1>2, <1>4 DEF Goto, IInv, TypeOK, TransfersTypeOK, Stages
  <2>7. UNCHANGED <<content, from, client, count, channel, result, restarts, exposed, todo>>
    BY <1>4
  <2>8. TypeOK'
    <3>1. TransfersTypeOK'
      BY <2>3, <2>6, <2>7 DEF IInv, TypeOK, TransfersTypeOK
    <3>2. inbox' \in [Peers -> Seq(Connections')]
      BY <2>3 DEF IInv, TypeOK, Connections, Index!Orders
    <3> QED BY <1>2, <2>3, <2>6, <2>7, <3>1, <3>2 DEF IInv, TypeOK
  <2>9. ServerTyped'
    <3>1. Index!NoMessage' = Index!NoMessage /\ Index!Conns' = Index!Conns
      BY DEF Index!NoMessage, Index!Conns
    <3> QED BY <2>3, <2>4, <3>1 DEF IInv, ServerTyped
  <2>10. Roles'
    BY <1>0, <1>2, <2>6 DEF IInv, Roles, CliStages
  <2>11. Shape'
    BY <1>0, <2>3, <2>6, <2>7 DEF IInv, Shape
  <2>12. \A q, f : Whole(q, f)' = Whole(q, f)
    BY <2>7 DEF Whole
  <2>13. Sound'
    <3> SUFFICES ASSUME exposed = {}
                 PROVE  (/\ NamedIsWhole /\ AskedIsWhole /\ SentIsWhole /\ OnlyData /\ ReceivedIsThere
                         /\ NobodyRefuses)'
      BY <2>7 DEF Sound
    <3>1. NamedIsWhole /\ AskedIsWhole /\ SentIsWhole /\ OnlyData /\ ReceivedIsThere /\ NobodyRefuses
      BY DEF IInv, Sound
    <3>2. NamedIsWhole' /\ SentIsWhole' /\ ReceivedIsThere'
      BY <2>6, <2>7, <2>12, <3>1 DEF NamedIsWhole, SentIsWhole, ReceivedIsThere
    <3>3. AskedIsWhole' /\ OnlyData' /\ NobodyRefuses'
      BY <2>3, <2>7, <2>12, <3>1 DEF AskedIsWhole, OnlyData, NobodyRefuses
    <3> QED BY <3>2, <3>3
  <2>14. \A q \in Peers : q # p =>
           stage'[<<q, Cli>>] = stage[<<q, Cli>>] /\ file'[<<q, Cli>>] = file[<<q, Cli>>]
    BY <2>6, LineFacts
  <2>15. OneQuestion(p) /\ Quiet(p) /\ reply[p] = NoReply
    BY <1>2, <2>3 DEF IInv, Asked, OneQuestion
  <2>16. /\ \A i \in DOMAIN queue' : \A q : Waits(i, q)' <=> IF i = n THEN q = p ELSE Waits(i, q)
         /\ \A v, q : Answering(v, q)' <=> Answering(v, q)
    BY <2>2, <2>3, <2>5 DEF Waits, Answering
  <2>17. Asked'
    <3>1. ASSUME NEW q \in Peers, q # p, OneQuestion(q) PROVE OneQuestion(q)'
      <4>1. Quiet(q) => Quiet(q)'
        BY <2>5, <2>16, <3>1 DEF Quiet
      <4> QED BY <2>3, <2>5, <2>14, <2>16, <3>1, <4>1 DEF OneQuestion
    <3>2. OneQuestion(p)'
      <4>1. \A i \in DOMAIN queue' : Waits(i, p)' => i = n
        BY <2>5, <2>15, <2>16 DEF Quiet
      <4>2. \A v \in Workers : ~Answering(v, p)'
        BY <2>15, <2>16 DEF Quiet
      <4> QED BY <2>3, <2>6, <2>15, <4>1, <4>2 DEF OneQuestion
    <3>3. ASSUME NEW q \in Peers, q # p, Searching(q)'
          PROVE  /\ \A i \in DOMAIN queue' : Waits(i, q)' => queue'[i].file = file'[<<q, Cli>>]
                 /\ \A v \in Workers : Answering(v, q)' => msg'[v].file = file'[<<q, Cli>>]
      <4>1. Searching(q)
        BY <2>14, <3>3 DEF Searching
      <4> QED BY <2>3, <2>5, <2>14, <2>16, <3>3, <4>1 DEF IInv, Asked
    <3>4. /\ \A i \in DOMAIN queue' : Waits(i, p)' => queue'[i].file = file'[t]
          /\ \A v \in Workers : Answering(v, p)' => msg'[v].file = file'[t]
      BY <2>2, <2>5, <2>6, <2>15, <2>16 DEF Quiet
    <3> QED BY <2>3, <3>1, <3>2, <3>3, <3>4 DEF IInv, Asked
  <2>18. IndexSound'
    <3> SUFFICES ASSUME exposed = {}
                 PROVE  (QueuedIsWhole /\ TakenIsWhole /\ ListedIsWhole /\ OrderedIsWhole /\ AnswerIsWhole
                         /\ ReplicaIsWhole)'
      BY <2>7 DEF IndexSound
    <3>1. QueuedIsWhole /\ TakenIsWhole /\ ListedIsWhole /\ OrderedIsWhole /\ AnswerIsWhole /\ ReplicaIsWhole
      BY DEF IInv, IndexSound
    <3>2. QueuedIsWhole'
      BY <2>2, <2>5, <2>12, <3>1 DEF QueuedIsWhole
    <3>3. TakenIsWhole' /\ ListedIsWhole' /\ OrderedIsWhole'
      BY <2>3, <2>12, <3>1 DEF TakenIsWhole, ListedIsWhole, OrderedIsWhole
    <3>4. AnswerIsWhole'
      <4>1. reply'[p] \notin Peers
        BY <2>3, <2>15, PeerAssumption
      <4>2. \A q \in Peers : q # p /\ Searching(q)' => Searching(q)
        BY <2>14 DEF Searching
      <4> QED BY <2>3, <2>12, <2>14, <3>1, <4>1, <4>2 DEF AnswerIsWhole
    <3>5. ReplicaIsWhole'
      BY <2>6, <2>12, <3>1 DEF ReplicaIsWhole
    <3> QED BY <3>2, <3>3, <3>4, <3>5
  <2> QED BY <2>8, <2>9, <2>10, <2>11, <2>13, <2>17, <2>18 DEF IInv
<1> QED BY <1>3, <1>4 DEF search_for_file

\* A handler begins the download it was ordered.
LEMMA HandleOrderInv ==
  ASSUME IInv, NEW t \in Threads, t[2] # Cli, HandleOrder(t)
  PROVE  IInv'
<1>1. PICK p \in Peers : p = t[1]
  BY ThreadFacts
<1>2. PICK m : m = Head(inbox[p])
  OBVIOUS
<1>3. /\ stage[t] = "idle" /\ inbox[p] # <<>> /\ m.type = "REPLICATION_REQ"
      /\ inbox' = [inbox EXCEPT ![p] = Tail(@)]
      /\ file' = [file EXCEPT ![t] = m.file] /\ from' = [from EXCEPT ![t] = m.holder]
      /\ stage' = [stage EXCEPT ![t] = "connecting"]
      /\ UNCHANGED <<server_up, queue, msg, pc, file_peer_map, reply>>
      /\ UNCHANGED <<up, content, client, count, channel, result, restarts, exposed, menu, todo>>
  BY <1>1, <1>2 DEF HandleOrder, Goto, server, user
<1>4. Typed /\ inbox \in [Peers -> Seq(Requests \cup Orders)] /\ Requests \cup Orders \in Mails
  BY TypedFacts DEF IInv
<1>5. /\ inbox' \in [Peers -> Seq(Requests \cup Orders)]
      /\ \A q \in Peers : q # p => inbox'[q] = inbox[q]
      /\ m = inbox[p][1] /\ 1 \in DOMAIN inbox[p]
      /\ \A i \in DOMAIN inbox'[p] : i + 1 \in DOMAIN inbox[p] /\ inbox'[p][i] = inbox[p][i + 1]
  BY <1>2, <1>3, <1>4, InboxTail
<1>6. m \in Orders /\ m.file \in Files /\ m.holder \in Peers
  <2>1. m \in Requests \cup Orders
    BY <1>4, <1>5, InboxFacts
  <2> QED BY <1>3, <2>1 DEF Requests, Orders
<1>7. /\ stage' \in [Threads -> Stages] /\ stage'[t] = "connecting"
      /\ file' \in [Threads -> Files \cup {NoFile}] /\ file'[t] = m.file
      /\ from' \in [Threads -> Peers \cup {NoPeer}] /\ from'[t] = m.holder
      /\ \A u \in Threads : u # t => stage'[u] = stage[u] /\ file'[u] = file[u] /\ from'[u] = from[u]
  BY <1>3, <1>6 DEF IInv, TypeOK, TransfersTypeOK, Stages
<1>8. TypeOK'
  <2>1. TransfersTypeOK'
    BY <1>3, <1>7 DEF IInv, TypeOK, TransfersTypeOK
  <2>2. Connections' = Requests \cup Orders
    BY DEF Connections, Index!Orders, Requests, Orders
  <2>3. inbox' \in [Peers -> Seq(Connections')]
    BY <1>5, <2>2
  <2> QED BY <1>3, <1>7, <2>1, <2>3 DEF IInv, TypeOK
<1>9. ServerTyped'
  BY <1>3, ServerFrame DEF IInv
<1>10. Roles'
  BY <1>7 DEF IInv, Roles, HandlerStages
<1>11. Shape'
  <2>1. t[1] \in up
    BY <1>3 DEF IInv, Shape
  <2> QED BY <1>3, <1>6, <1>7, <2>1 DEF IInv, Shape
<1>12. \A q, f : Whole(q, f)' = Whole(q, f)
  BY <1>3 DEF Whole
<1>13. \A q \in Peers : \A i \in DOMAIN inbox'[q] : \E j \in DOMAIN inbox[q] : inbox[q][j] = inbox'[q][i]
  <2> SUFFICES ASSUME NEW q \in Peers, NEW i \in DOMAIN inbox'[q]
               PROVE  \E j \in DOMAIN inbox[q] : inbox[q][j] = inbox'[q][i]
    OBVIOUS
  <2>1. CASE q = p
    BY <1>5, <2>1
  <2>2. CASE q # p
    BY <1>5, <2>2
  <2> QED BY <2>1, <2>2
<1>14. Sound'
  <2> SUFFICES ASSUME exposed = {}
               PROVE  (/\ NamedIsWhole /\ AskedIsWhole /\ SentIsWhole /\ OnlyData /\ ReceivedIsThere
                       /\ NobodyRefuses)'
    BY <1>3 DEF Sound
  <2>1. NamedIsWhole /\ AskedIsWhole /\ SentIsWhole /\ OnlyData /\ ReceivedIsThere /\ NobodyRefuses
    BY DEF IInv, Sound
  <2>2. Whole(m.holder, m.file)
    BY <1>3, <1>5 DEF IInv, IndexSound, OrderedIsWhole
  <2>3. NamedIsWhole' /\ SentIsWhole' /\ ReceivedIsThere'
    BY <1>3, <1>7, <1>12, <2>1, <2>2 DEF NamedIsWhole, SentIsWhole, ReceivedIsThere
  <2>4. AskedIsWhole'
    BY <1>12, <1>13, <2>1 DEF AskedIsWhole
  <2>5. OnlyData' /\ NobodyRefuses'
    BY <1>3, <2>1 DEF OnlyData, NobodyRefuses
  <2> QED BY <2>3, <2>4, <2>5
<1>15. \A q \in Peers : stage'[<<q, Cli>>] = stage[<<q, Cli>>] /\ file'[<<q, Cli>>] = file[<<q, Cli>>]
  BY <1>7, LineFacts
<1>16. Asked'
  BY <1>3, <1>15, AskedFrame DEF IInv, Searching
<1>17. IndexSound'
  <2>1. \A q \in Peers : Searching(q)' => Searching(q) /\ file'[<<q, Cli>>] = file[<<q, Cli>>]
    BY <1>15 DEF Searching
  <2>2. \A u \in Threads : stage'[u] = "registering" => stage[u] = "registering" /\ file'[u] = file[u]
    BY <1>7
  <2>3. UNCHANGED <<server, reply, exposed>>
    BY DEF HandleOrder
  <2> QED BY <1>3, <1>13, <2>1, <2>2, <2>3, IndexFrame
<1> QED BY <1>8, <1>9, <1>10, <1>11, <1>14, <1>16, <1>17 DEF IInv

\* What its predecessor asked is answered to nobody; the rest is still handled.
LEMMA OrphanFacts ==
  ASSUME NEW p \in Peers, NEW m \in Calls \cup {Index!NoMessage}
  PROVE  /\ Orphaned(p, m) \in Calls \cup {Index!NoMessage}
         /\ m \in Calls => Orphaned(p, m) \in Calls
         /\ Orphaned(p, m).type = m.type
         /\ m.type # "SEARCH_INDEX" => Orphaned(p, m) = m
         /\ m.type = "SEARCH_INDEX" => /\ Orphaned(p, m).file = m.file
                                       /\ Orphaned(p, m).peer = IF m.peer = p THEN NoPeer ELSE m.peer
<1>1. CASE m.type = "SEARCH_INDEX" /\ m.peer = p
  <2>1. m \in Questions
    BY <1>1, CallFacts
  <2>2. PICK o : o = [m EXCEPT !.peer = NoPeer]
    OBVIOUS
  <2>3. o \in Questions /\ o.type = m.type /\ o.file = m.file /\ o.peer = NoPeer
    BY <2>1, <2>2 DEF Questions
  <2>4. Orphaned(p, m) = o
    BY <1>1, <2>2 DEF Orphaned
  <2> QED BY <1>1, <2>3, <2>4 DEF Calls
<1>2. CASE ~(m.type = "SEARCH_INDEX" /\ m.peer = p)
  BY <1>2 DEF Orphaned
<1> QED BY <1>1, <1>2

LEMMA ReturnInv ==
  ASSUME IInv, NEW p \in Peers, Return(p)
  PROVE  IInv'
<1>1. /\ Restart(p, "join")
      /\ reply' = [reply EXCEPT ![p] = NoReply]
      /\ queue' = [i \in DOMAIN queue |-> Orphaned(p, queue[i])]
      /\ msg' = [w \in Workers |-> Orphaned(p, msg[w])]
      /\ UNCHANGED <<exposed, server_up, peers, file_peer_map, pc, menu, todo>>
  BY DEF Return, user
<1>2. /\ p \notin up /\ UNCHANGED <<inbox, content, file, from>>
      /\ stage' = [t \in Threads |-> IF t[1] # p THEN stage[t] ELSE IF t[2] = Cli THEN "join" ELSE "idle"]
  BY <1>1 DEF Restart, work
<1>3. Kept
  <2>1. exposed \subseteq exposed' /\ exposed' \subseteq Peers \X Files
    BY <1>1 DEF IInv, TypeOK, TransfersTypeOK
  <2>2. Typed /\ Shape /\ Sound
    BY TypedFacts DEF IInv
  <2> QED BY <1>1, <2>1, <2>2, RestartKeeps
<1>4. /\ stage' \in [Threads -> Stages]
      /\ \A t \in Threads : stage'[t] = IF t[1] # p THEN stage[t] ELSE IF t[2] = Cli THEN "join" ELSE "idle"
  BY <1>2 DEF IInv, TypeOK, Stages
<1>5. /\ reply' \in [Peers -> Peers \cup {NoPeer, NoReply}] /\ reply'[p] = NoReply
      /\ \A q \in Peers : q # p => reply'[q] = reply[q]
  BY <1>1 DEF IInv, TypeOK
<1>6. TypeOK'
  <2>1. menu' \in [Peers -> Seq(Choices)] /\ todo' \in [Peers -> SUBSET Files]
    BY <1>1 DEF IInv, TypeOK
  <2> QED BY <1>3, <1>4, <1>5, <2>1, OwnTypes DEF IInv
<1>7. /\ DOMAIN queue' = DOMAIN queue /\ queue' \in Seq(Calls)
      /\ \A i \in DOMAIN queue : queue'[i] = Orphaned(p, queue[i])
  <2>1. PICK n \in Nat : n = Len(queue) /\ DOMAIN queue = 1..n
    <3>1. Len(queue) \in Nat /\ DOMAIN queue = 1..Len(queue)
      BY QueueFacts DEF IInv
    <3> QED BY <3>1, Zenon
  <2>2. \A i \in 1..n : Orphaned(p, queue[i]) \in Calls
    BY <2>1, QueueFacts, OrphanFacts DEF IInv
  <2>3. queue' \in [1..n -> Calls]
    BY <1>1, <2>1, <2>2
  <2>4. queue' \in Seq(Calls)
    BY <2>3, SeqDef
  <2> QED BY <1>1, <2>1, <2>4
<1>8. /\ msg' \in [Workers -> Calls \cup {Index!NoMessage}]
      /\ \A w \in Workers : msg'[w] = Orphaned(p, msg[w])
  BY <1>1, QueueFacts, OrphanFacts DEF IInv
<1>9. /\ \A i \in DOMAIN queue : queue'[i].type = queue[i].type
      /\ \A i \in DOMAIN queue : queue[i].type # "SEARCH_INDEX" => queue'[i] = queue[i]
      /\ \A i \in DOMAIN queue : queue[i].type = "SEARCH_INDEX" =>
           /\ queue'[i].file = queue[i].file
           /\ queue'[i].peer = IF queue[i].peer = p THEN NoPeer ELSE queue[i].peer
  BY <1>7, QueueFacts, OrphanFacts DEF IInv
<1>10. /\ \A w \in Workers : msg'[w].type = msg[w].type
       /\ \A w \in Workers : msg[w].type # "SEARCH_INDEX" => msg'[w] = msg[w]
       /\ \A w \in Workers : msg[w].type = "SEARCH_INDEX" =>
            /\ msg'[w].file = msg[w].file
            /\ msg'[w].peer = IF msg[w].peer = p THEN NoPeer ELSE msg[w].peer
  BY <1>8, QueueFacts, OrphanFacts DEF IInv
<1>11. ServerTyped'
  <2>1. Index!NoMessage' = Index!NoMessage /\ Index!Conns' = Index!Conns
    BY DEF Index!NoMessage, Index!Conns
  <2> QED BY <1>1, <1>7, <1>8, <1>10, <2>1 DEF IInv, ServerTyped
<1>12. Roles'
  BY <1>2, <1>4 DEF IInv, Roles, CliStages, HandlerStages
<1>13. \A q \in Peers : IF q = p THEN stage'[<<q, Cli>>] = "join" ELSE stage'[<<q, Cli>>] = stage[<<q, Cli>>]
  BY <1>4, LineFacts
<1>14. \A q \in Peers :
         /\ \A i \in DOMAIN queue : Waits(i, q)' <=> q # p /\ Waits(i, q)
         /\ \A w \in Workers : Answering(w, q)' <=> q # p /\ Answering(w, q)
  BY <1>9, <1>10, TransferAssumption DEF Waits, Answering
<1>15. Asked'
  <2>1. ASSUME NEW q \in Peers, OneQuestion(q) PROVE OneQuestion(q)'
    <3>1. Quiet(p)' /\ (Quiet(q) => Quiet(q)')
      BY <1>7, <1>14 DEF Quiet
    <3>2. CASE q = p
      BY <1>5, <1>7, <1>14, <3>1, <3>2 DEF OneQuestion
    <3>3. CASE q # p
      BY <1>5, <1>7, <1>13, <1>14, <2>1, <3>1, <3>3 DEF OneQuestion
    <3> QED BY <3>2, <3>3
  <2>2. ASSUME NEW q \in Peers, Searching(q)'
        PROVE  /\ \A i \in DOMAIN queue' : Waits(i, q)' => queue'[i].file = file'[<<q, Cli>>]
               /\ \A w \in Workers : Answering(w, q)' => msg'[w].file = file'[<<q, Cli>>]
    <3>1. Searching(q)
      BY <1>13, <2>2 DEF Searching
    <3>2. ASSUME NEW i \in DOMAIN queue, Waits(i, q)' PROVE queue'[i].file = file'[<<q, Cli>>]
      <4>1. Waits(i, q) /\ queue'[i].file = queue[i].file
        BY <1>9, <1>14, <3>2 DEF Waits
      <4> QED BY <1>2, <3>1, <4>1 DEF IInv, Asked
    <3>3. ASSUME NEW w \in Workers, Answering(w, q)' PROVE msg'[w].file = file'[<<q, Cli>>]
      <4>1. Answering(w, q) /\ msg'[w].file = msg[w].file
        BY <1>10, <1>14, <3>3 DEF Answering
      <4> QED BY <1>2, <3>1, <4>1 DEF IInv, Asked
    <3> QED BY <1>7, <3>2, <3>3
  <2> QED BY <1>1, <2>1, <2>2 DEF IInv, Asked
<1>16. IndexSound'
  <2> SUFFICES ASSUME exposed = {}
               PROVE  (QueuedIsWhole /\ TakenIsWhole /\ ListedIsWhole /\ OrderedIsWhole /\ AnswerIsWhole
                       /\ ReplicaIsWhole)'
    BY <1>1 DEF IndexSound
  <2>1. QueuedIsWhole /\ TakenIsWhole /\ ListedIsWhole /\ OrderedIsWhole /\ AnswerIsWhole /\ ReplicaIsWhole
    BY DEF IInv, IndexSound
  <2>2. \A q, f : Whole(q, f)' = Whole(q, f)
    BY <1>2 DEF Whole
  <2>3. QueuedIsWhole'
    BY <1>7, <1>9, <2>1, <2>2 DEF QueuedIsWhole
  <2>4. TakenIsWhole'
    BY <1>10, <2>1, <2>2 DEF TakenIsWhole
  <2>5. ListedIsWhole' /\ OrderedIsWhole'
    BY <1>1, <1>2, <2>1, <2>2 DEF ListedIsWhole, OrderedIsWhole
  <2>6. AnswerIsWhole'
    <3>1. \A q \in Peers : Searching(q)' => q # p /\ Searching(q)
      BY <1>13 DEF Searching
    <3> QED BY <1>2, <1>5, <2>1, <2>2, <3>1 DEF AnswerIsWhole
  <2>7. ReplicaIsWhole'
    BY <1>2, <1>4, <2>1, <2>2 DEF ReplicaIsWhole
  <2> QED BY <2>3, <2>4, <2>5, <2>6, <2>7
<1> QED BY <1>3, <1>6, <1>11, <1>12, <1>15, <1>16 DEF IInv, Kept

-----------------------------------------------------------------------------
(* The system.                                                             *)

LEMMA InitInv == Init => IInv
<1> SUFFICES ASSUME Init PROVE IInv
  OBVIOUS
<1>1. /\ server_up = TRUE /\ queue = <<>> /\ file_peer_map = [f \in Files |-> <<>>]
      /\ pc = [w \in Workers |-> "idle"] /\ msg = [w \in Workers |-> Index!NoMessage]
      /\ reply = [p \in Peers |-> NoReply]
  BY DEF Init, Index!Init, Index!NoMessage
<1>2. /\ up = Peers
      /\ inbox = [p \in Peers |-> <<>>]
      /\ content = [p \in Peers |-> [f \in Files |-> IF f \in Shared[p] THEN Blocks ELSE NoFile]]
      /\ stage = [t \in Threads |-> IF t[2] = Cli THEN "join" ELSE "idle"]
      /\ file = [t \in Threads |-> NoFile]
      /\ from = [t \in Threads |-> NoPeer]
      /\ client = [t \in Threads |-> Gone]
      /\ count = [t \in Threads |-> 0]
      /\ channel = [t \in Threads |-> <<>>]
      /\ result = [p \in Peers |-> "none"]
      /\ restarts = 0
      /\ exposed = {}
      /\ menu = Commands
      /\ todo = [p \in Peers |-> {}]
  BY DEF Init, InitTransfers
<1>3. \A p \in Peers : inbox[p] = <<>> /\ DOMAIN inbox[p] = {}
  BY <1>2
<1>4. DOMAIN queue = {} /\ \A f \in Files : DOMAIN file_peer_map[f] = {}
  BY <1>1
<1>5. TypeOK
  <2>1. <<>> \in Seq({"STATUS_BAD", "data", "hole"}) /\ <<>> \in Seq(Connections)
    OBVIOUS
  <2>2. content \in [Peers -> [Files -> {NoFile} \cup SUBSET Blocks]]
    BY <1>2
  <2>3. TransfersTypeOK
    BY <1>2, <2>1, <2>2, TransferAssumption DEF TransfersTypeOK
  <2>4. stage \in [Threads -> Stages]
    BY <1>2 DEF Stages
  <2>5. menu \in [Peers -> Seq(Choices)]
    BY <1>2, PeerAssumption
  <2> QED BY <1>1, <1>2, <2>1, <2>3, <2>4, <2>5 DEF TypeOK
<1>6. ServerTyped
  <2>1. <<>> \in Seq(Calls) /\ <<>> \in Seq(Index!Conns)
    OBVIOUS
  <2> QED BY <1>1, <2>1, CallFacts DEF ServerTyped
<1>7. Roles
  BY <1>2 DEF Roles, CliStages, HandlerStages
<1>8. Shape
  BY <1>2, ThreadFacts DEF Shape
<1>9. Sound
  BY <1>2, <1>3 DEF Sound, NamedIsWhole, AskedIsWhole, SentIsWhole, OnlyData, ReceivedIsThere, NobodyRefuses
<1>10. \A p \in Peers : stage[<<p, Cli>>] = "join" /\ ~Searching(p)
  BY <1>2, LineFacts DEF Searching
<1>11. \A w \in Workers : msg[w].type = "NULL_MSG"
  BY <1>1, CallFacts
<1>12. Asked
  <2>1. \A p \in Peers : Quiet(p) /\ reply[p] = NoReply /\ \A w \in Workers : ~Answering(w, p)
    BY <1>1, <1>4, <1>11 DEF Quiet, Answering
  <2> QED BY <1>4, <1>10, <2>1 DEF Asked, OneQuestion
<1>13. IndexSound
  BY <1>2, <1>3, <1>4, <1>10, <1>11
     DEF IndexSound, QueuedIsWhole, TakenIsWhole, ListedIsWhole, OrderedIsWhole, AnswerIsWhole, ReplicaIsWhole
<1> QED BY <1>5, <1>6, <1>7, <1>8, <1>9, <1>12, <1>13 DEF IInv

LEMMA RunInv ==
  ASSUME IInv, NEW t \in Threads, Run(t)
  PROVE  IInv'
<1>1. CASE (Download(t) \/ (t[2] # Cli /\ Upload(t))) /\ UNCHANGED <<server, reply, user>>
  BY <1>1, TransferInv
<1>2. CASE t[2] = Cli /\ (register_user(t[1]) \/ ListFile(t[1]) \/ SearchEnds(t[1]))
  BY <1>2, ThreadFacts, register_userInv, ListFileInv, SearchEndsInv
<1>3. CASE t[2] # Cli /\ (HandleOrder(t) \/ replicate_file(t))
  BY <1>3, HandleOrderInv, replicate_fileInv
<1> QED BY <1>1, <1>2, <1>3 DEF Run

LEMMA NextInv == IInv /\ [Next]_vars => IInv'
<1> SUFFICES ASSUME IInv, [Next]_vars PROVE IInv'
  OBVIOUS
<1>1. CASE UNCHANGED vars
  <2>1. /\ UNCHANGED <<up, inbox, content, stage, work, from, channel, result, restarts, exposed, user>>
        /\ UNCHANGED <<queue, reply, server_up, msg, pc, file_peer_map>>
    BY <1>1 DEF vars, transfers, server
  <2>2. ServerTyped'
    BY <2>1, ServerFrame DEF IInv
  <2>3. exposed = {} => ListedIsWhole'
    BY <2>1 DEF IInv, IndexSound, ListedIsWhole, Whole
  <2> QED BY <2>1, <2>2, <2>3, WorkerInv
<1>2. ASSUME NEW w \in Workers, Serve(w) PROVE IInv'
  BY <1>2, ServeInv
<1>3. ASSUME NEW t \in Threads, Run(t) PROVE IInv'
  BY <1>3, RunInv
<1>4. ASSUME NEW t \in Threads, Reset(t) /\ UNCHANGED <<server, reply, user>> PROVE IInv'
  BY <1>4, TransferInv
<1>5. ASSUME NEW p \in Peers, Fail(p) PROVE IInv'
  BY <1>5, DieInv DEF Fail, Crash, user, IInv, TypeOK
<1>6. ASSUME NEW p \in Peers, Return(p) PROVE IInv'
  BY <1>6, ReturnInv
<1>7. ASSUME NEW p \in Peers, NEW c \in Choices, register_directory(p, c) \/ search_for_file(p, c) PROVE IInv'
  BY <1>7, register_directoryInv, search_for_fileInv
<1> QED BY <1>1, <1>2, <1>3, <1>4, <1>5, <1>6, <1>7 DEF Next, Work

\* The inductive invariant.
THEOREM Invariance == Spec => []IInv
BY InitInv, NextInv, PTL DEF Spec

\* Every variable of the peers keeps its type.
THEOREM TypeCorrect == Spec => []TypeOK
<1>1. IInv => TypeOK
  BY DEF IInv
<1> QED BY <1>1, Invariance, PTL

\* file_index.cpp:37, get_rand_peer: whoever the index lists for a file has all of it,
\* through crashes, restarts and replication, unless a copy was announced too early.
THEOREM ListedHave == Spec => []ListedHaveAll
<1>1. IInv => ListedHaveAll
  BY DEF IInv, IndexSound, ListedIsWhole, ListedHaveAll, Index!Holders
<1> QED BY <1>1, Invariance, PTL

\* centralized_peer.cpp:139, request_file: the peer that the server names, in an answer or in
\* an order to replicate, has the file, and does not answer STATUS_BAD.
THEOREM NamedServes == Spec => []NamedPeerServes
<1>1. IInv => NamedPeerServes
  BY DEF IInv, Sound, NobodyRefuses, NamedPeerServes
<1> QED BY <1>1, Invariance, PTL

\* A step is a step of a transfer, or leaves every file as it is.
LEMMA StepKinds ==
  ASSUME IInv, [Next]_vars
  PROVE  \/ \E t \in Threads : Download(t) \/ (t[2] # Cli /\ Upload(t)) \/ Reset(t)
         \/ /\ content' = content
            /\ \A t \in Threads : stage[t] = "receiving" => stage'[t] \notin {"menu", "registering"}
<1> DEFINE Apart ==
      /\ content' = content
      /\ \A u \in Threads : stage[u] = "receiving" => stage'[u] \notin {"menu", "registering"}
<1>1. CASE UNCHANGED vars
  BY <1>1 DEF vars, transfers
<1>2. ASSUME NEW p \in Peers, Die(p) PROVE Apart
  BY <1>2 DEF Die
<1>3. ASSUME NEW t \in Threads, stage[t] # "receiving", NEW s, stage' = [stage EXCEPT ![t] = s],
             content' = content
      PROVE  Apart
  BY <1>3 DEF IInv, TypeOK
<1>4. ASSUME NEW p \in Peers, register_user(p) \/ ListFile(p) \/ SearchEnds(p) PROVE Apart
  <2>1. CASE Die(p)
    BY <1>2, <2>1
  <2>2. CASE ~Die(p)
    <3>1. content' = content /\ stage[<<p, Cli>>] # "receiving"
      BY <1>4, <2>2 DEF register_user, ListFile, SearchEnds, TellNobody
    <3>2. stage' = stage \/ \E s : stage' = [stage EXCEPT ![<<p, Cli>>] = s]
      BY <1>4, <2>2 DEF register_user, ListFile, SearchEnds, TellNobody, Goto
    <3> QED BY <1>3, <3>1, <3>2, LineFacts
  <2> QED BY <2>1, <2>2
<1>5. ASSUME NEW t \in Threads, HandleOrder(t) \/ replicate_file(t) PROVE Apart
  <2>1. CASE Die(t[1])
    BY <1>2, <2>1, ThreadFacts
  <2>2. CASE ~Die(t[1])
    <3>1. content' = content /\ stage[t] # "receiving" /\ \E s : stage' = [stage EXCEPT ![t] = s]
      BY <1>5, <2>2 DEF HandleOrder, replicate_file, TellNobody, Goto
    <3> QED BY <1>3, <3>1
  <2> QED BY <2>1, <2>2
<1>6. ASSUME NEW p \in Peers, Fail(p) PROVE Apart
  BY <1>2, <1>6 DEF Fail, Crash
<1>7. ASSUME NEW p \in Peers, Return(p) PROVE Apart
  BY <1>7, ThreadFacts DEF Return, Restart, IInv, Shape
<1>8. ASSUME NEW p \in Peers, NEW c \in Choices, register_directory(p, c) \/ search_for_file(p, c) PROVE Apart
  <2>1. CASE Die(p)
    BY <1>2, <2>1
  <2>2. CASE ~Die(p)
    <3>1. content' = content /\ stage[<<p, Cli>>] # "receiving" /\ \E s : stage' = [stage EXCEPT ![<<p, Cli>>] = s]
      BY <1>8, <2>2 DEF register_directory, search_for_file, Choose, Goto
    <3> QED BY <1>3, <3>1, LineFacts
  <2> QED BY <2>1, <2>2
<1>9. ASSUME NEW w \in Workers, Serve(w) PROVE Apart
  BY <1>9 DEF Serve
<1>10. ASSUME NEW t \in Threads, Run(t), ~(Download(t) \/ (t[2] # Cli /\ Upload(t))) PROVE Apart
  BY <1>4, <1>5, <1>10, ThreadFacts DEF Run
<1> QED BY <1>1, <1>6, <1>7, <1>8, <1>9, <1>10 DEF Next, Work

\* comms.c:463-490: no step of any peer takes a block of a file that was whole.
THEOREM WholeKept == Spec => WholeStaysWhole
<1>1. IInv /\ [Next]_vars =>
        [\A p \in Peers, f \in Files : exposed = {} /\ Whole(p, f) => content'[p][f] = Blocks]_transfers
  <2> SUFFICES ASSUME IInv, [Next]_vars, NEW p \in Peers, NEW f \in Files, exposed = {}, Whole(p, f)
               PROVE  content'[p][f] = Blocks
    OBVIOUS
  <2>1. Typed /\ Shape /\ Sound
    BY TypedFacts DEF IInv
  <2> QED BY <2>1, StepKinds, TransferKeepsWhole DEF Whole
<1> QED BY <1>1, Invariance, PTL DEF Spec, WholeStaysWhole

\* peer_cli.cpp:73: a download that succeeds, of the command line or of a handler that
\* was ordered to replicate, leaves the whole file, as long as nobody has announced a
\* copy before it was whole.
THEOREM DownloadsAreWhole == Spec => DownloadIsWholeUnlessExposed
<1>1. IInv /\ [Next]_vars =>
        [\A t \in Threads : exposed = {} /\ Succeeds(t) => content'[t[1]][file[t]] = Blocks]_transfers
  <2> SUFFICES ASSUME IInv, [Next]_vars, NEW t \in Threads, exposed = {}, Succeeds(t)
               PROVE  content'[t[1]][file[t]] = Blocks
    OBVIOUS
  <2>1. Typed /\ Shape /\ Sound
    BY TypedFacts DEF IInv
  <2>2. stage[t] = "receiving" /\ channel[t] # <<>> /\ stage'[t] \in {"menu", "registering"}
    BY DEF Succeeds
  <2>3. PICK u \in Threads : Download(u) \/ (u[2] # Cli /\ Upload(u)) \/ Reset(u)
    BY <2>2, StepKinds
  <2>4. CASE Die(u[1])
    BY <2>2, <2>4 DEF Die
  <2>5. CASE ~Die(u[1])
    <3>1. u = t
      BY <2>2, <2>3, <2>5, TransferFrame DEF IInv
    <3>2. Receive(t)
      <4>1. ~request_file(t) /\ ~Refused(t) /\ ~Create(t) /\ ~Reset(t)
        BY <2>2 DEF request_file, Refused, Create, Reset
      <4>2. ~Upload(t)
        BY <2>2 DEF Upload, HandleRequest, send_file, SendBlock, SendToNobody
      <4> QED BY <2>3, <3>1, <4>1, <4>2 DEF Download
    <3> QED BY <2>1, <2>2, <3>2, SuccessIsWhole
  <2> QED BY <2>4, <2>5
<1> QED BY <1>1, Invariance, PTL DEF Spec, DownloadIsWholeUnlessExposed
=============================================================================
