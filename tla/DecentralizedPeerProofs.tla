----------------------- MODULE DecentralizedPeerProofs -----------------------
(***************************************************************************)
(* Theorems about DecentralizedPeer, for any overlay, files, threads and   *)
(* commands, with crashes and restarts.                                    *)
(***************************************************************************)
EXTENDS DecentralizedPeer, TransfersProofs

\* The command line of a peer.
Line(p) == <<p, Cli>>

\* The command line searches and downloads, the handlers serve.
CliStages == {"menu", "asking", "searching", "connecting", "waiting", "receiving", "dead"}
HandlerStages == {"idle", "opening", "sending", "dead"}
Roles ==
  \A t \in Threads :
    /\ stage[t] \in IF t[2] = Cli THEN CliStages ELSE HandlerStages
    /\ stage[t] \in {"asking", "searching"} => file[t] \in Files

\* The files a peer answers for, and those of the peers named to a search, are whole.
SetIsWhole == \A p \in Peers : \A f \in file_set[p] : Whole(p, f)
AnswerIsWhole ==
  \A p \in Peers : Searching(p) =>
    /\ query_response[p].buf \in Peers => Whole(query_response[p].buf, file[<<p, Cli>>])
    /\ \A n \in Peers : answer[p][n].buf \in Peers => Whole(answer[p][n].buf, file[<<p, Cli>>])

SearchSound == exposed = {} => SetIsWhole /\ AnswerIsWhole

\* While nobody stops: what each thread of a broadcast has received and stored, and
\* what they have left in the response.
Storing(p, n) ==
  /\ threads[p][n] \in {"spawned", "calling"} => answer[p][n] = Plain("DUP_REQUEST")
  /\ answer[p][n].type = "DUP_REQUEST" => stored[p][n] = {} /\ threads[p][n] # "storing"
  /\ answer[p][n].type # "DUP_REQUEST" => answer[p][n].type = "STATUS_OK"
  /\ answer[p][n].type = "STATUS_OK" /\ threads[p][n] = "off" => stored[p][n] = Fields

Left(p, field) ==
  \/ (\A n \in Peers : field \notin stored[p][n]) /\ query_response[p][field] = Plain("DUP_REQUEST")[field]
  \/ \E n \in Peers : field \in stored[p][n] /\ query_response[p][field] = answer[p][n][field]

Response ==
  Undisturbed => \A p \in Peers : Searching(p) =>
    (\A n \in Peers : Storing(p, n)) /\ (\A field \in Fields : Left(p, field))

\* While nobody stops, a download has somebody to come from, and nothing is announced.
Calm ==
  Undisturbed =>
    /\ exposed = {}
    /\ \A t \in Threads : stage[t] \in {"connecting", "waiting", "receiving"} => from[t] \in Peers

IInv == TypeOK /\ Roles /\ Shape /\ Sound /\ SearchSound /\ Response /\ Calm /\ PartialOnlyMidway

-----------------------------------------------------------------------------
(* Types and roles.                                                        *)

LEMMA LineFacts ==
  ASSUME NEW p \in Peers
  PROVE  Line(p) \in Threads /\ <<p, Cli>> \in Threads /\ Line(p) = <<p, Cli>> /\ Line(p)[1] = p /\ Line(p)[2] = Cli
BY DEF Line, Threads

LEMMA LineOfThread ==
  ASSUME NEW t \in Threads, t[2] = Cli
  PROVE  t = <<t[1], Cli>> /\ t = Line(t[1]) /\ t[1] \in Peers
BY ThreadFacts DEF Line

LEMMA TypedFacts ==
  ASSUME TypeOK
  PROVE  Typed /\ inbox \in [Peers -> Seq(Requests)] /\ Requests \in Mails /\ stage \in [Threads -> Stages]
<1>1. inbox \in [Peers -> Seq(Requests)]
  BY DEF TypeOK, Requests
<1>2. \A p \in Peers : inbox[p] \in Seq(Requests \cup Orders)
  BY <1>1, SeqMonotonic
<1>3. inbox \in [Peers -> Seq(Requests \cup Orders)]
  BY <1>1, <1>2
<1>4. stage \in [Threads -> Stages]
  BY DEF TypeOK
<1>6. Stages \subseteq AllStages
  BY DEF Stages, AllStages
<1>5. stage \in [Threads -> AllStages]
  BY <1>4, <1>6
<1> QED BY <1>1, <1>3, <1>4, <1>5 DEF Typed, TypeOK, Mails

\* A step of a transfer: a death, or a step of one thread in its role.
LEMMA TransferFrame ==
  ASSUME TypeOK, Roles, NEW t \in Threads, Download(t) \/ (t[2] # Cli /\ Upload(t)) \/ Reset(t)
  PROVE  \/ Die(t[1])
         \/ /\ UNCHANGED <<up, from, restarts, exposed>>
            /\ \A u \in Threads : u # t => stage'[u] = stage[u] /\ file'[u] = file[u]
            /\ stage' \in [Threads -> Stages]
            /\ t[2] = Cli =>
                 /\ file'[t] = file[t]
                 /\ stage[t] \in {"connecting", "waiting", "receiving"}
                 /\ stage'[t] \in {"waiting", "receiving", "menu"}
            /\ t[2] # Cli => stage[t] \in HandlerStages /\ stage'[t] \in HandlerStages /\ content' = content
<1>0. stage \in [Threads -> Stages] /\ file \in [Threads -> Files \cup {NoFile}]
  BY DEF TypeOK, TransfersTypeOK
<1>1. CASE Download(t) \/ Reset(t)
  <2>1. stage[t] \in {"connecting", "waiting", "receiving"} /\ t[2] = Cli
    BY <1>1 DEF Download, request_file, Refused, Create, Receive, Reset, Roles, HandlerStages
  <2>2. CASE request_file(t)
    BY <1>0, <2>1, <2>2 DEF request_file, Goto, Stages
  <2>3. CASE Create(t)
    BY <1>0, <2>1, <2>3 DEF Create, Goto, Stages, work
  <2>4. CASE Refused(t) \/ Reset(t)
    BY <1>0, <2>1, <2>4 DEF Refused, Reset, Ended, Goto, Stages, work
  <2>5. CASE Receive(t)
    BY <1>0, <2>1, <2>5 DEF Receive, Ended, Goto, Stages
  <2> QED BY <1>1, <2>2, <2>3, <2>4, <2>5 DEF Download
<1>2. CASE t[2] # Cli /\ Upload(t)
  <2>1. stage[t] \in HandlerStages
    BY <1>2 DEF Roles
  <2>2. CASE HandleRequest(t)
    BY <1>0, <1>2, <2>1, <2>2 DEF HandleRequest, Goto, Stages, HandlerStages
  <2>3. CASE send_file(t)
    BY <1>0, <1>2, <2>1, <2>3 DEF send_file, Goto, Stages, HandlerStages
  <2>4. CASE SendBlock(t)
    BY <1>0, <1>2, <2>1, <2>4 DEF SendBlock, Goto, Stages, HandlerStages
  <2>5. CASE SendToNobody(t)
    BY <2>5 DEF SendToNobody
  <2> QED BY <1>2, <2>2, <2>3, <2>4, <2>5 DEF Upload
<1> QED BY <1>1, <1>2
-----------------------------------------------------------------------------
(* The steps of transfers.                                                 *)

\* What a step that is none of the searches' leaves of their types.
LEMMA OwnTypes ==
  ASSUME TypeOK, Kept, stage' \in [Threads -> Stages], UNCHANGED <<file_set, search, menu>>
  PROVE  TypeOK'
<1>1. inbox' \in [Peers -> Seq(Requests)]
  BY TypedFacts DEF Kept
<1> QED BY <1>1 DEF TypeOK, Kept, search, Requests

\* A death, of whatever peer.
LEMMA DieInv ==
  ASSUME IInv, NEW p \in Peers, Die(p), UNCHANGED <<file_set, search, menu>>
  PROVE  IInv'
<1>1. Kept
  BY TypedFacts, DieKeeps DEF IInv
<1>2. /\ \A t \in Threads :
           IF t[1] = p THEN stage'[t] = "dead" ELSE stage'[t] = stage[t] /\ file'[t] = file[t]
      /\ stage' \in [Threads -> Stages]
      /\ content' = content /\ exposed' = exposed /\ up' = up \ {p}
  BY TypedFacts DEF Die, IInv, Stages
<1>3. TypeOK'
  BY <1>1, <1>2, OwnTypes DEF IInv
<1>4. Roles'
  BY <1>2 DEF IInv, Roles, CliStages, HandlerStages
<1>5. SearchSound'
  <2> SUFFICES ASSUME exposed = {} PROVE SetIsWhole' /\ AnswerIsWhole'
    BY <1>2 DEF SearchSound
  <2>1. \A q, f : Whole(q, f)' <=> Whole(q, f)
    BY <1>2 DEF Whole
  <2>2. SetIsWhole'
    BY <2>1 DEF IInv, SearchSound, SetIsWhole
  <2>3. ASSUME NEW q \in Peers, Searching(q)' PROVE Searching(q) /\ file'[<<q, Cli>>] = file[<<q, Cli>>]
    BY <1>2, <2>3, LineFacts DEF Searching
  <2>4. AnswerIsWhole'
    BY <2>1, <2>3 DEF IInv, SearchSound, AnswerIsWhole, search
  <2> QED BY <2>2, <2>4
<1>6. ~Undisturbed'
  BY <1>2 DEF Undisturbed
<1> QED BY <1>1, <1>3, <1>4, <1>5, <1>6 DEF IInv, Kept, Response, Calm, PartialOnlyMidway

\* Files are completed before a download ends, unless somebody has stopped.
LEMMA PartialStep ==
  ASSUME IInv, NEW t \in Threads, Download(t) \/ (t[2] # Cli /\ Upload(t)) \/ Reset(t), ~Die(t[1])
  PROVE  PartialOnlyMidway'
<1>1. /\ UNCHANGED <<up, from, restarts, exposed>>
      /\ \A u \in Threads : u # t => stage'[u] = stage[u] /\ file'[u] = file[u]
      /\ t[2] = Cli =>
           /\ file'[t] = file[t]
           /\ stage[t] \in {"connecting", "waiting", "receiving"}
      /\ t[2] # Cli => content' = content
  BY TransferFrame DEF IInv
<1> SUFFICES ASSUME Undisturbed, NEW p \in Peers, NEW f \in Files, content'[p][f] \notin {NoFile, Blocks}
             PROVE  stage'[<<p, Cli>>] = "receiving" /\ file'[<<p, Cli>>] = f
  BY <1>1 DEF PartialOnlyMidway, Undisturbed
<1>2. content[p][f] \notin {NoFile, Blocks} => stage[<<p, Cli>>] = "receiving" /\ file[<<p, Cli>>] = f
  BY DEF IInv, PartialOnlyMidway
<1>3. Typed /\ Shape /\ Sound /\ exposed = {}
  BY TypedFacts DEF IInv, Calm
<1>4. <<p, Cli>> \in Threads
  BY LineFacts
<1>5. CASE t[2] # Cli
  <2>1. t # <<p, Cli>>
    BY <1>5
  <2> QED BY <1>1, <1>2, <1>4, <1>5, <2>1
<1>6. CASE t[2] = Cli /\ t # <<p, Cli>>
  <2>1. t[1] # p
    BY <1>6, LineOfThread
  <2>2. CASE Create(t)
    BY <1>1, <1>2, <1>3, <1>4, <1>6, <2>1, <2>2, CreateFacts
  <2>3. CASE Receive(t)
    BY <1>1, <1>2, <1>3, <1>4, <1>6, <2>1, <2>3, ReceiveFacts
  <2>4. CASE request_file(t) \/ Refused(t) \/ Reset(t)
    <3>1. content' = content
      BY <2>4 DEF request_file, Refused, Reset, Die
    <3> QED BY <1>1, <1>2, <1>4, <1>6, <3>1
  <2> QED BY <1>6, <2>2, <2>3, <2>4 DEF Download
<1>7. CASE t = <<p, Cli>>
  <2>0. t[1] = p /\ t[2] = Cli
    BY <1>7
  <2>1. CASE Create(t)
    <3>1. stage[t] = "waiting" /\ stage'[t] = "receiving"
      BY <2>1, TypedFacts DEF Create, Goto, IInv
    <3>2. content[p][f] \in {NoFile, Blocks}
      BY <1>2, <1>7, <3>1
    <3>3. f = file[t]
      BY <1>3, <2>0, <2>1, <3>2, CreateFacts, BlockFacts
    <3> QED BY <1>1, <1>7, <2>0, <3>1, <3>3
  <2>2. CASE Receive(t)
    <3>1. f = file[t]
      BY <1>2, <1>3, <1>7, <2>0, <2>2, ReceiveFacts
    <3>2. stage[t] = "receiving"
      BY <2>2 DEF Receive
    <3>3. CASE stage'[t] \in {"menu", "registering"}
      BY <1>3, <2>0, <2>2, <3>1, <3>3, SuccessIsWhole
    <3>4. CASE stage'[t] \notin {"menu", "registering"}
      <4>1. stage' = stage
        BY <2>2, <3>4, <1>3, ReceiveFacts, EndedFacts
      <4> QED BY <1>1, <1>7, <2>0, <3>1, <3>2, <4>1
    <3> QED BY <3>3, <3>4
  <2>3. CASE request_file(t) \/ Refused(t)
    BY <1>2, <1>7, <2>3 DEF request_file, Refused, Die
  <2>4. CASE Reset(t)
    BY <2>4 DEF Reset, IInv, Calm, Undisturbed
  <2>5. ~Upload(t) \/ t[2] = Cli
    BY <2>0
  <2> QED BY <2>0, <2>1, <2>2, <2>3, <2>4, <2>5 DEF Download
<1> QED BY <1>5, <1>6, <1>7

LEMMA TransferInv ==
  ASSUME IInv, NEW t \in Threads, Download(t) \/ (t[2] # Cli /\ Upload(t)) \/ Reset(t),
         UNCHANGED <<file_set, search, menu>>
  PROVE  IInv'
<1>1. CASE Die(t[1])
  BY <1>1, DieInv, ThreadFacts
<1>2. CASE ~Die(t[1])
  <2>1. Kept /\ Typed
    BY TypedFacts, TransferKeeps DEF IInv
  <2>2. /\ UNCHANGED <<up, from, restarts, exposed>>
        /\ \A u \in Threads : u # t => stage'[u] = stage[u] /\ file'[u] = file[u]
        /\ stage' \in [Threads -> Stages]
        /\ t[2] = Cli =>
             /\ file'[t] = file[t]
             /\ stage[t] \in {"connecting", "waiting", "receiving"}
             /\ stage'[t] \in {"waiting", "receiving", "menu"}
        /\ t[2] # Cli => stage[t] \in HandlerStages /\ stage'[t] \in HandlerStages
    BY <1>2, TransferFrame DEF IInv
  <2>3. TypeOK'
    BY <2>1, <2>2, OwnTypes DEF IInv
  <2>4. Roles'
    BY <2>2 DEF IInv, Roles, CliStages, HandlerStages
  <2>5. \A p \in Peers :
          (Searching(p)' <=> Searching(p)) /\ (Searching(p) => file'[<<p, Cli>>] = file[<<p, Cli>>])
    <3> SUFFICES ASSUME NEW p \in Peers
                 PROVE  (Searching(p)' <=> Searching(p)) /\ (Searching(p) => file'[<<p, Cli>>] = file[<<p, Cli>>])
      OBVIOUS
    <3>1. CASE t = <<p, Cli>>
      BY <2>2, <3>1 DEF Searching
    <3>2. CASE t # <<p, Cli>>
      BY <2>2, <3>2, LineFacts DEF Searching
    <3> QED BY <3>1, <3>2
  <2>6. SearchSound'
    <3> SUFFICES ASSUME exposed = {} PROVE SetIsWhole' /\ AnswerIsWhole'
      BY <2>2 DEF SearchSound
    <3>1. \A q \in Peers, f \in Files : Whole(q, f) => Whole(q, f)'
      BY <2>1, TransferKeepsWhole DEF IInv, Whole
    <3>2. SetIsWhole'
      BY <3>1 DEF IInv, SearchSound, SetIsWhole, TypeOK
    <3>3. \A p \in Peers : Searching(p) => file[<<p, Cli>>] \in Files
      BY LineFacts DEF Searching, IInv, Roles
    <3>4. AnswerIsWhole'
      BY <2>5, <3>1, <3>3 DEF IInv, SearchSound, AnswerIsWhole, search
    <3> QED BY <3>2, <3>4
  <2>7. Response'
    <3>1. UNCHANGED <<query_response, threads, answer, stored>> /\ Undisturbed' = Undisturbed
      BY <2>2 DEF search, Undisturbed
    <3>2. \A p, n : Storing(p, n)' = Storing(p, n)
      BY <3>1 DEF Storing, Plain
    <3>3. \A p, field : Left(p, field)' = Left(p, field)
      BY <3>1 DEF Left, Plain
    <3> QED BY <2>5, <3>1, <3>2, <3>3 DEF IInv, Response
  <2>8. Calm'
    BY <2>2 DEF IInv, Calm, Undisturbed, HandlerStages
  <2>9. PartialOnlyMidway'
    BY <1>2, PartialStep
  <2> QED BY <2>1, <2>3, <2>4, <2>6, <2>7, <2>8, <2>9 DEF IInv, Kept
<1> QED BY <1>1, <1>2
-----------------------------------------------------------------------------
(* The steps of searches.                                                  *)

\* What a thread of a broadcast may receive, as a message.
LEMMA MessageFacts ==
  /\ Plain("DUP_REQUEST") \in Message /\ Plain("NULL_MSG") \in Message
  /\ \A type : Plain(type).buf = NoBuffer /\ Plain(type).type = type
  /\ \A m \in Message : m = [buf |-> m.buf, type |-> m.type]
  /\ Fields = {"buf", "type"}
BY DEF Message, Plain, Fields

\* A step of a thread of a broadcast leaves the transfers alone.
LEMMA SearchFrame ==
  ASSUME IInv, UNCHANGED <<transfers, file_set, menu>>
  PROVE  /\ TransfersTypeOK' /\ Roles' /\ Shape' /\ Sound' /\ Calm' /\ PartialOnlyMidway'
         /\ SetIsWhole' = SetIsWhole /\ Undisturbed' = Undisturbed /\ exposed' = exposed
         /\ UNCHANGED <<inbox, stage, file, up>>
         /\ \A p \in Peers : Searching(p)' = Searching(p) /\ file'[<<p, Cli>>] = file[<<p, Cli>>]
         /\ \A p, f : Whole(p, f)' = Whole(p, f)
<1>1. /\ UNCHANGED <<up, inbox, content, stage, file, client, count, from, channel, result, restarts, exposed>>
      /\ UNCHANGED file_set
  BY DEF transfers, work
<1>2. \A p, f : Whole(p, f)' = Whole(p, f)
  BY <1>1 DEF Whole
<1>3. TransfersTypeOK'
  BY <1>1 DEF IInv, TypeOK, TransfersTypeOK
<1>4. Roles' /\ Shape'
  BY <1>1 DEF IInv, Roles, Shape
<1>5. Sound'
  BY <1>1, <1>2 DEF IInv, Sound, NamedIsWhole, AskedIsWhole, SentIsWhole, OnlyData, ReceivedIsThere,
                    NobodyRefuses
<1>6. Calm' /\ PartialOnlyMidway' /\ Undisturbed' = Undisturbed
  BY <1>1 DEF IInv, Calm, PartialOnlyMidway, Undisturbed
<1>7. SetIsWhole' = SetIsWhole
  BY <1>1, <1>2 DEF SetIsWhole
<1> QED BY <1>1, <1>2, <1>3, <1>4, <1>5, <1>6, <1>7 DEF Searching

LEMMA CallInv ==
  ASSUME IInv, NEW p \in Peers, NEW n \in Peers, Call(p, n)
  PROVE  IInv'
<1>1. CASE n \notin up /\ Die(p) /\ UNCHANGED threads
  BY <1>1, DieInv DEF Call, search
<1>2. CASE threads' = [threads EXCEPT ![p][n] = "calling"] /\ UNCHANGED transfers
  <2>1. /\ UNCHANGED <<transfers, file_set, menu, query_response, answer, stored>>
        /\ threads[p][n] = "spawned"
    BY <1>2 DEF Call
  <2>2. threads \in [Peers -> [Peers -> {"off", "spawned", "calling", "storing"}]]
    BY DEF IInv, TypeOK
  <2>3. \A q, k \in Peers : threads'[q][k] = IF q = p /\ k = n THEN "calling" ELSE threads[q][k]
    BY <1>2, <2>2
  <2>4. TypeOK'
    <3>1. threads' \in [Peers -> [Peers -> {"off", "spawned", "calling", "storing"}]]
      BY <1>2, <2>2
    <3> QED BY <2>1, <3>1, SearchFrame DEF IInv, TypeOK
  <2>5. SearchSound'
    BY <2>1, SearchFrame DEF IInv, SearchSound, AnswerIsWhole
  <2>6. Response'
    <3>1. \A q, k \in Peers : Storing(q, k) => Storing(q, k)'
      BY <2>1, <2>3 DEF Storing, Plain
    <3>2. \A q, field : Left(q, field)' = Left(q, field)
      BY <2>1 DEF Left, Plain
    <3> QED BY <2>1, <3>1, <3>2, SearchFrame DEF IInv, Response
  <2> QED BY <2>1, <2>4, <2>5, <2>6, SearchFrame DEF IInv
<1> QED BY <1>1, <1>2 DEF Call

\* What FloodSearch promises of an answer.
LEMMA AnswerFacts ==
  ASSUME IInv, NEW f \in Files, NEW a \in Answers(f)
  PROVE  /\ a \in Message
         /\ exposed = {} /\ a.buf \in Peers => Whole(a.buf, f)
         /\ Undisturbed => a = Plain("DUP_REQUEST") \/ a.type = "STATUS_OK"
<1>1. CASE a = Plain("DUP_REQUEST") \/ a = Plain("NULL_MSG") \/ a = Plain("STATUS_OK")
  <2>1. a \in Message /\ a.buf \notin Peers
    BY <1>1, PeerAssumption DEF Message, Plain
  <2>2. Undisturbed => a = Plain("DUP_REQUEST")  \/ a.type = "STATUS_OK"
    BY <1>1, MessageFacts DEF Answers
  <2> QED BY <2>1, <2>2
<1>2. ASSUME NEW h \in Peers, f \in file_set[h], a = [buf |-> h, type |-> "STATUS_OK"]
      PROVE  a \in Message /\ (exposed = {} => Whole(a.buf, f)) /\ a.type = "STATUS_OK"
  BY <1>2 DEF Message, IInv, SearchSound, SetIsWhole
<1> QED BY <1>1, <1>2 DEF Answers

LEMMA ReceivesInv ==
  ASSUME IInv, NEW p \in Peers, NEW n \in Peers, NEW a \in Message, Receives(p, n, a)
  PROVE  IInv'
<1>1. /\ UNCHANGED <<transfers, file_set, menu, query_response, stored>>
      /\ Searching(p) /\ threads[p][n] = "calling"
      /\ answer' = [answer EXCEPT ![p][n] = a]
      /\ threads' = [threads EXCEPT ![p][n] = IF Keeps(a) THEN "storing" ELSE "off"]
      /\ IF n \in up THEN a \in Answers(file[<<p, Cli>>]) ELSE a = Plain("NULL_MSG")
  BY DEF Receives
<1>2. /\ threads \in [Peers -> [Peers -> {"off", "spawned", "calling", "storing"}]]
      /\ answer \in [Peers -> [Peers -> Message]]
  BY DEF IInv, TypeOK
<1>3. PICK s \in {"storing", "off"} : s = IF Keeps(a) THEN "storing" ELSE "off"
  OBVIOUS
<1>4. /\ \A q, k \in Peers : threads'[q][k] = IF q = p /\ k = n THEN s ELSE threads[q][k]
      /\ \A q, k \in Peers : answer'[q][k] = IF q = p /\ k = n THEN a ELSE answer[q][k]
  BY <1>1, <1>2, <1>3
<1>5. TypeOK'
  <2>1. threads' \in [Peers -> [Peers -> {"off", "spawned", "calling", "storing"}]]
    BY <1>1, <1>2
  <2>2. answer' \in [Peers -> [Peers -> Message]]
    BY <1>1, <1>2
  <2> QED BY <1>1, <2>1, <2>2, SearchFrame DEF IInv, TypeOK
<1>6. file[<<p, Cli>>] \in Files
  BY <1>1, LineFacts DEF Searching, IInv, Roles
<1>7. SearchSound'
  <2> SUFFICES ASSUME exposed = {} PROVE SetIsWhole' /\ AnswerIsWhole'
    BY <1>1, SearchFrame DEF SearchSound
  <2>1. a.buf \in Peers => Whole(a.buf, file[<<p, Cli>>])
    BY <1>1, <1>6, AnswerFacts, MessageFacts, PeerAssumption
  <2>2. SetIsWhole /\ AnswerIsWhole
    BY DEF IInv, SearchSound
  <2>3. SetIsWhole' /\ (\A q, f : Whole(q, f)' <=> Whole(q, f))
    BY <1>1, <2>2, SearchFrame
  <2>4. \A q \in Peers : (Searching(q)' <=> Searching(q)) /\ file'[<<q, Cli>>] = file[<<q, Cli>>]
    BY <1>1, SearchFrame
  <2>5. ASSUME NEW q \in Peers, Searching(q)
        PROVE  /\ query_response'[q].buf \in Peers => Whole(query_response'[q].buf, file[<<q, Cli>>])
               /\ \A k \in Peers : answer'[q][k].buf \in Peers => Whole(answer'[q][k].buf, file[<<q, Cli>>])
    <3>1. query_response'[q] = query_response[q]
      BY <1>1
    <3>2. ASSUME NEW k \in Peers, answer'[q][k].buf \in Peers
          PROVE  Whole(answer'[q][k].buf, file[<<q, Cli>>])
      <4>1. CASE q = p /\ k = n
        BY <1>4, <2>1, <3>2, <4>1
      <4>2. CASE ~(q = p /\ k = n)
        BY <1>4, <2>2, <2>5, <3>2, <4>2 DEF AnswerIsWhole
      <4> QED BY <4>1, <4>2
    <3> QED BY <2>2, <2>5, <3>1, <3>2 DEF AnswerIsWhole
  <2>6. AnswerIsWhole'
    BY <2>3, <2>4, <2>5 DEF AnswerIsWhole
  <2> QED BY <2>3, <2>6
<1>8. Response'
  <2> SUFFICES ASSUME Undisturbed PROVE \A q \in Peers : Searching(q) =>
                 (\A k \in Peers : Storing(q, k)') /\ (\A field \in Fields : Left(q, field)')
    BY <1>1, SearchFrame DEF Response
  <2>1. a = Plain("DUP_REQUEST") \/ a.type = "STATUS_OK"
    BY <1>1, <1>6, AnswerFacts DEF Undisturbed
  <2>2. answer[p][n] = Plain("DUP_REQUEST") /\ stored[p][n] = {}
    BY <1>1, MessageFacts DEF IInv, Response, Storing
  <2>3. Storing(p, n)'
    BY <1>1, <1>3, <1>4, <2>1, <2>2, MessageFacts DEF Storing, Keeps
  <2>4. ASSUME NEW q \in Peers, NEW k \in Peers, ~(q = p /\ k = n), Storing(q, k)
        PROVE  Storing(q, k)'
    BY <1>1, <1>4, <2>4 DEF Storing, Plain
  <2>5. ASSUME NEW q \in Peers, NEW field \in Fields, Left(q, field)
        PROVE  Left(q, field)'
    BY <1>1, <1>4, <2>2, <2>5 DEF Left, Plain
  <2> QED BY <2>3, <2>4, <2>5 DEF IInv, Response
<1> QED BY <1>1, <1>5, <1>7, <1>8, SearchFrame DEF IInv

LEMMA StoreInv ==
  ASSUME IInv, NEW p \in Peers, NEW n \in Peers, NEW field \in Fields, Store(p, n, field)
  PROVE  IInv'
<1>1. /\ UNCHANGED <<transfers, file_set, menu, answer>>
      /\ Searching(p) /\ threads[p][n] = "storing"
      /\ query_response' = [query_response EXCEPT ![p][field] = answer[p][n][field]]
      /\ stored' = [stored EXCEPT ![p][n] = @ \cup {field}]
      /\ threads' = [threads EXCEPT ![p][n] = IF stored'[p][n] = Fields THEN "off" ELSE @]
  BY DEF Store
<1>2. /\ threads \in [Peers -> [Peers -> {"off", "spawned", "calling", "storing"}]]
      /\ stored \in [Peers -> [Peers -> SUBSET Fields]]
      /\ query_response \in [Peers -> Message] /\ answer \in [Peers -> [Peers -> Message]]
  BY DEF IInv, TypeOK
<1>3. \A q, k \in Peers : stored'[q][k] = IF q = p /\ k = n THEN stored[p][n] \cup {field} ELSE stored[q][k]
  BY <1>1, <1>2
<1>4. PICK s \in {"storing", "off"} :
        /\ s = IF stored'[p][n] = Fields THEN "off" ELSE "storing"
        /\ threads' = [threads EXCEPT ![p][n] = s]
  BY <1>1
<1>5. \A q, k \in Peers : threads'[q][k] = IF q = p /\ k = n THEN s ELSE threads[q][k]
  BY <1>2, <1>4
<1>6. /\ query_response' \in [Peers -> Message]
      /\ query_response'[p][field] = answer[p][n][field]
      /\ \A g \in Fields : g # field => query_response'[p][g] = query_response[p][g]
      /\ \A q \in Peers : q # p => query_response'[q] = query_response[q]
  <2>1. PICK r \in Message : r = query_response[p]
    BY <1>2
  <2>2. PICK a \in Message : a = answer[p][n]
    BY <1>2
  <2>3. /\ [r EXCEPT ![field] = a[field]] \in Message
        /\ [r EXCEPT ![field] = a[field]][field] = a[field]
        /\ \A g \in Fields : g # field => [r EXCEPT ![field] = a[field]][g] = r[g]
    BY DEF Fields, Message
  <2>4. query_response' = [query_response EXCEPT ![p] = [r EXCEPT ![field] = a[field]]]
    BY <1>1, <2>1, <2>2
  <2> QED BY <1>2, <2>1, <2>2, <2>3, <2>4
<1>7. TypeOK'
  <2>1. threads' \in [Peers -> [Peers -> {"off", "spawned", "calling", "storing"}]]
    BY <1>2, <1>4
  <2>2. stored' \in [Peers -> [Peers -> SUBSET Fields]]
    BY <1>1, <1>2
  <2> QED BY <1>1, <1>6, <2>1, <2>2, SearchFrame DEF IInv, TypeOK
<1>8. SearchSound'
  <2> SUFFICES ASSUME exposed = {} PROVE SetIsWhole' /\ AnswerIsWhole'
    BY <1>1, SearchFrame DEF SearchSound
  <2>1. query_response'[p].buf = query_response[p].buf \/ query_response'[p].buf = answer[p][n].buf
    BY <1>6 DEF Fields
  <2>2. SetIsWhole /\ AnswerIsWhole
    BY DEF IInv, SearchSound
  <2>3. SetIsWhole' /\ (\A q, f : Whole(q, f)' <=> Whole(q, f))
    BY <1>1, <2>2, SearchFrame
  <2>4. \A q \in Peers : (Searching(q)' <=> Searching(q)) /\ file'[<<q, Cli>>] = file[<<q, Cli>>]
    BY <1>1, SearchFrame
  <2>5. ASSUME NEW q \in Peers, Searching(q), query_response'[q].buf \in Peers
        PROVE  Whole(query_response'[q].buf, file[<<q, Cli>>])
    <3>1. CASE q = p
      BY <2>1, <2>2, <2>5, <3>1 DEF AnswerIsWhole
    <3>2. CASE q # p
      BY <1>6, <2>2, <2>5, <3>2 DEF AnswerIsWhole
    <3> QED BY <3>1, <3>2
  <2>6. AnswerIsWhole'
    BY <1>1, <2>2, <2>3, <2>4, <2>5 DEF AnswerIsWhole
  <2> QED BY <2>3, <2>6
<1>9. Response'
  <2> SUFFICES ASSUME Undisturbed PROVE \A q \in Peers : Searching(q) =>
                 (\A k \in Peers : Storing(q, k)') /\ (\A g \in Fields : Left(q, g)')
    BY <1>1, SearchFrame DEF Response
  <2>1. answer[p][n].type # "DUP_REQUEST" /\ answer[p][n].type = "STATUS_OK"
    BY <1>1 DEF IInv, Response, Storing
  <2>2. Storing(p, n)'
    BY <1>1, <1>3, <1>4, <1>5, <2>1 DEF Storing
  <2>3. ASSUME NEW q \in Peers, NEW k \in Peers, ~(q = p /\ k = n), Storing(q, k)
        PROVE  Storing(q, k)'
    BY <1>1, <1>3, <1>5, <2>3 DEF Storing, Plain
  <2>4. ASSUME NEW q \in Peers, NEW g \in Fields, Left(q, g)
        PROVE  Left(q, g)'
    <3>1. CASE q = p /\ g = field
      BY <1>1, <1>3, <1>6, <3>1 DEF Left
    <3>2. CASE q = p /\ g # field
      BY <1>1, <1>3, <1>6, <2>4, <3>2 DEF Left, Plain
    <3>3. CASE q # p
      BY <1>1, <1>3, <1>6, <2>4, <3>3 DEF Left, Plain
    <3> QED BY <3>1, <3>2, <3>3
  <2> QED BY <2>2, <2>3, <2>4 DEF IInv, Response
<1> QED BY <1>1, <1>7, <1>8, <1>9, SearchFrame DEF IInv

\* The end of a search: on to the download, or back to the menu.
LEMMA SearchEndsInv ==
  ASSUME IInv, NEW p \in Peers, SearchEnds(p)
  PROVE  IInv'
<1> DEFINE t == <<p, Cli>>
<1>1. PICK r \in Message : r = query_response[p]
  BY DEF IInv, TypeOK
<1>2. /\ Searching(p) /\ stage[t] \in {"asking", "searching"} /\ t \in Threads /\ file[t] \in Files
      /\ UNCHANGED <<file_set, search, menu>>
      /\ t[1] = p /\ t[2] = Cli
  BY LineFacts DEF SearchEnds, Searching, IInv, Roles
<1>3. CASE r.type = "STATUS_OK" /\ r.buf = NoBuffer /\ Die(p)
  BY <1>2, <1>3, DieInv
<1>4. CASE ~(r.type = "STATUS_OK" /\ r.buf = NoBuffer /\ Die(p))
  <2>1. /\ UNCHANGED <<up, inbox, content, file, client, count, channel, restarts, exposed>>
        /\ \/ /\ stage' = [stage EXCEPT ![t] = "connecting"]
              /\ from' = [from EXCEPT ![t] = r.buf]
              /\ r.buf \in Peers
              /\ result' = result
           \/ /\ stage' = [stage EXCEPT ![t] = "menu"] /\ from' = from
              /\ \/ result' = result
                 \/ result' = [result EXCEPT ![p] = "nobody"]
    <3>1. CASE r.type = "STATUS_OK" /\ r.buf # NoBuffer
      <4>1. r.buf \in Peers
        BY <1>1, <3>1 DEF Message
      <4>2. Found(t, r.buf, stage[t] = "searching")
            /\ UNCHANGED <<up, inbox, content, work, channel, result, restarts, exposed>>
        BY <1>1, <3>1 DEF SearchEnds
      <4> QED BY <4>1, <4>2 DEF Found, Goto, work
    <3>2. CASE r.type = "STATUS_OK" /\ r.buf = NoBuffer
      BY <1>1, <1>4, <3>2 DEF SearchEnds
    <3>3. CASE r.type # "STATUS_OK"
      <4>1. result \in [Peers -> {"none", "nobody", "refused", "lost", "downloaded"}]
        BY DEF IInv, TypeOK, TransfersTypeOK
      <4>2. /\ Goto(t, "menu")
            /\ result' = [result EXCEPT ![p] = IF stage[t] = "asking" THEN @ ELSE "nobody"]
            /\ UNCHANGED <<up, inbox, content, work, from, channel, restarts, exposed>>
        BY <1>1, <3>3 DEF SearchEnds
      <4>3. result' = result \/ result' = [result EXCEPT ![p] = "nobody"]
        BY <4>1, <4>2
      <4> QED BY <4>2, <4>3 DEF Goto, work
    <3> QED BY <3>1, <3>2, <3>3
  <2>2. Undisturbed' = Undisturbed /\ \A q, f : Whole(q, f)' <=> Whole(q, f)
    BY <2>1 DEF Undisturbed, Whole
  <2>3. /\ \A u \in Threads : u # t => stage'[u] = stage[u] /\ from'[u] = from[u]
        /\ stage'[t] \in {"menu", "connecting"}
        /\ stage'[t] = "connecting" => from'[t] = r.buf /\ r.buf \in Peers
        /\ stage' \in [Threads -> Stages] /\ from' \in [Threads -> Peers \cup {NoPeer}]
    <3>1. stage \in [Threads -> Stages] /\ from \in [Threads -> Peers \cup {NoPeer}]
      BY DEF IInv, TypeOK, TransfersTypeOK
    <3>2. CASE stage' = [stage EXCEPT ![t] = "connecting"] /\ from' = [from EXCEPT ![t] = r.buf] /\ r.buf \in Peers
      BY <1>2, <3>1, <3>2 DEF Stages
    <3>3. CASE stage' = [stage EXCEPT ![t] = "menu"] /\ from' = from
      BY <1>2, <3>1, <3>3 DEF Stages
    <3> QED BY <2>1, <3>2, <3>3
  <2>4. TypeOK'
    <3>1. result' \in [Peers -> {"none", "nobody", "refused", "lost", "downloaded"}]
      BY <2>1 DEF IInv, TypeOK, TransfersTypeOK
    <3> QED BY <1>2, <2>1, <2>3, <3>1 DEF IInv, TypeOK, TransfersTypeOK, search
  <2>5. Roles'
    BY <1>2, <2>1, <2>3 DEF IInv, Roles, CliStages
  <2>6. Shape'
    <3>1. p \in up
      BY <1>2 DEF IInv, Shape
    <3> QED BY <1>2, <2>1, <2>3, <3>1 DEF IInv, Shape
  <2>7. SearchSound'
    <3> SUFFICES ASSUME exposed = {} PROVE SetIsWhole' /\ AnswerIsWhole'
      BY <2>1 DEF SearchSound
    <3>1. SetIsWhole'
      BY <1>2, <2>2 DEF IInv, SearchSound, SetIsWhole
    <3>2. \A q \in Peers : Searching(q)' => Searching(q)
      BY <1>2, <2>3, LineFacts DEF Searching
    <3>3. AnswerIsWhole'
      BY <1>2, <2>1, <2>2, <3>2 DEF IInv, SearchSound, AnswerIsWhole, search
    <3> QED BY <3>1, <3>3
  <2>8. Sound'
    <3> SUFFICES ASSUME exposed = {}
                 PROVE  (/\ NamedIsWhole /\ AskedIsWhole /\ SentIsWhole /\ OnlyData /\ ReceivedIsThere
                         /\ NobodyRefuses)'
      BY <2>1 DEF Sound
    <3>1. r.buf \in Peers => Whole(r.buf, file[t])
      BY <1>1, <1>2 DEF IInv, SearchSound, AnswerIsWhole
    <3>2. NamedIsWhole'
      BY <2>1, <2>2, <2>3, <3>1 DEF IInv, Sound, NamedIsWhole
    <3>3. SentIsWhole' /\ ReceivedIsThere'
      BY <2>1, <2>2, <2>3 DEF IInv, Sound, SentIsWhole, ReceivedIsThere
    <3>4. NobodyRefuses'
      BY <2>1 DEF IInv, Sound, NobodyRefuses, TypeOK, TransfersTypeOK
    <3> QED BY <2>1, <2>2, <3>2, <3>3, <3>4 DEF IInv, Sound, AskedIsWhole, OnlyData
  <2>9. Response'
    <3>1. \A q, n : Storing(q, n)' = Storing(q, n)
      BY <1>2 DEF Storing, Plain, search
    <3>2. \A q, field : Left(q, field)' = Left(q, field)
      BY <1>2 DEF Left, Plain, search
    <3>3. \A q \in Peers : Searching(q)' => Searching(q)
      BY <1>2, <2>3, LineFacts DEF Searching
    <3> QED BY <2>2, <3>1, <3>2, <3>3 DEF IInv, Response
  <2>10. Calm'
    BY <2>1, <2>2, <2>3 DEF IInv, Calm
  <2>11. PartialOnlyMidway'
    <3>1. \A q \in Peers : stage[<<q, Cli>>] = "receiving" => stage'[<<q, Cli>>] = "receiving"
      BY <1>2, <2>3, LineFacts
    <3> QED BY <2>1, <2>2, <3>1 DEF IInv, PartialOnlyMidway
  <2> QED BY <2>4, <2>5, <2>6, <2>7, <2>8, <2>9, <2>10, <2>11 DEF IInv
<1> QED BY <1>3, <1>4

\* A choice from the menu: the peer's own file, or a new search.
LEMMA search_for_fileInv ==
  ASSUME IInv, NEW p \in Peers, NEW c \in Choices, search_for_file(p, c)
  PROVE  IInv'
<1> DEFINE t == <<p, Cli>>
           Asked ==
             /\ query_response' = [query_response EXCEPT ![p] = Plain("DUP_REQUEST")]
             /\ threads' = [threads EXCEPT ![p] = [n \in Peers |-> IF n \in Neighbors[p] THEN "spawned" ELSE "off"]]
             /\ answer' = [answer EXCEPT ![p] = [n \in Peers |-> Plain("DUP_REQUEST")]]
             /\ stored' = [stored EXCEPT ![p] = [n \in Peers |-> {}]]
<1>1. /\ t \in Threads /\ t[1] = p /\ t[2] = Cli /\ stage[t] = "menu"
      /\ menu[p] # <<>> /\ menu' = [menu EXCEPT ![p] = Tail(@)]
      /\ c.file \in Files
      /\ file' = [file EXCEPT ![t] = c.file]
      /\ UNCHANGED <<up, inbox, content, client, count, channel, result, restarts, exposed, file_set>>
  BY LineFacts DEF search_for_file, Choose, Choices
<1>2. \/ /\ c.file \in file_set[p]
         /\ from' = [from EXCEPT ![t] = p] /\ stage' = [stage EXCEPT ![t] = "connecting"]
         /\ UNCHANGED search
      \/ /\ c.file \in file_set[p]
         /\ from' = from /\ stage' = [stage EXCEPT ![t] = "menu"]
         /\ UNCHANGED search
      \/ /\ Asked
         /\ \E s \in {"asking", "searching"} : stage' = [stage EXCEPT ![t] = s]
         /\ from' = from
  BY DEF search_for_file, has, Found, Goto
<1>3. /\ stage \in [Threads -> Stages] /\ from \in [Threads -> Peers \cup {NoPeer}]
      /\ file \in [Threads -> Files \cup {NoFile}]
  BY DEF IInv, TypeOK, TransfersTypeOK
<1>4. /\ \A u \in Threads : u # t => stage'[u] = stage[u] /\ from'[u] = from[u] /\ file'[u] = file[u]
      /\ file'[t] = c.file
      /\ stage'[t] \in {"menu", "connecting", "asking", "searching"}
      /\ stage' \in [Threads -> Stages] /\ from' \in [Threads -> Peers \cup {NoPeer}]
      /\ file' \in [Threads -> Files \cup {NoFile}]
      /\ stage'[t] = "connecting" => from'[t] = p /\ c.file \in file_set[p]
  <2>1. /\ \A u \in Threads : u # t => file'[u] = file[u]
        /\ file'[t] = c.file /\ file' \in [Threads -> Files \cup {NoFile}]
    BY <1>1, <1>3
  <2>2. CASE /\ c.file \in file_set[p]
             /\ from' = [from EXCEPT ![t] = p] /\ stage' = [stage EXCEPT ![t] = "connecting"]
    BY <1>1, <1>3, <2>1, <2>2 DEF Stages
  <2>3. CASE from' = from /\ \E s \in {"menu", "asking", "searching"} : stage' = [stage EXCEPT ![t] = s]
    BY <1>1, <1>3, <2>1, <2>3 DEF Stages
  <2> QED BY <1>2, <2>2, <2>3
<1>5. Undisturbed' = Undisturbed /\ \A q, f : Whole(q, f)' <=> Whole(q, f)
  BY <1>1 DEF Undisturbed, Whole
<1>6. TypeOK'
  <2>1. menu' \in [Peers -> Seq(Choices)]
    <3>1. menu \in [Peers -> Seq(Choices)]
      BY DEF IInv, TypeOK
    <3>2. Tail(menu[p]) \in Seq(Choices)
      BY <1>1, <3>1, HeadTailProperties
    <3> QED BY <1>1, <3>1, <3>2
  <2>2. /\ query_response' \in [Peers -> Message]
        /\ threads' \in [Peers -> [Peers -> {"off", "spawned", "calling", "storing"}]]
        /\ answer' \in [Peers -> [Peers -> Message]]
        /\ stored' \in [Peers -> [Peers -> SUBSET Fields]]
    <3>1. /\ query_response \in [Peers -> Message]
          /\ threads \in [Peers -> [Peers -> {"off", "spawned", "calling", "storing"}]]
          /\ answer \in [Peers -> [Peers -> Message]]
          /\ stored \in [Peers -> [Peers -> SUBSET Fields]]
      BY DEF IInv, TypeOK
    <3>2. CASE UNCHANGED search
      BY <3>1, <3>2 DEF search
    <3>3. CASE Asked
      <4>1. Plain("DUP_REQUEST") \in Message
        BY MessageFacts
      <4>2. PICK ths \in [Peers -> {"off", "spawned"}], ans \in [Peers -> Message], sto \in [Peers -> SUBSET Fields] :
              /\ threads' = [threads EXCEPT ![p] = ths]
              /\ answer' = [answer EXCEPT ![p] = ans]
              /\ stored' = [stored EXCEPT ![p] = sto]
        BY <3>3, <4>1
      <4>3. query_response' \in [Peers -> Message]
        BY <3>1, <3>3, <4>1
      <4>4. threads' \in [Peers -> [Peers -> {"off", "spawned", "calling", "storing"}]]
        <5>1. ths \in [Peers -> {"off", "spawned", "calling", "storing"}]
          OBVIOUS
        <5> QED BY <3>1, <4>2, <5>1
      <4>5. answer' \in [Peers -> [Peers -> Message]]
        BY <3>1, <4>2
      <4>6. stored' \in [Peers -> [Peers -> SUBSET Fields]]
        BY <3>1, <4>2
      <4> QED BY <4>3, <4>4, <4>5, <4>6
    <3> QED BY <1>2, <3>2, <3>3
  <2>3. TransfersTypeOK'
    BY <1>1, <1>4 DEF IInv, TypeOK, TransfersTypeOK
  <2> QED BY <1>1, <1>4, <2>1, <2>2, <2>3 DEF IInv, TypeOK
<1>7. Roles'
  BY <1>1, <1>4 DEF IInv, Roles, CliStages
<1>8. Shape'
  <2>1. p \in up
    BY <1>1 DEF IInv, Shape
  <2> QED BY <1>1, <1>4, <2>1 DEF IInv, Shape
<1>9. \A q \in Peers : q # p =>
        /\ query_response'[q] = query_response[q] /\ threads'[q] = threads[q]
        /\ answer'[q] = answer[q] /\ stored'[q] = stored[q]
        /\ Searching(q)' <=> Searching(q)
        /\ file'[<<q, Cli>>] = file[<<q, Cli>>]
  <2>1. \A q \in Peers : q # p => <<q, Cli>> # t /\ <<q, Cli>> \in Threads
    BY LineFacts
  <2>2. \A q \in Peers : q # p =>
          /\ query_response'[q] = query_response[q] /\ threads'[q] = threads[q]
          /\ answer'[q] = answer[q] /\ stored'[q] = stored[q]
    BY <1>2 DEF search, IInv, TypeOK
  <2> QED BY <1>4, <2>1, <2>2 DEF Searching
<1>10. Searching(p)' =>
         /\ query_response'[p] = Plain("DUP_REQUEST")
         /\ \A n \in Peers :
              threads'[p][n] \in {"off", "spawned"} /\ answer'[p][n] = Plain("DUP_REQUEST") /\ stored'[p][n] = {}
  <2>1. CASE \E s \in {"connecting", "menu"} : stage' = [stage EXCEPT ![t] = s]
    BY <1>1, <1>3, <2>1 DEF Searching
  <2>2. CASE Asked
    BY <2>2 DEF IInv, TypeOK
  <2> QED BY <1>2, <2>1, <2>2
<1>11. SearchSound'
  <2> SUFFICES ASSUME exposed = {} PROVE SetIsWhole' /\ AnswerIsWhole'
    BY <1>1 DEF SearchSound
  <2>1. SetIsWhole'
    BY <1>1, <1>5 DEF IInv, SearchSound, SetIsWhole
  <2>2. AnswerIsWhole
    BY DEF IInv, SearchSound
  <2>3. Plain("DUP_REQUEST").buf \notin Peers
    BY MessageFacts, PeerAssumption
  <2>4. AnswerIsWhole'
    <3> SUFFICES ASSUME NEW q \in Peers, Searching(q)'
                 PROVE  /\ query_response'[q].buf \in Peers => Whole(query_response'[q].buf, file'[<<q, Cli>>])
                        /\ \A n \in Peers :
                             answer'[q][n].buf \in Peers => Whole(answer'[q][n].buf, file'[<<q, Cli>>])
      BY <1>5 DEF AnswerIsWhole
    <3>1. CASE q = p
      BY <1>10, <2>3, <3>1
    <3>2. CASE q # p
      BY <1>5, <1>9, <2>2, <3>2 DEF AnswerIsWhole
    <3> QED BY <3>1, <3>2
  <2> QED BY <2>1, <2>4
<1>12. Sound'
  <2> SUFFICES ASSUME exposed = {}
               PROVE  (/\ NamedIsWhole /\ AskedIsWhole /\ SentIsWhole /\ OnlyData /\ ReceivedIsThere
                       /\ NobodyRefuses)'
    BY <1>1 DEF Sound
  <2>1. c.file \in file_set[p] => Whole(p, c.file)
    BY DEF IInv, SearchSound, SetIsWhole
  <2>2. NamedIsWhole'
    BY <1>1, <1>4, <1>5, <2>1 DEF IInv, Sound, NamedIsWhole
  <2>3. SentIsWhole' /\ ReceivedIsThere'
    BY <1>1, <1>4, <1>5 DEF IInv, Sound, SentIsWhole, ReceivedIsThere
  <2> QED BY <1>1, <1>5, <2>2, <2>3 DEF IInv, Sound, AskedIsWhole, OnlyData, NobodyRefuses
<1>13. Response'
  <2> SUFFICES ASSUME Undisturbed, NEW q \in Peers, Searching(q)'
               PROVE  (\A n \in Peers : Storing(q, n)') /\ (\A field \in Fields : Left(q, field)')
    BY <1>5 DEF Response
  <2>1. CASE q = p
    BY <1>10, <2>1, MessageFacts DEF Storing, Left
  <2>2. CASE q # p
    <3>1. (\A n \in Peers : Storing(q, n)) /\ (\A field \in Fields : Left(q, field))
      BY <1>9, <2>2 DEF IInv, Response
    <3>2. /\ query_response'[q] = query_response[q] /\ threads'[q] = threads[q]
          /\ answer'[q] = answer[q] /\ stored'[q] = stored[q]
      BY <1>9, <2>2
    <3>3. \A n \in Peers : Storing(q, n)'
      BY <3>1, <3>2 DEF Storing, Plain
    <3>4. \A field \in Fields : Left(q, field)'
      BY <3>1, <3>2 DEF Left, Plain
    <3> QED BY <3>3, <3>4
  <2> QED BY <2>1, <2>2
<1>14. Calm'
  BY <1>1, <1>4, <1>5 DEF IInv, Calm
<1>15. PartialOnlyMidway'
  <2>1. \A q \in Peers : stage[<<q, Cli>>] = "receiving" =>
          stage'[<<q, Cli>>] = "receiving" /\ file'[<<q, Cli>>] = file[<<q, Cli>>]
    BY <1>1, <1>4, LineFacts
  <2> QED BY <1>1, <1>5, <2>1 DEF IInv, PartialOnlyMidway
<1> QED BY <1>6, <1>7, <1>8, <1>11, <1>12, <1>13, <1>14, <1>15 DEF IInv

\* A peer that comes back announces what it finds.
LEMMA ReturnInv ==
  ASSUME IInv, NEW p \in Peers, Return(p)
  PROVE  IInv'
<1>1. /\ Restart(p, "menu") /\ Announce(p, Listing(p))
      /\ file_set' = [file_set EXCEPT ![p] = Listing(p)]
      /\ UNCHANGED <<query_response, threads, answer, stored, menu>>
  BY DEF Return, search
<1>2. /\ UNCHANGED <<inbox, content, file, client, count, from, channel, result>>
      /\ restarts' = restarts + 1
      /\ stage' = [u \in Threads |->
           IF u[1] # p THEN stage[u] ELSE IF u[2] = Cli THEN "menu" ELSE "idle"]
  BY <1>1 DEF Restart, work
<1>3. /\ Listing(p) \subseteq Files
      /\ exposed \subseteq exposed' /\ exposed' \subseteq Peers \X Files
      /\ exposed' = {} => exposed = {} /\ \A f \in Listing(p) : Whole(p, f)
  <2>1. /\ exposed' = exposed \cup {<<p, f>> : f \in {g \in Listing(p) : ~Whole(p, g)}}
        /\ Listing(p) \subseteq Files /\ exposed \subseteq Peers \X Files
    BY <1>1 DEF Announce, Listing, IInv, TypeOK, TransfersTypeOK
  <2>2. ASSUME exposed' = {}, NEW f \in Listing(p) PROVE Whole(p, f)
    <3>1. ~Whole(p, f) => <<p, f>> \in exposed'
      BY <2>1
    <3> QED BY <2>2, <3>1
  <2> QED BY <2>1, <2>2
<1>4. Kept
  BY <1>1, <1>3, TypedFacts, RestartKeeps DEF IInv
<1>5. TypeOK'
  <2>1. inbox' \in [Peers -> Seq(Requests)]
    BY <1>4, TypedFacts DEF Kept, IInv
  <2>2. stage' \in [Threads -> Stages]
    BY <1>2, TypedFacts DEF IInv, Stages
  <2>3. file_set' \in [Peers -> SUBSET Files]
    BY <1>1, <1>3 DEF IInv, TypeOK
  <2>4. TransfersTypeOK'
    BY <1>4 DEF Kept
  <2> QED BY <1>1, <2>1, <2>2, <2>3, <2>4 DEF IInv, TypeOK, Requests
<1>6. Roles'
  BY <1>2 DEF IInv, Roles, CliStages, HandlerStages
<1>7. ~Undisturbed'
  BY <1>2 DEF Undisturbed, IInv, TypeOK, TransfersTypeOK
<1>8. SearchSound'
  <2> SUFFICES ASSUME exposed' = {} PROVE SetIsWhole' /\ AnswerIsWhole'
    BY DEF SearchSound
  <2>1. /\ \A q, f : Whole(q, f)' <=> Whole(q, f)
        /\ SetIsWhole /\ AnswerIsWhole
    BY <1>2, <1>3 DEF Whole, IInv, SearchSound
  <2>2. \A q \in Peers : file_set'[q] = IF q = p THEN Listing(p) ELSE file_set[q]
    BY <1>1 DEF IInv, TypeOK
  <2>3. SetIsWhole'
    BY <1>3, <2>1, <2>2 DEF SetIsWhole
  <2>4. \A q \in Peers : Searching(q)' => Searching(q)
    BY <1>2, LineFacts DEF Searching
  <2>5. AnswerIsWhole'
    BY <1>1, <1>2, <2>1, <2>4 DEF AnswerIsWhole
  <2> QED BY <2>3, <2>5
<1> QED BY <1>4, <1>5, <1>6, <1>7, <1>8 DEF IInv, Kept, Response, Calm, PartialOnlyMidway
-----------------------------------------------------------------------------
(* The specification.                                                      *)

LEMMA InitInv == Init => IInv
<1> SUFFICES ASSUME Init PROVE IInv
  OBVIOUS
<1>1. /\ up = Peers /\ restarts = 0 /\ exposed = {}
      /\ inbox = [p \in Peers |-> <<>>]
      /\ content = [p \in Peers |-> [f \in Files |-> IF f \in Shared[p] THEN Blocks ELSE NoFile]]
      /\ stage = [t \in Threads |-> IF t[2] = Cli THEN "menu" ELSE "idle"]
      /\ file = [t \in Threads |-> NoFile]
      /\ from = [t \in Threads |-> NoPeer]
      /\ client = [t \in Threads |-> Gone]
      /\ count = [t \in Threads |-> 0]
      /\ channel = [t \in Threads |-> <<>>]
      /\ result = [p \in Peers |-> "none"]
      /\ file_set = Shared
      /\ query_response = [p \in Peers |-> Plain("DUP_REQUEST")]
      /\ threads = [p \in Peers |-> [n \in Peers |-> "off"]]
      /\ answer = [p \in Peers |-> [n \in Peers |-> Plain("DUP_REQUEST")]]
      /\ stored = [p \in Peers |-> [n \in Peers |-> {}]]
      /\ menu = Commands
  BY DEF Init, InitTransfers
<1>2. /\ \A t \in Threads : stage[t] \in {"menu", "idle"} /\ channel[t] = <<>>
      /\ \A p \in Peers : inbox[p] = <<>> /\ result[p] = "none" /\ ~Searching(p)
      /\ DOMAIN <<>> = {}
  BY <1>1, LineFacts DEF Searching
<1>3. TypeOK
  <2>1. content \in [Peers -> [Files -> {NoFile} \cup SUBSET Blocks]]
    BY <1>1
  <2>2. /\ inbox \in [Peers -> Seq([type : {"REQUEST_FILE"}, file : Files, client : Threads \cup {Gone}])]
        /\ channel \in [Threads -> Seq({"STATUS_BAD", "data", "hole"})]
    BY <1>1
  <2>3. restarts \in 0..MaxRestarts
    BY <1>1, TransferAssumption
  <2>4. TransfersTypeOK
    BY <1>1, <2>1, <2>2, <2>3 DEF TransfersTypeOK
  <2>5. /\ query_response \in [Peers -> Message]
        /\ threads \in [Peers -> [Peers -> {"off", "spawned", "calling", "storing"}]]
        /\ answer \in [Peers -> [Peers -> Message]]
        /\ stored \in [Peers -> [Peers -> SUBSET Fields]]
    BY <1>1, MessageFacts
  <2>6. /\ stage \in [Threads -> Stages] /\ file_set \in [Peers -> SUBSET Files]
        /\ menu \in [Peers -> Seq(Choices)]
    <3>1. menu \in [Peers -> Seq(Choices)]
      BY <1>1, PeerAssumption
    <3> QED BY <1>1, <3>1, TransferAssumption DEF Stages
  <2> QED BY <2>2, <2>4, <2>5, <2>6 DEF TypeOK
<1>4. Roles /\ Shape
  <2>1. \A t \in Threads : t[1] \in Peers
    BY ThreadFacts
  <2> QED BY <1>1, <1>2, <2>1 DEF Roles, Shape, CliStages, HandlerStages
<1>5. Sound
  BY <1>2 DEF Sound, NamedIsWhole, AskedIsWhole, SentIsWhole, OnlyData, ReceivedIsThere, NobodyRefuses
<1>6. SearchSound
  <2>1. \A p \in Peers : \A f \in Shared[p] : f \in Files /\ content[p][f] = Blocks
    BY <1>1, TransferAssumption
  <2> QED BY <1>1, <1>2, <2>1 DEF SearchSound, SetIsWhole, AnswerIsWhole, Whole
<1>7. Response /\ Calm
  BY <1>1, <1>2 DEF Response, Calm
<1>8. PartialOnlyMidway
  BY <1>1 DEF PartialOnlyMidway
<1> QED BY <1>3, <1>4, <1>5, <1>6, <1>7, <1>8 DEF IInv

LEMMA NextInv == IInv /\ [Next]_vars => IInv'
<1> SUFFICES ASSUME IInv, [Next]_vars PROVE IInv'
  OBVIOUS
<1>1. CASE UNCHANGED vars
  <2>1. UNCHANGED <<transfers, file_set, menu, query_response, threads, answer, stored>>
    BY <1>1 DEF vars, search
  <2>2. TypeOK'
    BY <2>1, SearchFrame DEF IInv, TypeOK
  <2>3. SearchSound'
    BY <2>1, SearchFrame DEF IInv, SearchSound, AnswerIsWhole
  <2>4. Response'
    <3>1. \A q, n : Storing(q, n)' = Storing(q, n)
      BY <2>1 DEF Storing, Plain
    <3>2. \A q, field : Left(q, field)' = Left(q, field)
      BY <2>1 DEF Left, Plain
    <3> QED BY <2>1, <3>1, <3>2, SearchFrame DEF IInv, Response
  <2> QED BY <2>1, <2>2, <2>3, <2>4, SearchFrame DEF IInv
<1>2. ASSUME NEW t \in Threads, Run(t) PROVE IInv'
  <2>1. CASE (Download(t) \/ (t[2] # Cli /\ Upload(t))) /\ UNCHANGED <<file_set, search, menu>>
    BY <2>1, TransferInv
  <2>2. CASE broadcast_query(t[1])
    BY <2>2, ThreadFacts, CallInv, ReceivesInv, StoreInv DEF broadcast_query
  <2>3. CASE SearchEnds(t[1])
    BY <2>3, ThreadFacts, SearchEndsInv
  <2> QED BY <1>2, <2>1, <2>2, <2>3 DEF Run
<1>3. ASSUME NEW t \in Threads, Reset(t) /\ UNCHANGED <<file_set, search, menu>> PROVE IInv'
  BY <1>3, TransferInv
<1>4. ASSUME NEW p \in Peers, Fail(p) PROVE IInv'
  BY <1>4, DieInv DEF Fail, Crash
<1> QED BY <1>1, <1>2, <1>3, <1>4, ReturnInv, search_for_fileInv DEF Next

\* The inductive invariant.
THEOREM Invariance == Spec => []IInv
BY InitInv, NextInv, PTL DEF Spec

\* Every variable keeps its type.
THEOREM TypeCorrect == Spec => []TypeOK
<1>1. IInv => TypeOK
  BY DEF IInv
<1> QED BY <1>1, Invariance, PTL

\* decentralized_peer.cpp:116: whatever the threads of a broadcast store, and in
\* whatever order, they leave one of their answers, and none only if none names a holder.
THEOREM OneAnswer == Spec => []ResponseIsAnswer
<1>1. IInv => ResponseIsAnswer
  <2> SUFFICES ASSUME IInv, Undisturbed, NEW p \in Peers, Searching(p), Joined(p)
               PROVE  \/ /\ query_response[p] = Plain("DUP_REQUEST")
                         /\ \A n \in Peers : answer[p][n].type # "STATUS_OK"
                      \/ \E n \in Peers : answer[p][n].type = "STATUS_OK" /\ query_response[p] = answer[p][n]
    BY DEF ResponseIsAnswer
  <2>1. \A n \in Peers :
          \/ answer[p][n].type = "DUP_REQUEST" /\ stored[p][n] = {}
          \/ answer[p][n].type = "STATUS_OK" /\ stored[p][n] = Fields
    BY DEF IInv, Response, Storing, Joined
  <2>2. Left(p, "buf") /\ Left(p, "type")
    BY DEF IInv, Response, Fields
  <2>3. /\ query_response[p] \in Message
        /\ \A n \in Peers : answer[p][n] \in Message
    BY DEF IInv, TypeOK
  <2>4. CASE \A n \in Peers : answer[p][n].type # "STATUS_OK"
    <3>1. query_response[p].buf = Plain("DUP_REQUEST").buf /\ query_response[p].type = Plain("DUP_REQUEST").type
      BY <2>1, <2>2, <2>4 DEF Left
    <3>2. query_response[p] = Plain("DUP_REQUEST")
      BY <2>3, <3>1, MessageFacts DEF Plain
    <3> QED BY <2>4, <3>2
  <2>5. CASE \E n \in Peers : answer[p][n].type = "STATUS_OK"
    <3>1. PICK m \in Peers : answer[p][m].type = "STATUS_OK" /\ stored[p][m] = Fields
      BY <2>1, <2>5
    <3>2. PICK n \in Peers : "buf" \in stored[p][n] /\ query_response[p].buf = answer[p][n].buf
      BY <2>2, <3>1 DEF Left, Fields
    <3>3. PICK k \in Peers : "type" \in stored[p][k] /\ query_response[p].type = answer[p][k].type
      BY <2>2, <3>1 DEF Left, Fields
    <3>4. answer[p][n].type = "STATUS_OK" /\ query_response[p].type = "STATUS_OK"
      BY <2>1, <3>2, <3>3
    <3>5. query_response[p] = answer[p][n]
      BY <2>3, <3>2, <3>4, MessageFacts
    <3> QED BY <3>4, <3>5
  <2> QED BY <2>4, <2>5
<1> QED BY <1>1, Invariance, PTL

\* Only a failure leaves a file behind that is neither whole nor being received.
THEOREM Midway == Spec => []PartialOnlyMidway
<1>1. IInv => PartialOnlyMidway
  BY DEF IInv
<1> QED BY <1>1, Invariance, PTL

\* decentralized_peer.cpp:155, request_file: the peer a search names has the file, and
\* does not answer STATUS_BAD, through crashes and restarts.
THEOREM NamedServes == Spec => []NamedPeerServes
<1>1. IInv => NamedPeerServes
  BY DEF IInv, Sound, NobodyRefuses, NamedPeerServes
<1> QED BY <1>1, Invariance, PTL

\* A step is a step of a transfer, or leaves every file as it is.
LEMMA StepKinds ==
  ASSUME IInv, [Next]_vars
  PROVE  \/ \E t \in Threads : Download(t) \/ (t[2] # Cli /\ Upload(t)) \/ Reset(t)
         \/ /\ content' = content
            /\ \A t \in Threads : stage[t] = "receiving" => stage'[t] \notin {"menu", "registering"}
<1>1. CASE UNCHANGED vars
  BY <1>1 DEF vars, transfers
<1>2. ASSUME NEW p \in Peers, Die(p)
      PROVE  content' = content /\ \A t \in Threads : stage'[t] \in {"dead", stage[t]}
  BY <1>2 DEF Die
<1>3. ASSUME NEW t \in Threads, stage[t] \in {"menu", "asking", "searching"}, stage' = [stage EXCEPT ![t] = stage'[t]]
      PROVE  \A u \in Threads : stage[u] = "receiving" => stage'[u] \notin {"menu", "registering"}
  BY <1>3 DEF IInv, TypeOK
<1>4. ASSUME NEW t \in Threads, Run(t), ~(Download(t) \/ (t[2] # Cli /\ Upload(t)))
      PROVE  /\ content' = content
             /\ \A u \in Threads : stage[u] = "receiving" => stage'[u] \notin {"menu", "registering"}
  <2>1. t[1] \in Peers /\ <<t[1], Cli>> \in Threads
    BY ThreadFacts, LineFacts
  <2>2. CASE SearchEnds(t[1])
    <3>1. CASE Die(t[1])
      BY <1>2, <2>1, <3>1
    <3>2. CASE ~Die(t[1])
      <4>1. /\ content' = content /\ stage[<<t[1], Cli>>] \in {"menu", "asking", "searching"}
            /\ \E s : stage' = [stage EXCEPT ![<<t[1], Cli>>] = s]
        BY <2>2, <3>2 DEF SearchEnds, Found, Goto, Searching
      <4> QED BY <2>1, <4>1 DEF IInv, TypeOK
    <3> QED BY <3>1, <3>2
  <2>3. CASE broadcast_query(t[1])
    BY <1>2, <2>1, <2>3 DEF broadcast_query, Call, Receives, Store, transfers
  <2> QED BY <1>4, <2>2, <2>3 DEF Run
<1>5. ASSUME NEW p \in Peers, Fail(p)
      PROVE  /\ content' = content
             /\ \A u \in Threads : stage[u] = "receiving" => stage'[u] \notin {"menu", "registering"}
  BY <1>2, <1>5 DEF Fail, Crash
<1>6. ASSUME NEW p \in Peers, Return(p)
      PROVE  /\ content' = content
             /\ \A u \in Threads : stage[u] = "receiving" => stage'[u] \notin {"menu", "registering"}
  BY <1>6, ThreadFacts DEF Return, Restart, IInv, Shape
<1>7. ASSUME NEW p \in Peers, NEW c \in Choices, search_for_file(p, c)
      PROVE  /\ content' = content
             /\ \A u \in Threads : stage[u] = "receiving" => stage'[u] \notin {"menu", "registering"}
  <2>1. /\ content' = content /\ stage[<<p, Cli>>] = "menu"
        /\ \E s : stage' = [stage EXCEPT ![<<p, Cli>>] = s]
    BY <1>7 DEF search_for_file, Choose, Found, Goto
  <2> QED BY <2>1, LineFacts DEF IInv, TypeOK
<1> QED BY <1>1, <1>4, <1>5, <1>6, <1>7 DEF Next

\* comms.c:463-490: no step of any peer takes a block of a file that was whole.
THEOREM WholeKept == Spec => WholeStaysWhole
<1>1. IInv /\ [Next]_vars =>
        [\A p \in Peers, f \in Files : exposed = {} /\ Whole(p, f) => content'[p][f] = Blocks]_transfers
  <2> SUFFICES ASSUME IInv, [Next]_vars, NEW p \in Peers, NEW f \in Files, exposed = {}, Whole(p, f)
               PROVE  content'[p][f] = Blocks
    OBVIOUS
  <2>1. Typed /\ Shape /\ Sound
    BY TypedFacts DEF IInv
  <2> QED BY <2>1, StepKinds, TransferKeepsWhole DEF Whole
<1> QED BY <1>1, Invariance, PTL DEF Spec, WholeStaysWhole

\* peer_cli.cpp:73: a download that succeeds leaves the whole file, as long as nobody
\* has announced a copy before it was whole.
THEOREM DownloadsAreWhole == Spec => DownloadIsWholeUnlessExposed
<1>1. IInv /\ [Next]_vars =>
        [\A t \in Threads : exposed = {} /\ Succeeds(t) => content'[t[1]][file[t]] = Blocks]_transfers
  <2> SUFFICES ASSUME IInv, [Next]_vars, NEW t \in Threads, exposed = {}, Succeeds(t)
               PROVE  content'[t[1]][file[t]] = Blocks
    OBVIOUS
  <2>1. Typed /\ Shape /\ Sound
    BY TypedFacts DEF IInv
  <2>2. stage[t] = "receiving" /\ channel[t] # <<>> /\ stage'[t] \in {"menu", "registering"}
    BY DEF Succeeds
  <2>3. PICK u \in Threads : Download(u) \/ (u[2] # Cli /\ Upload(u)) \/ Reset(u)
    BY <2>2, StepKinds
  <2>4. CASE Die(u[1])
    BY <2>2, <2>4 DEF Die
  <2>5. CASE ~Die(u[1])
    <3>1. u = t
      BY <2>2, <2>3, <2>5, TransferFrame DEF IInv
    <3>2. Receive(t)
      <4>1. ~request_file(t) /\ ~Refused(t) /\ ~Create(t) /\ ~Reset(t)
        BY <2>2 DEF request_file, Refused, Create, Reset
      <4>2. ~Upload(t)
        BY <2>2 DEF Upload, HandleRequest, send_file, SendBlock, SendToNobody
      <4> QED BY <2>3, <3>1, <4>1, <4>2 DEF Download
    <3> QED BY <2>1, <2>2, <3>2, SuccessIsWhole
  <2> QED BY <2>4, <2>5
<1> QED BY <1>1, Invariance, PTL DEF Spec, DownloadIsWholeUnlessExposed
=============================================================================
