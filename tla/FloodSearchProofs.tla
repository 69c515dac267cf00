------------------------- MODULE FloodSearchProofs -------------------------
(***************************************************************************)
(* Theorems about FloodSearch, for every overlay, every placement of the   *)
(* files, every number of handlers and any concurrent searches.            *)
(***************************************************************************)
EXTENDS FloodSearch, SequenceTheorems, TLAPS

Visited(s, n) == phase[s][n] # "none"

\* The requests that wait at a peer.
Pending(n) == {inbox[n][i] : i \in DOMAIN inbox[n]}
EachOnce(n) == \A i, j \in DOMAIN inbox[n] : i # j => inbox[n][i] # inbox[n][j]

-----------------------------------------------------------------------------
(* Invariants that hold whatever crashes.                                  *)

\* Everything a peer does for a search comes after the search was started and
\* its id recorded.
RecordedInv ==
  \A s \in Searches, n \in Peers : Visited(s, n) =>
    /\ status[s] # "new"
    /\ msg_id[s] \in received_queries[n]
    /\ Visited(s, Origin[s])

ThreadInv == \A s \in Searches, n, k \in Peers : thread[s][n][k] # "off" => Visited(s, n)

AskedInv == \A n \in Peers : \A r \in Pending(n) : Visited(r.search, r.from)

OpenInv == \A s \in Searches : status[s] = "open" => phase[s][Origin[s]] = "open"

SeenInv == RecordedInv /\ ThreadInv /\ AskedInv /\ OpenInv

\* A query is taken up on behalf of a peer that has taken it up.
ClientInv ==
  \A s \in Searches, n \in Peers : Visited(s, n) =>
    /\ client[s][n] \in Peers
    /\ Visited(s, client[s][n])
    /\ n = Origin[s] => client[s][n] = n

\* An id a peer has seen is the id of a search the peer has taken up.
IdsInv ==
  \A n \in Peers : \A x \in received_queries[n] :
    \E t \in Searches : Visited(t, n) /\ msg_id[t] = x

\* The addresses that travel are those of holders.
SoundInv ==
  /\ \A s \in Searches, n \in Peers :
       response[s][n] \in Peers => Wanted[s] \in file_set[response[s][n]]
  /\ \A s \in Searches, n, k \in Peers :
       answer[s][n][k] \in Peers => Wanted[s] \in file_set[answer[s][n][k]]
  /\ SoundResult

-----------------------------------------------------------------------------
(* Invariants of a run without a crash.                                    *)

\* A request in an inbox has a thread that waits for it ...
WaitInv == \A n \in Peers : \A r \in Pending(n) : thread[r.search][r.from][n] = "calling"

\* ... is there once ...
OnceInv == \A n \in Peers : EachOnce(n)

\* ... and is no longer there when a worker is at it.
TakenInv ==
  \A s \in Searches, n \in Peers : phase[s][n] = "open" /\ n # Origin[s] =>
    [search |-> s, from |-> client[s][n]] \notin Pending(n)

\* What a peer has asked, and what the threads brought back.
Asked(s, n) ==
  /\ phase[s][n] = "closed" => Joined(s, n)
  /\ Wanted[s] \in file_set[n] => phase[s][n] = "closed" /\ response[s][n] \in Peers
  /\ Wanted[s] \notin file_set[n] =>
       \A k \in Neighbors[n] : k = client[s][n] \/ thread[s][n][k] # "off"
  /\ \A k \in Peers : thread[s][n][k] = "joined" /\ answer[s][n][k] \in Peers
                        => response[s][n] \in Peers

BroadcastInv == \A s \in Searches, n \in Peers : Visited(s, n) => Asked(s, n)

\* The thread that asked a peer: waiting while the peer works, and then in
\* possession of its response.
CallInv ==
  \A s \in Searches, n \in Peers : Visited(s, n) /\ n # Origin[s] =>
    /\ phase[s][n] = "open" => thread[s][client[s][n]][n] = "calling"
    /\ phase[s][n] = "closed" => /\ thread[s][client[s][n]][n] \in {"answered", "joined"}
                                 /\ answer[s][client[s][n]][n] = response[s][n]

\* An answer that names a holder comes from a peer that took the query up.
AnswerInv ==
  \A s \in Searches, n, k \in Peers :
    thread[s][n][k] \in {"answered", "joined"} /\ answer[s][n][k] \in Peers => Visited(s, k)

NoNull ==
  /\ \A s \in Searches, n \in Peers : response[s][n] # Null
  /\ \A s \in Searches, n, k \in Peers : answer[s][n][k] # Null

\* A peer still at work, or one that answers with a holder: whoever is on the
\* way from the origin to it is one too.
Promising(s, n) == Visited(s, n) /\ (phase[s][n] = "closed" => response[s][n] \in Peers)

PathInv ==
  \A s \in Searches, n \in Peers : Promising(s, n) => Promising(s, client[s][n])

\* Following the clients leads to the origin: a set of visited peers that
\* contains the client of each of its members contains the origin.
RootInv ==
  \A s \in Searches : \A S \in SUBSET Peers :
    (\E n \in S : Visited(s, n)) /\ (\A n \in S : Visited(s, n) /\ client[s][n] \in S)
      => Origin[s] \in S

ResultInv ==
  \A s \in Searches :
    status[s] = "done" /\ result[s] = NoPeer =>
      phase[s][Origin[s]] = "closed" /\ response[s][Origin[s]] \notin Peers

FaultFree ==
  /\ WaitInv /\ OnceInv /\ TakenInv /\ BroadcastInv /\ CallInv /\ AnswerInv /\ NoNull
  /\ PathInv /\ RootInv /\ ResultInv

CrashFreeInv == up = Peers => FaultFree

IInv == TypeOK /\ SeenInv /\ ClientInv /\ IdsInv /\ SoundInv /\ CrashFreeInv /\ DupMeansSeenIfUnique

-----------------------------------------------------------------------------
(* Updates: what each kind of step does, cell by cell.                      *)

\* One cell of a table by search and peer.
LEMMA Cell2 ==
  ASSUME NEW V, NEW F \in [Searches -> [Peers -> V]], NEW s \in Searches, NEW n \in Peers, NEW v
  PROVE  \A t \in Searches, m \in Peers :
           [F EXCEPT ![s][n] = v][t][m] = IF t = s /\ m = n THEN v ELSE F[t][m]
OBVIOUS

\* One cell of a table by search, peer and neighbor.
LEMMA Cell3 ==
  ASSUME NEW V, NEW F \in [Searches -> [Peers -> [Peers -> V]]],
         NEW s \in Searches, NEW n \in Peers, NEW k \in Peers, NEW v
  PROVE  \A t \in Searches, m, l \in Peers :
           [F EXCEPT ![s][n][k] = v][t][m][l] = IF t = s /\ m = n /\ l = k THEN v ELSE F[t][m][l]
OBVIOUS

ReplyCells(s, c, n, x) ==
  /\ \A t \in Searches, m, k \in Peers : (t # s \/ m # c \/ k # n) =>
       thread'[t][m][k] = thread[t][m][k] /\ answer'[t][m][k] = answer[t][m][k]
  /\ \/ c \in up /\ thread'[s][c][n] = "answered" /\ answer'[s][c][n] = x
     \/ c \notin up /\ thread' = thread /\ answer' = answer

\* An answer sets at most one cell, and sets it if the peer that asked runs.
LEMMA ReplyEffect ==
  ASSUME TypeOK, NEW s \in Searches, NEW c \in Peers, NEW n \in Peers, NEW x, reply(s, c, n, x)
  PROVE  ReplyCells(s, c, n, x)
<1>1. CASE c \notin up
  BY <1>1 DEF reply, ReplyCells
<1>2. CASE c \in up
  <2>1. thread' = [thread EXCEPT ![s][c][n] = "answered"] /\ answer' = [answer EXCEPT ![s][c][n] = x]
    BY <1>2 DEF reply
  <2>2. \A t \in Searches, m, k \in Peers :
          thread'[t][m][k] = IF t = s /\ m = c /\ k = n THEN "answered" ELSE thread[t][m][k]
    <3> DEFINE T == {"off", "spawned", "calling", "answered", "joined"}
    <3>1. thread \in [Searches -> [Peers -> [Peers -> T]]]
      BY DEF TypeOK
    <3> HIDE DEF T
    <3> QED BY <2>1, <3>1, Cell3
  <2>3. \A t \in Searches, m, k \in Peers :
          answer'[t][m][k] = IF t = s /\ m = c /\ k = n THEN x ELSE answer[t][m][k]
    <3>1. answer \in [Searches -> [Peers -> [Peers -> Answers]]]
      BY DEF TypeOK
    <3> QED BY <2>1, <3>1, Cell3
  <2> QED BY <1>2, <2>2, <2>3 DEF ReplyCells
<1> QED BY <1>1, <1>2

BroadcastCells(s, n, c) ==
  \A t \in Searches, m \in Peers :
    /\ phase'[t][m] = IF t = s /\ m = n THEN "open" ELSE phase[t][m]
    /\ client'[t][m] = IF t = s /\ m = n THEN c ELSE client[t][m]
    /\ response'[t][m] = IF t = s /\ m = n THEN Dup ELSE response[t][m]
    /\ \A k \in Peers :
         thread'[t][m][k] = IF t = s /\ m = n
                            THEN IF k \in Neighbors[n] \ {c} THEN "spawned" ELSE "off"
                            ELSE thread[t][m][k]

LEMMA BroadcastEffect ==
  ASSUME TypeOK, NEW s \in Searches, NEW n \in Peers, NEW c \in Peers, broadcast_query(s, n, c)
  PROVE  BroadcastCells(s, n, c)
BY DEF TypeOK, broadcast_query, BroadcastCells

\* What is left when the head of a sequence is taken away.
LEMMA TailFacts ==
  ASSUME NEW S, NEW q \in Seq(S), q # <<>>
  PROVE  /\ Tail(q) \in Seq(S) /\ Head(q) = q[1] /\ Head(q) \in S
         /\ 1 \in DOMAIN q
         /\ \A i \in DOMAIN Tail(q) : i + 1 \in DOMAIN q /\ i + 1 # 1 /\ Tail(q)[i] = q[i + 1]
         /\ \A i, j \in DOMAIN Tail(q) : i # j => i + 1 # j + 1
<1>1. Len(q) \in Nat /\ Len(q) # 0
  BY EmptySeq, LenProperties
<1>2. DOMAIN q = 1..Len(q)
  BY LenProperties
<1>3. Tail(q) \in Seq(S) /\ Len(Tail(q)) = Len(q) - 1
  BY HeadTailProperties
<1>4. DOMAIN Tail(q) = 1..Len(Tail(q))
  BY <1>3, LenProperties
<1>5. \A i \in 1..Len(Tail(q)) : Tail(q)[i] = q[i + 1]
  BY <1>3, HeadTailProperties
<1>6. Head(q) = q[1] /\ Head(q) \in S
  BY HeadTailProperties
<1> QED BY <1>1, <1>2, <1>3, <1>4, <1>5, <1>6

DequeueCells(n, r, s, c) ==
  /\ n \in up
  /\ r = [search |-> s, from |-> c]
  /\ r \in Pending(n)
  /\ \A m \in Peers : inbox'[m] \in Seq(Requests)
  /\ \A m \in Peers : \A x \in Pending(m)' : x \in Pending(m)
  /\ \A m \in Peers : EachOnce(m) => EachOnce(m)'
  /\ EachOnce(n) => r \notin Pending(n)'

\* The oldest request leaves the inbox.
LEMMA DequeueEffect ==
  ASSUME TypeOK, NEW n \in Peers, NEW r \in Requests, Dequeue(n, r)
  PROVE  r.search \in Searches /\ r.from \in Peers /\ DequeueCells(n, r, r.search, r.from)
<1> DEFINE q == inbox[n]
<1>1. q \in Seq(Requests) /\ q # <<>> /\ r = Head(q) /\ n \in up
  BY DEF TypeOK, Dequeue
<1>2. inbox'[n] = Tail(q) /\ \A m \in Peers \ {n} : inbox'[m] = inbox[m]
  BY DEF TypeOK, Dequeue
<1> HIDE DEF q
<1>3. r.search \in Searches /\ r.from \in Peers /\ r = [search |-> r.search, from |-> r.from]
  BY DEF Requests
<1>4. /\ Tail(q) \in Seq(Requests) /\ r = q[1] /\ 1 \in DOMAIN q
      /\ \A i \in DOMAIN Tail(q) : i + 1 \in DOMAIN q /\ i + 1 # 1 /\ Tail(q)[i] = q[i + 1]
      /\ \A i, j \in DOMAIN Tail(q) : i # j => i + 1 # j + 1
  BY <1>1, TailFacts
<1>5. Pending(n) = {q[i] : i \in DOMAIN q}
  BY DEF Pending, q
<1>6. Pending(n)' = {Tail(q)[i] : i \in DOMAIN Tail(q)}
  BY <1>2 DEF Pending
<1>7. \A m \in Peers \ {n} : Pending(m)' = Pending(m) /\ (EachOnce(m) => EachOnce(m)')
  BY <1>2 DEF Pending, EachOnce
<1>8. r \in Pending(n) /\ \A x \in Pending(n)' : x \in Pending(n)
  BY <1>4, <1>5, <1>6
<1>9. \A m \in Peers : inbox'[m] \in Seq(Requests)
  BY <1>2, <1>4 DEF TypeOK
<1>10. ASSUME EachOnce(n)
       PROVE  EachOnce(n)' /\ r \notin Pending(n)'
  <2>1. \A i, j \in DOMAIN q : i # j => q[i] # q[j]
    BY <1>10 DEF EachOnce, q
  <2>2. \A i, j \in DOMAIN Tail(q) : i # j => Tail(q)[i] # Tail(q)[j]
    BY <2>1, <1>4
  <2>3. \A i \in DOMAIN Tail(q) : Tail(q)[i] # r
    BY <2>1, <1>4
  <2> QED BY <2>2, <2>3, <1>2, <1>6 DEF EachOnce
<1> QED BY <1>1, <1>3, <1>7, <1>8, <1>9, <1>10 DEF DequeueCells

CallCells(s, n, k) ==
  LET r == [search |-> s, from |-> n] IN
  /\ r \in Requests
  /\ \A m \in Peers : inbox'[m] \in Seq(Requests)
  /\ \A m \in Peers : \A x \in Pending(m)' : x \in Pending(m) \/ (m = k /\ x = r)
  /\ \A m \in Peers \ {k} : inbox'[m] = inbox[m]
  /\ EachOnce(k) /\ r \notin Pending(k) => EachOnce(k)'
  /\ \A t \in Searches, m, l \in Peers :
       thread'[t][m][l] = IF t = s /\ m = n /\ l = k THEN "calling" ELSE thread[t][m][l]

\* A request joins the others.
LEMMA CallEffect ==
  ASSUME TypeOK, NEW s \in Searches, NEW n \in Peers, NEW k \in Peers, Call(s, n, k)
  PROVE  CallCells(s, n, k)
<1> DEFINE r == [search |-> s, from |-> n]
           q == inbox[k]
<1>1. r \in Requests /\ q \in Seq(Requests)
  BY DEF Requests, TypeOK
<1>2. inbox'[k] = Append(q, r) /\ \A m \in Peers \ {k} : inbox'[m] = inbox[m]
  BY DEF TypeOK, Call
<1>3. \A t \in Searches, m, l \in Peers :
        thread'[t][m][l] = IF t = s /\ m = n /\ l = k THEN "calling" ELSE thread[t][m][l]
  <2> DEFINE T == {"off", "spawned", "calling", "answered", "joined"}
  <2>1. thread \in [Searches -> [Peers -> [Peers -> T]]]
    BY DEF TypeOK
  <2>2. thread' = [thread EXCEPT ![s][n][k] = "calling"]
    BY DEF Call
  <2> HIDE DEF T
  <2> QED BY <2>1, <2>2, Cell3
<1>4. Pending(k) = {q[i] : i \in DOMAIN q}
  BY DEF Pending
<1>5. Pending(k)' = {Append(q, r)[i] : i \in DOMAIN Append(q, r)}
  BY <1>2 DEF Pending
<1> HIDE DEF r, q
<1>6. /\ Append(q, r) \in Seq(Requests)
      /\ \A i \in DOMAIN Append(q, r) :
           \/ i \in DOMAIN q /\ Append(q, r)[i] = q[i]
           \/ i = Len(q) + 1 /\ Append(q, r)[i] = r
  <2>1. DOMAIN q = 1..Len(q) /\ Len(q) \in Nat
    BY <1>1, LenProperties
  <2>2. /\ Append(q, r) \in Seq(Requests)
        /\ Len(Append(q, r)) = Len(q) + 1
        /\ \A i \in 1..Len(q) : Append(q, r)[i] = q[i]
        /\ Append(q, r)[Len(q) + 1] = r
    BY <1>1, AppendProperties
  <2>3. DOMAIN Append(q, r) = 1..(Len(q) + 1)
    BY <2>2, LenProperties
  <2> QED BY <2>1, <2>2, <2>3
<1>7. \A x \in Pending(k)' : x \in Pending(k) \/ x = r
  BY <1>4, <1>5, <1>6
<1>8. \A m \in Peers \ {k} : Pending(m)' = Pending(m)
  BY <1>2 DEF Pending
<1>9. ASSUME EachOnce(k), r \notin Pending(k)
      PROVE  EachOnce(k)'
  <2>1. \A i, j \in DOMAIN q : i # j => q[i] # q[j]
    BY <1>9 DEF EachOnce, q
  <2>2. \A i \in DOMAIN q : q[i] # r
    BY <1>9, <1>4
  <2>3. \A i, j \in DOMAIN Append(q, r) : i # j => Append(q, r)[i] # Append(q, r)[j]
    BY <2>1, <2>2, <1>6
  <2> QED BY <2>3, <1>2 DEF EachOnce
<1>10. \A m \in Peers : inbox'[m] \in Seq(Requests)
  BY <1>2, <1>6 DEF TypeOK
<1> QED BY <1>1, <1>2, <1>3, <1>7, <1>8, <1>9, <1>10 DEF r, CallCells

StopCells(n) ==
  \A t \in Searches, m, k \in Peers :
    \/ thread'[t][m][k] = thread[t][m][k] /\ answer'[t][m][k] = answer[t][m][k]
    \/ /\ thread[t][m][k] = "calling" /\ k = n
       /\ thread'[t][m][k] = "answered" /\ answer'[t][m][k] = Null

\* The callers of a peer that stops read a NULL_MSG.
LEMMA StopEffect ==
  ASSUME NEW n \in Peers, Stop(n)
  PROVE  StopCells(n)
BY DEF Stop, StopCells

LEMMA ReplyType ==
  ASSUME TypeOK, NEW s \in Searches, NEW c \in Peers, NEW n \in Peers, NEW x \in Answers,
         reply(s, c, n, x)
  PROVE  /\ thread' \in [Searches -> [Peers -> [Peers ->
              {"off", "spawned", "calling", "answered", "joined"}]]]
         /\ answer' \in [Searches -> [Peers -> [Peers -> Answers]]]
<1>1. CASE c \notin up
  BY <1>1 DEF TypeOK, reply
<1>2. CASE c \in up
  <2>1. thread' = [thread EXCEPT ![s][c][n] = "answered"] /\ answer' = [answer EXCEPT ![s][c][n] = x]
    BY <1>2 DEF reply
  <2>2. thread' \in [Searches -> [Peers -> [Peers ->
          {"off", "spawned", "calling", "answered", "joined"}]]]
    BY <2>1 DEF TypeOK
  <2>3. answer' \in [Searches -> [Peers -> [Peers -> Answers]]]
    BY <2>1 DEF TypeOK
  <2> QED BY <2>2, <2>3
<1> QED BY <1>1, <1>2

LEMMA BroadcastType ==
  ASSUME TypeOK, NEW s \in Searches, NEW n \in Peers, NEW c \in Peers, broadcast_query(s, n, c)
  PROVE  /\ phase' \in [Searches -> [Peers -> {"none", "open", "closed"}]]
         /\ client' \in [Searches -> [Peers -> Peers \cup {NoPeer}]]
         /\ thread' \in [Searches -> [Peers -> [Peers ->
              {"off", "spawned", "calling", "answered", "joined"}]]]
         /\ response' \in [Searches -> [Peers -> Answers]]
BY DEF TypeOK, broadcast_query, Answers

LEMMA StopType ==
  ASSUME TypeOK, NEW n \in Peers, Stop(n)
  PROVE  TypeOK'
BY DEF TypeOK, Stop, Answers

-----------------------------------------------------------------------------
(* Type correctness.                                                       *)

LEMMA InboxType ==
  ASSUME TypeOK, \A m \in Peers : inbox'[m] \in Seq(Requests),
         NEW n \in Peers, NEW x, inbox' = [inbox EXCEPT ![n] = x]
  PROVE  inbox' \in [Peers -> Seq(Requests)]
BY DEF TypeOK

LEMMA ReplyKeepsType ==
  ASSUME TypeOK, inbox' \in [Peers -> Seq(Requests)],
         thread' \in [Searches -> [Peers -> [Peers ->
           {"off", "spawned", "calling", "answered", "joined"}]]],
         answer' \in [Searches -> [Peers -> [Peers -> Answers]]],
         UNCHANGED <<up, file_set, message_count, msg_id, received_queries, status, result,
                     phase, client, response>>
  PROVE  TypeOK'
<1>1. /\ up' \subseteq Peers
      /\ file_set' \in [Peers -> SUBSET Files]
      /\ message_count' \in [Peers -> 0..(IdSpan - 1)]
      /\ msg_id' \in [Searches -> 0..(IdSpan - 1)]
      /\ received_queries' \in [Peers -> SUBSET (0..(IdSpan - 1))]
  BY Zenon DEF TypeOK
<1>2. /\ status' \in [Searches -> {"new", "open", "done"}]
      /\ result' \in [Searches -> Peers \cup {NoPeer}]
      /\ phase' \in [Searches -> [Peers -> {"none", "open", "closed"}]]
      /\ client' \in [Searches -> [Peers -> Peers \cup {NoPeer}]]
      /\ response' \in [Searches -> [Peers -> Answers]]
  BY Zenon DEF TypeOK
<1> QED BY <1>1, <1>2, Zenon DEF TypeOK

LEMMA TypeInit == Init => TypeOK
BY SearchAssumption DEF Init, TypeOK, Answers

LEMMA TypeStep == TypeOK /\ [Next]_vars => TypeOK'
<1> SUFFICES ASSUME TypeOK, [Next]_vars
             PROVE  TypeOK'
  OBVIOUS
<1> USE SearchAssumption
<1>1. ASSUME NEW n \in Peers, Crash(n) PROVE TypeOK'
  BY <1>1, StopType DEF Crash
<1>2. ASSUME NEW s \in Searches, NEW n \in Peers, NEW k \in Peers, Call(s, n, k) PROVE TypeOK'
  <2>1. \A m \in Peers : inbox'[m] \in Seq(Requests)
    BY <1>2, CallEffect DEF CallCells
  <2>2. inbox' \in [Peers -> Seq(Requests)]
    BY <2>1, <1>2, InboxType DEF Call
  <2>3. thread' \in [Searches -> [Peers -> [Peers ->
          {"off", "spawned", "calling", "answered", "joined"}]]]
    BY SMTT(30), <1>2 DEF Call, TypeOK
  <2> QED BY <2>2, <2>3, <1>2 DEF Call, TypeOK
<1>3. ASSUME NEW s \in Searches, NEW n \in Peers, NEW k \in Peers, CallDead(s, n, k) PROVE TypeOK'
  BY <1>3, StopType DEF CallDead
<1>4. ASSUME NEW s \in Searches, NEW n \in Peers, NEW k \in Peers, Receive(s, n, k) PROVE TypeOK'
  <2>1. thread' \in [Searches -> [Peers -> [Peers ->
          {"off", "spawned", "calling", "answered", "joined"}]]]
    BY SMTT(30), <1>4 DEF Receive, TypeOK
  <2>2. answer[s][n][k] \in Answers
    BY DEF TypeOK
  <2>3. response' \in [Searches -> [Peers -> Answers]]
    BY <2>2, <1>4 DEF Receive, TypeOK
  <2> QED BY <2>1, <2>3, <1>4 DEF Receive, TypeOK
<1>5. ASSUME NEW n \in Peers, NEW r \in Requests, Duplicate(n, r) PROVE TypeOK'
  <2>1. Dequeue(n, r) /\ reply(r.search, r.from, n, Dup)
    BY <1>5 DEF Duplicate
  <2>2. inbox' \in [Peers -> Seq(Requests)] /\ r.search \in Searches /\ r.from \in Peers
    BY <2>1, DequeueEffect, InboxType DEF Dequeue, DequeueCells
  <2>3. /\ thread' \in [Searches -> [Peers -> [Peers ->
             {"off", "spawned", "calling", "answered", "joined"}]]]
        /\ answer' \in [Searches -> [Peers -> [Peers -> Answers]]]
    BY <2>1, <2>2, ReplyType DEF Answers
  <2>4. UNCHANGED <<up, file_set, message_count, msg_id, received_queries, status, result,
                    phase, client, response>>
    BY <1>5 DEF Duplicate
  <2> QED BY <2>2, <2>3, <2>4, ReplyKeepsType
<1>6. ASSUME NEW n \in Peers, NEW r \in Requests, Fresh(n, r)
      PROVE  /\ inbox' \in [Peers -> Seq(Requests)] /\ r.search \in Searches /\ r.from \in Peers
             /\ received_queries' \in [Peers -> SUBSET (0..(IdSpan - 1))]
             /\ Dequeue(n, r)
  <2>1. inbox' \in [Peers -> Seq(Requests)] /\ r.search \in Searches /\ r.from \in Peers
    BY <1>6, DequeueEffect, InboxType DEF Dequeue, Fresh, DequeueCells
  <2>2. Dequeue(n, r) /\ received_queries' = [received_queries EXCEPT ![n] = @ \cup {msg_id[r.search]}]
    BY <1>6 DEF Fresh
  <2>3. received_queries[n] \subseteq 0..(IdSpan - 1) /\ msg_id[r.search] \in 0..(IdSpan - 1)
    BY <2>1 DEF TypeOK
  <2>4. received_queries \in [Peers -> SUBSET (0..(IdSpan - 1))]
    BY DEF TypeOK
  <2>5. received_queries' \in [Peers -> SUBSET (0..(IdSpan - 1))]
    BY <2>2, <2>3, <2>4
  <2> QED BY <2>1, <2>2, <2>5
<1>7. ASSUME NEW n \in Peers, NEW r \in Requests, Hit(n, r) PROVE TypeOK'
  <2>1. Fresh(n, r) /\ reply(r.search, r.from, n, n)
    BY <1>7 DEF Hit
  <2>2. /\ thread' \in [Searches -> [Peers -> [Peers ->
             {"off", "spawned", "calling", "answered", "joined"}]]]
        /\ answer' \in [Searches -> [Peers -> [Peers -> Answers]]]
    BY <2>1, <1>6, ReplyType DEF Answers
  <2> QED BY <2>1, <2>2, <1>6, <1>7 DEF Hit, Fresh, TypeOK, Answers
<1>8. ASSUME NEW n \in Peers, NEW r \in Requests, Forward(n, r) PROVE TypeOK'
  <2>1. Fresh(n, r) /\ broadcast_query(r.search, n, r.from)
    BY <1>8 DEF Forward
  <2>2. r.search \in Searches /\ r.from \in Peers
    BY <2>1, <1>6
  <2> QED BY <2>1, <2>2, <1>6, <1>8, BroadcastType DEF Forward, Fresh, TypeOK
<1>9. ASSUME NEW s \in Searches, NEW n \in Peers, ForwardResponse(s, n) PROVE TypeOK'
  <2>1. CASE client[s][n] \in Peers
    <3>1. response[s][n] \in Answers
      BY DEF TypeOK
    <3>2. /\ thread' \in [Searches -> [Peers -> [Peers ->
               {"off", "spawned", "calling", "answered", "joined"}]]]
          /\ answer' \in [Searches -> [Peers -> [Peers -> Answers]]]
      BY <2>1, <3>1, <1>9, ReplyType DEF ForwardResponse
    <3> QED BY <3>2, <1>9 DEF ForwardResponse, TypeOK
  <2>2. CASE client[s][n] \notin Peers
    BY <2>2, <1>9 DEF ForwardResponse, TypeOK, reply
  <2> QED BY <2>1, <2>2
<1>10. ASSUME NEW s \in Searches, FoundLocally(s) PROVE TypeOK'
  BY <1>10 DEF FoundLocally, TypeOK
<1>11. ASSUME NEW s \in Searches, StartSearch(s) PROVE TypeOK'
  <2> DEFINE n == Origin[s]
  <2>1. n \in Peers
    OBVIOUS
  <2>2. next_count(n) \in 0..(IdSpan - 1) /\ get_message_id(n) \in 0..(IdSpan - 1)
    BY <2>1 DEF TypeOK, next_count, get_message_id
  <2>3. /\ message_count' \in [Peers -> 0..(IdSpan - 1)]
        /\ msg_id' \in [Searches -> 0..(IdSpan - 1)]
        /\ received_queries' \in [Peers -> SUBSET (0..(IdSpan - 1))]
        /\ status' \in [Searches -> {"new", "open", "done"}]
    BY <2>1, <2>2, <1>11 DEF TypeOK, StartSearch
  <2>4. broadcast_query(s, n, n)
    BY <1>11 DEF StartSearch
  <2>5. /\ phase' \in [Searches -> [Peers -> {"none", "open", "closed"}]]
        /\ client' \in [Searches -> [Peers -> Peers \cup {NoPeer}]]
        /\ thread' \in [Searches -> [Peers -> [Peers ->
             {"off", "spawned", "calling", "answered", "joined"}]]]
        /\ response' \in [Searches -> [Peers -> Answers]]
    BY <2>1, <2>4, BroadcastType
  <2> QED BY <2>3, <2>5, <1>11 DEF StartSearch, TypeOK
<1>12. ASSUME NEW s \in Searches, FinishSearch(s) PROVE TypeOK'
  BY <1>12 DEF FinishSearch, TypeOK
<1>13. CASE UNCHANGED vars
  BY <1>13 DEF vars, TypeOK
<1> QED BY <1>1, <1>2, <1>3, <1>4, <1>5, <1>7, <1>8, <1>9, <1>10, <1>11, <1>12, <1>13
        DEF Next, search_index, send_and_recv

-----------------------------------------------------------------------------
(* The actions, cell by cell.                                              *)

LEMMA RecordEffect ==
  ASSUME TypeOK, NEW n \in Peers, NEW x,
         received_queries' = [received_queries EXCEPT ![n] = @ \cup {x}]
  PROVE  \A m \in Peers : received_queries'[m] =
           IF m = n THEN received_queries[m] \cup {x} ELSE received_queries[m]
BY DEF TypeOK

DuplicateCells(n, r, s, c) ==
  /\ DequeueCells(n, r, s, c) /\ ReplyCells(s, c, n, Dup)
  /\ msg_id[s] \in received_queries[n]
  /\ UNCHANGED <<up, file_set, msg_id, received_queries, status, result, phase, client, response>>

LEMMA DuplicateEffect ==
  ASSUME TypeOK, NEW n \in Peers, NEW r \in Requests, Duplicate(n, r)
  PROVE  \E s \in Searches, c \in Peers : DuplicateCells(n, r, s, c)
<1>1. Dequeue(n, r) /\ reply(r.search, r.from, n, Dup)
  BY DEF Duplicate
<1>2. r.search \in Searches /\ r.from \in Peers /\ DequeueCells(n, r, r.search, r.from)
  BY <1>1, DequeueEffect
<1>3. ReplyCells(r.search, r.from, n, Dup)
  BY <1>1, <1>2, ReplyEffect
<1> QED BY <1>2, <1>3 DEF Duplicate, DuplicateCells

FreshCells(n, r, s, c) ==
  /\ DequeueCells(n, r, s, c)
  /\ UNCHANGED <<up, file_set, msg_id, status, result>>
  /\ msg_id[s] \notin received_queries[n]
  /\ \A m \in Peers : received_queries'[m] =
       IF m = n THEN received_queries[m] \cup {msg_id[s]} ELSE received_queries[m]

LEMMA FreshEffect ==
  ASSUME TypeOK, NEW n \in Peers, NEW r \in Requests, Fresh(n, r)
  PROVE  r.search \in Searches /\ r.from \in Peers /\ FreshCells(n, r, r.search, r.from)
<1>1. r.search \in Searches /\ r.from \in Peers /\ DequeueCells(n, r, r.search, r.from)
  BY DequeueEffect DEF Fresh
<1>2. \A m \in Peers : received_queries'[m] =
        IF m = n THEN received_queries[m] \cup {msg_id[r.search]} ELSE received_queries[m]
  BY RecordEffect DEF Fresh
<1> QED BY <1>1, <1>2 DEF Fresh, FreshCells

HitCells(n, r, s, c) ==
  /\ FreshCells(n, r, s, c) /\ ReplyCells(s, c, n, n)
  /\ Wanted[s] \in file_set[n]
  /\ \A t \in Searches, m \in Peers :
       /\ phase'[t][m] = IF t = s /\ m = n THEN "closed" ELSE phase[t][m]
       /\ client'[t][m] = IF t = s /\ m = n THEN c ELSE client[t][m]
       /\ response'[t][m] = IF t = s /\ m = n THEN n ELSE response[t][m]

LEMMA HitEffect ==
  ASSUME TypeOK, NEW n \in Peers, NEW r \in Requests, Hit(n, r)
  PROVE  \E s \in Searches, c \in Peers : HitCells(n, r, s, c)
<1> DEFINE s == r.search
           c == r.from
<1>1. s \in Searches /\ c \in Peers /\ FreshCells(n, r, s, c)
  BY FreshEffect DEF Hit
<1>2. ReplyCells(s, c, n, n)
  BY <1>1, ReplyEffect DEF Hit
<1>3. /\ phase' = [phase EXCEPT ![s][n] = "closed"]
      /\ client' = [client EXCEPT ![s][n] = c]
      /\ response' = [response EXCEPT ![s][n] = n]
      /\ Wanted[s] \in file_set[n]
  BY DEF Hit
<1>4. /\ phase \in [Searches -> [Peers -> {"none", "open", "closed"}]]
      /\ client \in [Searches -> [Peers -> Peers \cup {NoPeer}]]
      /\ response \in [Searches -> [Peers -> Answers]]
  BY DEF TypeOK
<1> HIDE DEF s, c
<1>5. \A t \in Searches, m \in Peers :
        phase'[t][m] = IF t = s /\ m = n THEN "closed" ELSE phase[t][m]
  BY <1>1, <1>3, <1>4
<1>6. \A t \in Searches, m \in Peers :
        client'[t][m] = IF t = s /\ m = n THEN c ELSE client[t][m]
  BY <1>1, <1>3, <1>4
<1>7. \A t \in Searches, m \in Peers :
        response'[t][m] = IF t = s /\ m = n THEN n ELSE response[t][m]
  BY <1>1, <1>3, <1>4
<1> QED BY <1>1, <1>2, <1>3, <1>5, <1>6, <1>7 DEF HitCells

ForwardCells(n, r, s, c) ==
  /\ FreshCells(n, r, s, c) /\ BroadcastCells(s, n, c)
  /\ Wanted[s] \notin file_set[n]
  /\ answer' = answer

LEMMA ForwardEffect ==
  ASSUME TypeOK, NEW n \in Peers, NEW r \in Requests, Forward(n, r)
  PROVE  \E s \in Searches, c \in Peers : ForwardCells(n, r, s, c)
<1>1. r.search \in Searches /\ r.from \in Peers /\ FreshCells(n, r, r.search, r.from)
  BY FreshEffect DEF Forward
<1>2. BroadcastCells(r.search, n, r.from)
  BY <1>1, BroadcastEffect DEF Forward
<1> QED BY <1>1, <1>2 DEF Forward, ForwardCells

StartCells(s, n) ==
  /\ n \in Peers /\ n \in up /\ status[s] = "new" /\ Wanted[s] \notin file_set[n]
  /\ up' = up /\ file_set' = file_set /\ inbox' = inbox
  /\ result' = result /\ answer' = answer
  /\ \A t \in Searches : status'[t] = IF t = s THEN "open" ELSE status[t]
  /\ \A t \in Searches : t # s => msg_id'[t] = msg_id[t]
  /\ \A m \in Peers : received_queries'[m] =
       IF m = n THEN received_queries[m] \cup {msg_id'[s]} ELSE received_queries[m]
  /\ BroadcastCells(s, n, n)

LEMMA StartEffect ==
  ASSUME TypeOK, NEW s \in Searches, StartSearch(s), NEW n, n = Origin[s]
  PROVE  StartCells(s, n)
<1>1. n \in Peers
  BY SearchAssumption
<1>2. msg_id'[s] = get_message_id(n)
  BY <1>1 DEF StartSearch, TypeOK
<1>3. received_queries' = [received_queries EXCEPT ![n] = @ \cup {msg_id'[s]}]
  BY <1>2 DEF StartSearch
<1>4. \A m \in Peers : received_queries'[m] =
              IF m = n THEN received_queries[m] \cup {msg_id'[s]} ELSE received_queries[m]
  BY <1>1, <1>3, RecordEffect
<1>5. /\ \A t \in Searches : status'[t] = IF t = s THEN "open" ELSE status[t]
      /\ \A t \in Searches : t # s => msg_id'[t] = msg_id[t]
  BY DEF StartSearch, TypeOK
<1>6. BroadcastCells(s, n, n)
  BY <1>1, BroadcastEffect DEF StartSearch
<1> QED BY <1>1, <1>4, <1>5, <1>6 DEF StartSearch, CanStart, StartCells

ReceiveCells(s, n, k) ==
  /\ up' = up /\ file_set' = file_set /\ msg_id' = msg_id /\ inbox' = inbox
  /\ received_queries' = received_queries
  /\ status' = status /\ result' = result /\ answer' = answer
  /\ phase' = phase /\ client' = client
  /\ thread[s][n][k] = "answered"
  /\ \A t \in Searches, m, l \in Peers : thread'[t][m][l] =
       IF t = s /\ m = n /\ l = k THEN "joined" ELSE thread[t][m][l]
  /\ \A t \in Searches, m \in Peers : response'[t][m] =
       IF t = s /\ m = n /\ answer[s][n][k] # Dup THEN answer[s][n][k] ELSE response[t][m]

LEMMA ReceiveEffect ==
  ASSUME TypeOK, NEW s \in Searches, NEW n \in Peers, NEW k \in Peers, Receive(s, n, k)
  PROVE  ReceiveCells(s, n, k)
<1>1. \A t \in Searches, m, l \in Peers : thread'[t][m][l] =
        IF t = s /\ m = n /\ l = k THEN "joined" ELSE thread[t][m][l]
  <2> DEFINE T == {"off", "spawned", "calling", "answered", "joined"}
  <2>1. thread \in [Searches -> [Peers -> [Peers -> T]]]
    BY DEF TypeOK
  <2>2. thread' = [thread EXCEPT ![s][n][k] = "joined"]
    BY DEF Receive
  <2> HIDE DEF T
  <2> QED BY <2>1, <2>2, Cell3
<1>2. \A t \in Searches, m \in Peers : response'[t][m] =
        IF t = s /\ m = n /\ answer[s][n][k] # Dup THEN answer[s][n][k] ELSE response[t][m]
  BY DEF Receive, TypeOK
<1> QED BY <1>1, <1>2 DEF Receive, ReceiveCells

AnswerCells(s, n, c) ==
  /\ UNCHANGED <<up, file_set, msg_id, inbox, received_queries, status, result, client, response>>
  /\ n # Origin[s] /\ phase[s][n] = "open" /\ Joined(s, n)
  /\ \A t \in Searches, m \in Peers : phase'[t][m] =
       IF t = s /\ m = n THEN "closed" ELSE phase[t][m]
  /\ c = client[s][n] /\ ReplyCells(s, c, n, response[s][n])

LEMMA AnswerEffect ==
  ASSUME TypeOK, ClientInv, NEW s \in Searches, NEW n \in Peers, ForwardResponse(s, n)
  PROVE  \E c \in Peers : AnswerCells(s, n, c)
<1> DEFINE c == client[s][n]
<1>1. c \in Peers
  BY DEF ForwardResponse, ClientInv, Visited
<1>2. ReplyCells(s, c, n, response[s][n])
  BY <1>1, ReplyEffect DEF ForwardResponse
<1>3. \A t \in Searches, m \in Peers : phase'[t][m] =
        IF t = s /\ m = n THEN "closed" ELSE phase[t][m]
  BY DEF ForwardResponse, TypeOK
<1> QED BY <1>1, <1>2, <1>3 DEF ForwardResponse, AnswerCells

FinishCells(s, n) ==
  /\ n \in Peers
  /\ up' = up /\ file_set' = file_set /\ msg_id' = msg_id /\ inbox' = inbox
  /\ received_queries' = received_queries
  /\ client' = client /\ response' = response /\ thread' = thread /\ answer' = answer
  /\ status[s] = "open" /\ Joined(s, n)
  /\ \A t \in Searches, m \in Peers : phase'[t][m] =
       IF t = s /\ m = n THEN "closed" ELSE phase[t][m]
  /\ \A t \in Searches : status'[t] = IF t = s THEN "done" ELSE status[t]
  /\ \A t \in Searches : t # s => result'[t] = result[t]
  /\ result'[s] = IF response[s][n] \in Peers THEN response[s][n] ELSE NoPeer

LEMMA FinishEffect ==
  ASSUME TypeOK, NEW s \in Searches, FinishSearch(s), NEW n, n = Origin[s]
  PROVE  FinishCells(s, n)
BY SearchAssumption DEF FinishSearch, TypeOK, FinishCells

LocalCells(s, n) ==
  /\ n \in Peers /\ status[s] = "new" /\ Wanted[s] \in file_set[n]
  /\ up' = up /\ file_set' = file_set /\ msg_id' = msg_id /\ inbox' = inbox
  /\ received_queries' = received_queries /\ phase' = phase
  /\ client' = client /\ response' = response /\ thread' = thread /\ answer' = answer
  /\ \A t \in Searches : status'[t] = IF t = s THEN "done" ELSE status[t]
  /\ \A t \in Searches : result'[t] = IF t = s THEN n ELSE result[t]

LEMMA LocalEffect ==
  ASSUME TypeOK, NEW s \in Searches, FoundLocally(s), NEW n, n = Origin[s]
  PROVE  LocalCells(s, n)
BY SearchAssumption DEF FoundLocally, CanStart, TypeOK, LocalCells

LEMMA PendingType ==
  ASSUME TypeOK, NEW n \in Peers, NEW r \in Pending(n)
  PROVE  r \in Requests /\ r.search \in Searches /\ r.from \in Peers
<1>1. PICK i \in DOMAIN inbox[n] : r = inbox[n][i]
  BY DEF Pending
<1>2. r \in Requests
  BY <1>1, ElementOfSeq, LenProperties DEF TypeOK
<1> QED BY <1>2 DEF Requests

-----------------------------------------------------------------------------
(* What a step never takes back.                                           *)

Grows ==
  /\ file_set' = file_set
  /\ \A p \in up' : p \in up
  /\ \A s \in Searches, n \in Peers : Visited(s, n) =>
       Visited(s, n)' /\ client'[s][n] = client[s][n]
  /\ \A s \in Searches : status[s] # "new" => status'[s] # "new" /\ msg_id'[s] = msg_id[s]
  /\ \A n \in Peers : \A x \in received_queries[n] : x \in received_queries'[n]

LEMMA GrowsStep == TypeOK /\ SeenInv /\ ClientInv /\ [Next]_vars => Grows
<1> SUFFICES ASSUME TypeOK, SeenInv, ClientInv, [Next]_vars
             PROVE  Grows
  OBVIOUS
<1> USE DEF Grows, Visited
<1>1. ASSUME NEW n \in Peers, Crash(n) PROVE Grows
  BY <1>1 DEF Crash, Stop
<1>2. ASSUME NEW s \in Searches, NEW n \in Peers, NEW k \in Peers, Call(s, n, k) PROVE Grows
  BY <1>2 DEF Call
<1>3. ASSUME NEW s \in Searches, NEW n \in Peers, NEW k \in Peers, CallDead(s, n, k) PROVE Grows
  BY <1>3 DEF CallDead, Stop
<1>4. ASSUME NEW s \in Searches, NEW n \in Peers, NEW k \in Peers, Receive(s, n, k) PROVE Grows
  BY <1>4 DEF Receive
<1>5. ASSUME NEW n \in Peers, NEW r \in Requests, Duplicate(n, r) PROVE Grows
  BY <1>5 DEF Duplicate
<1>6. ASSUME NEW n \in Peers, NEW r \in Requests, Hit(n, r) PROVE Grows
  <2>1. PICK s \in Searches, c \in Peers : HitCells(n, r, s, c)
    BY <1>6, HitEffect
  <2>2. phase[s][n] = "none"
    BY <2>1 DEF HitCells, FreshCells, SeenInv, RecordedInv
  <2>3. \A t \in Searches, m \in Peers : phase[t][m] # "none" =>
          phase'[t][m] # "none" /\ client'[t][m] = client[t][m]
    BY <2>1, <2>2 DEF HitCells
  <2>4. \A m \in Peers : \A x \in received_queries[m] : x \in received_queries'[m]
    BY <2>1 DEF HitCells, FreshCells
  <2> QED BY <2>1, <2>3, <2>4 DEF HitCells, FreshCells
<1>7. ASSUME NEW n \in Peers, NEW r \in Requests, Forward(n, r) PROVE Grows
  <2>1. PICK s \in Searches, c \in Peers : ForwardCells(n, r, s, c)
    BY <1>7, ForwardEffect
  <2>2. phase[s][n] = "none"
    BY <2>1 DEF ForwardCells, FreshCells, SeenInv, RecordedInv
  <2>3. \A t \in Searches, m \in Peers : phase[t][m] # "none" =>
          phase'[t][m] # "none" /\ client'[t][m] = client[t][m]
    BY <2>1, <2>2 DEF ForwardCells, BroadcastCells
  <2>4. \A m \in Peers : \A x \in received_queries[m] : x \in received_queries'[m]
    BY <2>1 DEF ForwardCells, FreshCells
  <2> QED BY <2>1, <2>3, <2>4 DEF ForwardCells, FreshCells
<1>8. ASSUME NEW s \in Searches, NEW n \in Peers, ForwardResponse(s, n) PROVE Grows
  <2>1. PICK c \in Peers : AnswerCells(s, n, c)
    BY <1>8, AnswerEffect
  <2> QED BY <2>1 DEF AnswerCells
<1>9. ASSUME NEW s \in Searches, FoundLocally(s) PROVE Grows
  BY <1>9, LocalEffect DEF LocalCells
<1>10. ASSUME NEW s \in Searches, StartSearch(s) PROVE Grows
  <2>1. StartCells(s, Origin[s])
    BY <1>10, StartEffect
  <2>2. Origin[s] \in Peers /\ \A m \in Peers : phase[s][m] = "none"
    BY <2>1 DEF StartCells, SeenInv, RecordedInv
  <2>3. \A t \in Searches, m \in Peers : phase[t][m] # "none" =>
          phase'[t][m] # "none" /\ client'[t][m] = client[t][m]
    BY <2>1, <2>2 DEF StartCells, BroadcastCells
  <2>4. \A m \in Peers : \A x \in received_queries[m] : x \in received_queries'[m]
    BY <2>1 DEF StartCells
  <2> QED BY <2>1, <2>3, <2>4 DEF StartCells
<1>11. ASSUME NEW s \in Searches, FinishSearch(s) PROVE Grows
  <2>1. FinishCells(s, Origin[s])
    BY <1>11, FinishEffect
  <2> QED BY <2>1 DEF FinishCells
<1>12. CASE UNCHANGED vars
  BY <1>12 DEF vars
<1> QED BY <1>1, <1>2, <1>3, <1>4, <1>5, <1>6, <1>7, <1>8, <1>9, <1>10, <1>11, <1>12
        DEF Next, search_index, send_and_recv

-----------------------------------------------------------------------------
(* The invariants that hold whatever crashes.                              *)

LEMMA AskedKept ==
  ASSUME TypeOK, AskedInv, Grows, \A m \in Peers : \A x \in Pending(m)' : x \in Pending(m)
  PROVE  AskedInv'
BY PendingType DEF AskedInv, Grows

LEMMA ThreadKept ==
  ASSUME ThreadInv, Grows,
         \A t \in Searches, m, k \in Peers : thread'[t][m][k] # "off" =>
           thread[t][m][k] # "off" \/ Visited(t, m)'
  PROVE  ThreadInv'
BY DEF ThreadInv, Grows

\* No peer takes up a search.
LEMMA NoVisit ==
  ASSUME RecordedInv, ClientInv, Grows,
         \A t \in Searches, m \in Peers : Visited(t, m)' => Visited(t, m)
  PROVE  RecordedInv' /\ ClientInv'
<1>1. \A s \in Searches : Origin[s] \in Peers
  BY SearchAssumption
<1>2. RecordedInv'
  BY <1>1 DEF RecordedInv, Grows
<1>3. ClientInv'
  BY DEF ClientInv, Grows
<1> QED BY <1>2, <1>3

\* Peer n takes up search s for c.
LEMMA NewVisit ==
  ASSUME RecordedInv, ClientInv, Grows,
         NEW s \in Searches, NEW n \in Peers, NEW c \in Peers,
         \A t \in Searches, m \in Peers : Visited(t, m)' =>
           Visited(t, m) \/ (t = s /\ m = n /\ client'[t][m] = c),
         Visited(s, c)', Visited(s, Origin[s])', n = Origin[s] => c = n,
         status'[s] # "new", msg_id'[s] \in received_queries'[n]
  PROVE  RecordedInv' /\ ClientInv'
<1>1. \A t \in Searches : Origin[t] \in Peers
  BY SearchAssumption
<1>2. RecordedInv'
  BY <1>1 DEF RecordedInv, Grows
<1>3. ClientInv'
  BY DEF ClientInv, Grows
<1> QED BY <1>2, <1>3

LEMMA FreshFacts ==
  ASSUME SeenInv, NEW n \in Peers, NEW r, NEW s \in Searches, NEW c \in Peers,
         FreshCells(n, r, s, c)
  PROVE  /\ ~Visited(s, n) /\ Visited(s, c) /\ Visited(s, Origin[s]) /\ n # Origin[s]
         /\ status[s] # "new" /\ status'[s] # "new" /\ Origin[s] \in Peers
         /\ msg_id'[s] \in received_queries'[n]
<1>1. Origin[s] \in Peers
  BY SearchAssumption
<1>2. ~Visited(s, n)
  BY DEF SeenInv, RecordedInv, FreshCells
<1>3. Visited(s, c)
  BY DEF SeenInv, AskedInv, FreshCells, DequeueCells
<1>4. Visited(s, Origin[s]) /\ status[s] # "new"
  BY <1>3 DEF SeenInv, RecordedInv
<1>5. status'[s] # "new" /\ msg_id'[s] \in received_queries'[n]
  BY <1>4 DEF FreshCells
<1> QED BY <1>1, <1>2, <1>3, <1>4, <1>5

LEMMA SeenStep == TypeOK /\ SeenInv /\ ClientInv /\ [Next]_vars => SeenInv' /\ ClientInv'
<1> SUFFICES ASSUME TypeOK, SeenInv, ClientInv, [Next]_vars
             PROVE  SeenInv' /\ ClientInv'
  OBVIOUS
<1> DEFINE Goal == SeenInv' /\ ClientInv'
<1>0. Grows /\ RecordedInv /\ ThreadInv /\ AskedInv /\ OpenInv
  BY GrowsStep DEF SeenInv
<1>1. ASSUME NEW n \in Peers, Stop(n) PROVE Goal
  <2>1. RecordedInv' /\ ClientInv'
    BY <1>0, <1>1, NoVisit DEF Stop, Visited
  <2>2. ThreadInv'
    BY <1>0, <1>1, StopEffect, ThreadKept DEF StopCells
  <2>3. AskedInv' /\ OpenInv'
    BY <1>0, <1>1, AskedKept DEF Stop, Pending, OpenInv
  <2> QED BY <2>1, <2>2, <2>3 DEF SeenInv
<1>2. ASSUME NEW s \in Searches, NEW n \in Peers, NEW k \in Peers, Call(s, n, k) PROVE Goal
  <2>1. CallCells(s, n, k)
    BY <1>2, CallEffect
  <2>2. RecordedInv' /\ ClientInv'
    BY <1>0, <1>2, NoVisit DEF Call, Visited
  <2>3. ThreadInv'
    BY <1>0, <1>2, <2>1, ThreadKept DEF Call, CallCells
  <2>4. Visited(s, n)
    BY <1>0, <1>2 DEF Call, ThreadInv
  <2>5. AskedInv'
    BY <1>0, <2>1, <2>4, PendingType DEF AskedInv, CallCells, Grows
  <2>6. OpenInv'
    BY <1>0, <1>2 DEF Call, OpenInv
  <2> QED BY <2>2, <2>3, <2>5, <2>6 DEF SeenInv
<1>3. ASSUME NEW s \in Searches, NEW n \in Peers, NEW k \in Peers, Receive(s, n, k) PROVE Goal
  <2>1. ReceiveCells(s, n, k)
    BY <1>3, ReceiveEffect
  <2>2. RecordedInv' /\ ClientInv'
    BY <1>0, <2>1, NoVisit DEF ReceiveCells, Visited
  <2>3. ThreadInv'
    BY <1>0, <2>1, ThreadKept DEF ReceiveCells
  <2>4. AskedInv' /\ OpenInv'
    BY <1>0, <2>1, AskedKept DEF ReceiveCells, Pending, OpenInv
  <2> QED BY <2>2, <2>3, <2>4 DEF SeenInv
<1>4. ASSUME NEW n \in Peers, NEW r \in Requests, Duplicate(n, r) PROVE Goal
  <2>1. PICK s \in Searches, c \in Peers : DuplicateCells(n, r, s, c)
    BY <1>4, DuplicateEffect
  <2>2. RecordedInv' /\ ClientInv'
    BY <1>0, <2>1, NoVisit DEF DuplicateCells, Visited
  <2>3. Visited(s, c)'
    BY <1>0, <2>1 DEF AskedInv, DuplicateCells, DequeueCells, Grows
  <2>4. ThreadInv'
    BY <1>0, <2>1, <2>3, ThreadKept DEF DuplicateCells, ReplyCells
  <2>5. AskedInv' /\ OpenInv'
    BY <1>0, <2>1, AskedKept DEF DuplicateCells, DequeueCells, OpenInv
  <2> QED BY <2>2, <2>4, <2>5 DEF SeenInv
<1>5. ASSUME NEW n \in Peers, NEW r \in Requests, Hit(n, r) PROVE Goal
  <2>1. PICK s \in Searches, c \in Peers : HitCells(n, r, s, c)
    BY <1>5, HitEffect
  <2>2. FreshCells(n, r, s, c)
    BY <2>1 DEF HitCells
  <2>3. /\ Visited(s, c)' /\ Visited(s, Origin[s])' /\ n # Origin[s]
        /\ status'[s] # "new" /\ msg_id'[s] \in received_queries'[n]
    BY <1>0, <2>2, FreshFacts DEF Grows
  <2>4. \A t \in Searches, m \in Peers : Visited(t, m)' =>
          Visited(t, m) \/ (t = s /\ m = n /\ client'[t][m] = c)
    BY <2>1 DEF HitCells, Visited
  <2>5. RecordedInv' /\ ClientInv'
    BY <1>0, <2>3, <2>4, NewVisit
  <2>6. ThreadInv'
    BY <1>0, <2>1, <2>3, ThreadKept DEF HitCells, ReplyCells
  <2>7. AskedInv'
    BY <1>0, <2>2, AskedKept DEF FreshCells, DequeueCells
  <2>8. OpenInv'
    BY <1>0, <2>1, <2>2, <2>3, SearchAssumption DEF HitCells, FreshCells, OpenInv
  <2> QED BY <2>5, <2>6, <2>7, <2>8 DEF SeenInv
<1>6. ASSUME NEW n \in Peers, NEW r \in Requests, Forward(n, r) PROVE Goal
  <2>1. PICK s \in Searches, c \in Peers : ForwardCells(n, r, s, c)
    BY <1>6, ForwardEffect
  <2>2. FreshCells(n, r, s, c)
    BY <2>1 DEF ForwardCells
  <2>3. /\ Visited(s, c)' /\ Visited(s, Origin[s])' /\ n # Origin[s]
        /\ status'[s] # "new" /\ msg_id'[s] \in received_queries'[n]
    BY <1>0, <2>2, FreshFacts DEF Grows
  <2>4. \A t \in Searches, m \in Peers : Visited(t, m)' =>
          Visited(t, m) \/ (t = s /\ m = n /\ client'[t][m] = c)
    BY <2>1 DEF ForwardCells, BroadcastCells, Visited
  <2>5. RecordedInv' /\ ClientInv'
    BY <1>0, <2>3, <2>4, NewVisit
  <2>6. ThreadInv'
    BY <1>0, <2>1, ThreadKept DEF ForwardCells, BroadcastCells, Visited
  <2>7. AskedInv'
    BY <1>0, <2>2, AskedKept DEF FreshCells, DequeueCells
  <2>8. OpenInv'
    BY <1>0, <2>1, <2>2, <2>3, SearchAssumption
       DEF ForwardCells, BroadcastCells, FreshCells, OpenInv
  <2> QED BY <2>5, <2>6, <2>7, <2>8 DEF SeenInv
<1>7. ASSUME NEW s \in Searches, NEW n \in Peers, ForwardResponse(s, n) PROVE Goal
  <2>1. PICK c \in Peers : AnswerCells(s, n, c)
    BY <1>7, AnswerEffect
  <2>2. RecordedInv' /\ ClientInv'
    <3>1. \A t \in Searches, m \in Peers : Visited(t, m)' => Visited(t, m)
      BY <2>1 DEF AnswerCells, Visited
    <3> QED BY <1>0, <3>1, NoVisit
  <2>3. Visited(s, c)'
    BY <1>0, <2>1 DEF ClientInv, AnswerCells, Grows, Visited
  <2>4. ThreadInv'
    BY <1>0, <2>1, <2>3, ThreadKept DEF AnswerCells, ReplyCells
  <2>5. AskedInv'
    BY <1>0, <2>1, AskedKept DEF AnswerCells, Pending
  <2>6. OpenInv'
    <3>1. \A t \in Searches : Origin[t] \in Peers
      BY SearchAssumption
    <3>2. \A t \in Searches : phase[t][Origin[t]] = "open" => phase'[t][Origin[t]] = "open"
      BY <2>1, <3>1 DEF AnswerCells
    <3> QED BY <1>0, <2>1, <3>2 DEF AnswerCells, OpenInv
  <2> QED BY <2>2, <2>4, <2>5, <2>6 DEF SeenInv
<1>8. ASSUME NEW s \in Searches, FoundLocally(s) PROVE Goal
  <2>1. LocalCells(s, Origin[s])
    BY <1>8, LocalEffect
  <2>2. RecordedInv' /\ ClientInv'
    BY <1>0, <2>1, NoVisit DEF LocalCells, Visited
  <2>3. ThreadInv'
    BY <1>0, <2>1, ThreadKept DEF LocalCells
  <2>4. AskedInv'
    BY <1>0, <2>1, AskedKept DEF LocalCells, Pending
  <2>5. OpenInv'
    BY <1>0, <2>1 DEF LocalCells, OpenInv
  <2> QED BY <2>2, <2>3, <2>4, <2>5 DEF SeenInv
<1>9. ASSUME NEW s \in Searches, StartSearch(s) PROVE Goal
  <2> DEFINE n == Origin[s]
  <2>1. StartCells(s, n)
    BY <1>9, StartEffect
  <2>2. n \in Peers
    BY SearchAssumption
  <2> HIDE DEF n
  <2>3. /\ phase'[s][n] = "open" /\ Visited(s, n)'
        /\ status'[s] # "new" /\ msg_id'[s] \in received_queries'[n]
    BY <2>1, <2>2 DEF StartCells, BroadcastCells, Visited
  <2>4. \A t \in Searches, m \in Peers : Visited(t, m)' =>
          Visited(t, m) \/ (t = s /\ m = n /\ client'[t][m] = n)
    BY <2>1 DEF StartCells, BroadcastCells, Visited
  <2>5. RecordedInv' /\ ClientInv'
    BY <1>0, <2>2, <2>3, <2>4, NewVisit DEF n
  <2>6. ThreadInv'
    BY <1>0, <2>1, ThreadKept DEF StartCells, BroadcastCells, Visited
  <2>7. AskedInv'
    BY <1>0, <2>1, AskedKept DEF StartCells, Pending
  <2>8. OpenInv'
    BY <1>0, <2>1, <2>3, SearchAssumption DEF StartCells, BroadcastCells, OpenInv, n
  <2> QED BY <2>5, <2>6, <2>7, <2>8 DEF SeenInv
<1>10. ASSUME NEW s \in Searches, FinishSearch(s) PROVE Goal
  <2> DEFINE n == Origin[s]
  <2>1. FinishCells(s, n)
    BY <1>10, FinishEffect
  <2>2. Visited(s, n)
    BY <1>0, <2>1 DEF FinishCells, OpenInv, Visited
  <2>3. RecordedInv' /\ ClientInv'
    <3>1. \A t \in Searches, m \in Peers : Visited(t, m)' => Visited(t, m)
      BY <2>1, <2>2 DEF FinishCells, Visited
    <3> QED BY <1>0, <3>1, NoVisit
  <2>4. ThreadInv'
    BY <1>0, <2>1, ThreadKept DEF FinishCells
  <2>5. AskedInv'
    BY <1>0, <2>1, AskedKept DEF FinishCells, Pending
  <2>6. OpenInv'
    BY <1>0, <2>1, SearchAssumption DEF FinishCells, OpenInv
  <2> QED BY <2>3, <2>4, <2>5, <2>6 DEF SeenInv
<1>11. CASE UNCHANGED vars
  <2>1. RecordedInv' /\ ClientInv'
    BY <1>0, <1>11, NoVisit DEF vars, Visited
  <2> QED BY <1>0, <2>1, <1>11 DEF vars, SeenInv, ThreadInv, AskedInv, OpenInv, Pending, Visited
<1> QED BY <1>1, <1>2, <1>3, <1>4, <1>5, <1>6, <1>7, <1>8, <1>9, <1>10, <1>11
        DEF Next, search_index, send_and_recv, Crash, CallDead

LEMMA IdsKept ==
  ASSUME RecordedInv, IdsInv, Grows,
         \A n \in Peers : \A x \in received_queries'[n] :
           x \in received_queries[n] \/ \E t \in Searches : Visited(t, n)' /\ msg_id'[t] = x
  PROVE  IdsInv'
<1> SUFFICES ASSUME NEW n \in Peers, NEW x \in received_queries'[n]
             PROVE  \E t \in Searches : Visited(t, n)' /\ msg_id'[t] = x
  BY DEF IdsInv
<1>1. CASE x \in received_queries[n]
  <2>1. PICK t \in Searches : Visited(t, n) /\ msg_id[t] = x
    BY <1>1 DEF IdsInv
  <2> QED BY <2>1 DEF RecordedInv, Grows
<1> QED BY <1>1

LEMMA IdsStep == TypeOK /\ SeenInv /\ ClientInv /\ IdsInv /\ [Next]_vars => IdsInv'
<1> SUFFICES ASSUME TypeOK, SeenInv, ClientInv, IdsInv, [Next]_vars
             PROVE  IdsInv'
  OBVIOUS
<1>0. Grows /\ RecordedInv
  BY GrowsStep DEF SeenInv
<1>1. CASE UNCHANGED received_queries
  BY <1>0, <1>1, IdsKept
<1>2. ASSUME NEW n \in Peers, NEW r \in Requests, Hit(n, r) PROVE IdsInv'
  <2>1. PICK s \in Searches, c \in Peers : HitCells(n, r, s, c)
    BY <1>2, HitEffect
  <2>2. Visited(s, n)' /\ \A m \in Peers : \A x \in received_queries'[m] :
          x \in received_queries[m] \/ (m = n /\ x = msg_id'[s])
    BY <2>1 DEF HitCells, FreshCells, Visited
  <2> QED BY <1>0, <2>2, IdsKept
<1>3. ASSUME NEW n \in Peers, NEW r \in Requests, Forward(n, r) PROVE IdsInv'
  <2>1. PICK s \in Searches, c \in Peers : ForwardCells(n, r, s, c)
    BY <1>3, ForwardEffect
  <2>2. \A m \in Peers : \A x \in received_queries'[m] :
          x \in received_queries[m] \/ (m = n /\ x = msg_id'[s])
    BY <2>1 DEF ForwardCells, FreshCells
  <2>3. Visited(s, n)'
    BY <2>1 DEF ForwardCells, BroadcastCells, Visited
  <2> QED BY <1>0, <2>2, <2>3, IdsKept
<1>4. ASSUME NEW s \in Searches, StartSearch(s) PROVE IdsInv'
  <2>1. StartCells(s, Origin[s])
    BY <1>4, StartEffect
  <2>2. \A m \in Peers : \A x \in received_queries'[m] :
          x \in received_queries[m] \/ (m = Origin[s] /\ x = msg_id'[s])
    BY <2>1 DEF StartCells
  <2>3. Visited(s, Origin[s])'
    BY <2>1 DEF StartCells, BroadcastCells, Visited
  <2> QED BY <1>0, <2>2, <2>3, IdsKept
<1>5. ASSUME NEW n \in Peers, Stop(n) PROVE IdsInv'
  BY <1>1, <1>5 DEF Stop
<1>6. ASSUME NEW s \in Searches, NEW n \in Peers, NEW k \in Peers, send_and_recv(s, n, k)
      PROVE  IdsInv'
  BY <1>1, <1>5, <1>6 DEF send_and_recv, Call, CallDead, Receive
<1>7. ASSUME NEW n \in Peers, NEW r \in Requests, Duplicate(n, r) PROVE IdsInv'
  BY <1>1, <1>7 DEF Duplicate
<1>8. ASSUME NEW s \in Searches, NEW n \in Peers, ForwardResponse(s, n) PROVE IdsInv'
  BY <1>1, <1>8 DEF ForwardResponse
<1>9. ASSUME NEW s \in Searches, FoundLocally(s) \/ FinishSearch(s) PROVE IdsInv'
  BY <1>1, <1>9 DEF FoundLocally, FinishSearch
<1>10. CASE UNCHANGED vars
  BY <1>1, <1>10 DEF vars
<1> QED BY <1>2, <1>3, <1>4, <1>5, <1>6, <1>7, <1>8, <1>9, <1>10 DEF Next, search_index, Crash

LEMMA DupKept ==
  ASSUME Grows, DupMeansSeen,
         \A t \in Searches, m, k \in Peers :
           thread'[t][m][k] \in {"answered", "joined"} /\ answer'[t][m][k] = Dup =>
             \/ thread[t][m][k] \in {"answered", "joined"} /\ answer[t][m][k] = Dup
             \/ Visited(t, k)'
  PROVE  DupMeansSeen'
BY DEF DupMeansSeen, Grows, Visited

LEMMA DupStep ==
  TypeOK /\ SeenInv /\ ClientInv /\ IdsInv /\ DupMeansSeenIfUnique /\ [Next]_vars
    => DupMeansSeenIfUnique'
<1> SUFFICES ASSUME TypeOK, SeenInv, ClientInv, IdsInv, DupMeansSeenIfUnique, [Next]_vars,
                    UniqueIds'
             PROVE  DupMeansSeen'
  BY DEF DupMeansSeenIfUnique
<1>0. Grows /\ RecordedInv
  BY GrowsStep DEF SeenInv
<1>1. UniqueIds
  <2>1. \A s \in Searches : Origin[s] \in Peers
    BY SearchAssumption
  <2>2. \A s \in Searches : Started(s) => Started(s)' /\ msg_id'[s] = msg_id[s]
    BY <1>0, <2>1 DEF Started, Grows, Visited
  <2> QED BY <2>2 DEF UniqueIds
<1>2. DupMeansSeen
  BY <1>1 DEF DupMeansSeenIfUnique
<1>3. Dup # Null /\ Dup \notin Peers
  BY SearchAssumption
<1>4. ASSUME NEW n \in Peers, Stop(n) PROVE DupMeansSeen'
  BY <1>0, <1>2, <1>3, <1>4, StopEffect, DupKept DEF StopCells
<1>5. ASSUME NEW s \in Searches, NEW n \in Peers, NEW k \in Peers, Call(s, n, k)
      PROVE  DupMeansSeen'
  <2>1. CallCells(s, n, k) /\ answer' = answer
    BY <1>5, CallEffect DEF Call
  <2> QED BY <1>0, <1>2, <2>1, DupKept DEF CallCells
<1>6. ASSUME NEW s \in Searches, NEW n \in Peers, NEW k \in Peers, Receive(s, n, k)
      PROVE  DupMeansSeen'
  <2>1. ReceiveCells(s, n, k)
    BY <1>6, ReceiveEffect
  <2> QED BY <1>0, <1>2, <2>1, DupKept DEF ReceiveCells
<1>7. ASSUME NEW n \in Peers, NEW r \in Requests, Duplicate(n, r) PROVE DupMeansSeen'
  <2>1. PICK s \in Searches, c \in Peers : DuplicateCells(n, r, s, c)
    BY <1>7, DuplicateEffect
  <2>2. PICK t \in Searches : Visited(t, n) /\ msg_id[t] = msg_id[s]
    BY <2>1 DEF DuplicateCells, IdsInv
  <2>3. Visited(s, c)
    BY <2>1 DEF SeenInv, AskedInv, DuplicateCells, DequeueCells
  <2>4. Started(s) /\ Started(t)
    BY <1>0, <2>2, <2>3 DEF RecordedInv, Started, Visited
  <2>5. Visited(s, n)'
    BY <1>0, <1>1, <2>2, <2>4 DEF UniqueIds, Grows
  <2> QED BY <1>0, <1>2, <2>1, <2>5, DupKept DEF DuplicateCells, ReplyCells
<1>8. ASSUME NEW n \in Peers, NEW r \in Requests, Hit(n, r) PROVE DupMeansSeen'
  <2>1. PICK s \in Searches, c \in Peers : HitCells(n, r, s, c)
    BY <1>8, HitEffect
  <2>2. Visited(s, n)'
    BY <2>1 DEF HitCells, Visited
  <2> QED BY <1>0, <1>2, <2>1, <2>2, DupKept DEF HitCells, ReplyCells
<1>9. ASSUME NEW n \in Peers, NEW r \in Requests, Forward(n, r) PROVE DupMeansSeen'
  <2>1. PICK s \in Searches, c \in Peers : ForwardCells(n, r, s, c)
    BY <1>9, ForwardEffect
  <2> QED BY <1>0, <1>2, <2>1, DupKept DEF ForwardCells, BroadcastCells
<1>10. ASSUME NEW s \in Searches, NEW n \in Peers, ForwardResponse(s, n) PROVE DupMeansSeen'
  <2>1. PICK c \in Peers : AnswerCells(s, n, c)
    BY <1>10, AnswerEffect
  <2>2. Visited(s, n)'
    BY <2>1 DEF AnswerCells, Visited
  <2> QED BY <1>0, <1>2, <2>1, <2>2, DupKept DEF AnswerCells, ReplyCells
<1>11. ASSUME NEW s \in Searches, StartSearch(s) PROVE DupMeansSeen'
  <2>1. StartCells(s, Origin[s])
    BY <1>11, StartEffect
  <2> QED BY <1>0, <1>2, <2>1, DupKept DEF StartCells, BroadcastCells
<1>12. CASE UNCHANGED <<thread, answer>>
  BY <1>0, <1>2, <1>12, DupKept
<1> QED BY <1>4, <1>5, <1>6, <1>7, <1>8, <1>9, <1>10, <1>11, <1>12
        DEF Next, search_index, send_and_recv, Crash, CallDead, FoundLocally, FinishSearch, vars

-----------------------------------------------------------------------------
(* The addresses that travel.                                              *)

LEMMA SoundKept ==
  ASSUME SoundInv, file_set' = file_set,
         \A t \in Searches, m \in Peers : response'[t][m] \in Peers =>
           response'[t][m] = response[t][m] \/ Wanted[t] \in file_set[response'[t][m]],
         \A t \in Searches, m, k \in Peers : answer'[t][m][k] \in Peers =>
           answer'[t][m][k] = answer[t][m][k] \/ Wanted[t] \in file_set[answer'[t][m][k]],
         \A t \in Searches : result'[t] # NoPeer =>
           result'[t] = result[t] \/ Wanted[t] \in file_set[result'[t]]
  PROVE  SoundInv'
BY DEF SoundInv, SoundResult

LEMMA SoundStep == TypeOK /\ SeenInv /\ ClientInv /\ SoundInv /\ [Next]_vars => SoundInv'
<1> SUFFICES ASSUME TypeOK, SeenInv, ClientInv, SoundInv, [Next]_vars
             PROVE  SoundInv'
  OBVIOUS
<1>3. Null \notin Peers /\ Dup \notin Peers /\ NoPeer \notin Peers
  BY SearchAssumption
<1>4. ASSUME NEW n \in Peers, Stop(n) PROVE SoundInv'
  BY <1>3, <1>4, StopEffect, SoundKept DEF StopCells, Stop
<1>6. ASSUME NEW s \in Searches, NEW n \in Peers, NEW k \in Peers, Receive(s, n, k)
      PROVE  SoundInv'
  <2>1. ReceiveCells(s, n, k)
    BY <1>6, ReceiveEffect
  <2>2. \A t \in Searches, m \in Peers : response'[t][m] \in Peers =>
          response'[t][m] = response[t][m] \/ Wanted[t] \in file_set[response'[t][m]]
    BY <2>1 DEF ReceiveCells, SoundInv
  <2> QED BY <2>1, <2>2, SoundKept DEF ReceiveCells
<1>7. ASSUME NEW n \in Peers, NEW r \in Requests, Duplicate(n, r) PROVE SoundInv'
  <2>1. PICK s \in Searches, c \in Peers : DuplicateCells(n, r, s, c)
    BY <1>7, DuplicateEffect
  <2>2. \A t \in Searches, m, k \in Peers : answer'[t][m][k] \in Peers =>
           answer'[t][m][k] = answer[t][m][k]
    BY <1>3, <2>1 DEF DuplicateCells, ReplyCells
  <2> QED BY <2>1, <2>2, SoundKept DEF DuplicateCells
<1>8. ASSUME NEW n \in Peers, NEW r \in Requests, Hit(n, r) PROVE SoundInv'
  <2>1. PICK s \in Searches, c \in Peers : HitCells(n, r, s, c)
    BY <1>8, HitEffect
  <2>2. \A t \in Searches, m, k \in Peers : answer'[t][m][k] \in Peers =>
           answer'[t][m][k] = answer[t][m][k] \/ Wanted[t] \in file_set[answer'[t][m][k]]
    BY <2>1 DEF HitCells, ReplyCells
  <2>3. \A t \in Searches, m \in Peers : response'[t][m] \in Peers =>
          response'[t][m] = response[t][m] \/ Wanted[t] \in file_set[response'[t][m]]
    BY <2>1 DEF HitCells
  <2> QED BY <2>1, <2>2, <2>3, SoundKept DEF HitCells, FreshCells
<1>9. ASSUME NEW n \in Peers, NEW r \in Requests, Forward(n, r) PROVE SoundInv'
  <2>1. PICK s \in Searches, c \in Peers : ForwardCells(n, r, s, c)
    BY <1>9, ForwardEffect
  <2>2. \A t \in Searches, m \in Peers : response'[t][m] \in Peers =>
          response'[t][m] = response[t][m]
    BY <1>3, <2>1 DEF ForwardCells, BroadcastCells
  <2> QED BY <2>1, <2>2, SoundKept DEF ForwardCells, FreshCells
<1>10. ASSUME NEW s \in Searches, NEW n \in Peers, ForwardResponse(s, n) PROVE SoundInv'
  <2>1. PICK c \in Peers : AnswerCells(s, n, c)
    BY <1>10, AnswerEffect
  <2>2. \A t \in Searches, m, k \in Peers : answer'[t][m][k] \in Peers =>
           answer'[t][m][k] = answer[t][m][k] \/ Wanted[t] \in file_set[answer'[t][m][k]]
    BY <2>1 DEF AnswerCells, ReplyCells, SoundInv
  <2> QED BY <2>1, <2>2, SoundKept DEF AnswerCells
<1>11. ASSUME NEW s \in Searches, StartSearch(s) PROVE SoundInv'
  <2>1. StartCells(s, Origin[s])
    BY <1>11, StartEffect
  <2>2. \A t \in Searches, m \in Peers : response'[t][m] \in Peers =>
          response'[t][m] = response[t][m]
    BY <1>3, <2>1 DEF StartCells, BroadcastCells
  <2> QED BY <2>1, <2>2, SoundKept DEF StartCells
<1>12. ASSUME NEW s \in Searches, FoundLocally(s) PROVE SoundInv'
  BY <1>12, LocalEffect, SoundKept DEF LocalCells
<1>13. ASSUME NEW s \in Searches, FinishSearch(s) PROVE SoundInv'
  <2>1. FinishCells(s, Origin[s])
    BY <1>13, FinishEffect
  <2>2. \A t \in Searches : result'[t] # NoPeer =>
          result'[t] = result[t] \/ Wanted[t] \in file_set[result'[t]]
    BY <2>1 DEF FinishCells, SoundInv
  <2> QED BY <2>1, <2>2, SoundKept DEF FinishCells
<1>14. CASE UNCHANGED <<file_set, response, answer, result>>
  BY <1>14, SoundKept
<1> QED BY <1>4, <1>6, <1>7, <1>8, <1>9, <1>10, <1>11, <1>12, <1>13, <1>14
        DEF Next, search_index, send_and_recv, Crash, CallDead, Call, vars

-----------------------------------------------------------------------------
(* A step of a run without a crash: one lemma per action.                  *)

\* Threads of a peer start to wait or are answered.
LEMMA AskedStays ==
  ASSUME NEW s \in Searches, NEW n \in Peers, Asked(s, n), file_set' = file_set,
         phase'[s][n] = phase[s][n], client'[s][n] = client[s][n],
         response'[s][n] = response[s][n],
         \A k \in Peers :
           \/ thread'[s][n][k] = thread[s][n][k] /\ answer'[s][n][k] = answer[s][n][k]
           \/ thread[s][n][k] = "spawned" /\ thread'[s][n][k] = "calling"
           \/ thread[s][n][k] = "calling" /\ thread'[s][n][k] = "answered"
  PROVE  Asked(s, n)'
<1>1. Neighbors[n] \subseteq Peers
  BY SearchAssumption
<1>2. phase[s][n] = "closed" => Joined(s, n)'
  BY DEF Asked, Joined
<1>3. \A k \in Neighbors[n] : thread[s][n][k] # "off" => thread'[s][n][k] # "off"
  BY <1>1
<1>4. \A k \in Peers : thread'[s][n][k] = "joined" =>
        thread[s][n][k] = "joined" /\ answer'[s][n][k] = answer[s][n][k]
  OBVIOUS
<1> QED BY <1>2, <1>3, <1>4 DEF Asked

LEMMA CallStep ==
  ASSUME TypeOK, SeenInv, ClientInv, FaultFree, Grows,
         NEW s \in Searches, NEW n \in Peers, NEW k \in Peers, Call(s, n, k)
  PROVE  FaultFree'
<1> DEFINE r == [search |-> s, from |-> n]
<1>1. CallCells(s, n, k)
  BY CallEffect
<1>2. /\ UNCHANGED <<phase, client, answer, response, status, result, file_set>>
      /\ thread[s][n][k] = "spawned"
  BY DEF Call
<1>3. \A t \in Searches, m, l \in Peers : ~(t = s /\ m = n /\ l = k) =>
        thread'[t][m][l] = thread[t][m][l]
  BY <1>1 DEF CallCells
<1>4. thread'[s][n][k] = "calling"
  BY <1>1 DEF CallCells
<1>5. r \notin Pending(k)
  BY <1>2 DEF FaultFree, WaitInv
<1>6. WaitInv'
  <2> SUFFICES ASSUME NEW m \in Peers, NEW x \in Pending(m)'
               PROVE  thread'[x.search][x.from][m] = "calling"
    BY DEF WaitInv
  <2>1. CASE x \in Pending(m)
    <3>1. x.search \in Searches /\ x.from \in Peers /\ thread[x.search][x.from][m] = "calling"
      BY <2>1, PendingType DEF FaultFree, WaitInv
    <3> QED BY <3>1, <1>3, <1>4
  <2>2. CASE m = k /\ x = r
    BY <2>2, <1>4
  <2> QED BY <2>1, <2>2, <1>1 DEF CallCells
<1>7. OnceInv'
  <2>1. \A m \in Peers \ {k} : EachOnce(m)'
    BY <1>1 DEF FaultFree, OnceInv, CallCells, EachOnce
  <2>2. EachOnce(k)'
    BY <1>1, <1>5 DEF FaultFree, OnceInv, CallCells
  <2> QED BY <2>1, <2>2 DEF OnceInv
<1>8. TakenInv'
  <2> SUFFICES ASSUME NEW t \in Searches, NEW m \in Peers, phase[t][m] = "open", m # Origin[t],
                      [search |-> t, from |-> client[t][m]] \in Pending(m)'
               PROVE  FALSE
    BY <1>2 DEF TakenInv
  <2>1. [search |-> t, from |-> client[t][m]] \notin Pending(m)
    BY DEF FaultFree, TakenInv
  <2>2. m = k /\ [search |-> t, from |-> client[t][m]] = r
    BY <2>1, <1>1 DEF CallCells
  <2>3. t = s /\ client[t][m] = n
    BY <2>2
  <2>4. thread[s][n][k] = "calling"
    BY <2>2, <2>3 DEF FaultFree, CallInv, Visited
  <2> QED BY <2>4, <1>2
<1>9. BroadcastInv'
  BY <1>2, <1>3, <1>4, AskedStays DEF FaultFree, BroadcastInv, Visited
<1>10. CallInv'
  <2>1. \A t \in Searches, m, l \in Peers : /\ thread[t][m][l] = "calling" => thread'[t][m][l] = "calling"
                                            /\ thread[t][m][l] \in {"answered", "joined"} =>
                                                 thread'[t][m][l] \in {"answered", "joined"}
    BY <1>2, <1>3, <1>4
  <2> QED BY <1>2, <2>1 DEF FaultFree, CallInv, ClientInv, Visited
<1>11. AnswerInv' /\ NoNull'
  BY <1>2, <1>3, <1>4 DEF FaultFree, AnswerInv, NoNull, Visited
<1>12. PathInv' /\ RootInv' /\ ResultInv'
  BY <1>2 DEF FaultFree, PathInv, RootInv, ResultInv, Promising, Visited
<1> QED BY <1>6, <1>7, <1>8, <1>9, <1>10, <1>11, <1>12 DEF FaultFree

LEMMA ReceiveStep ==
  ASSUME TypeOK, SeenInv, ClientInv, FaultFree, Grows,
         NEW s \in Searches, NEW n \in Peers, NEW k \in Peers, Receive(s, n, k)
  PROVE  FaultFree'
<1>1. ReceiveCells(s, n, k)
  BY ReceiveEffect
<1>2. /\ UNCHANGED <<phase, client, answer, status, result, file_set, inbox>>
      /\ thread[s][n][k] = "answered" /\ thread'[s][n][k] = "joined"
  BY <1>1 DEF ReceiveCells
<1>3. \A t \in Searches, m, l \in Peers : ~(t = s /\ m = n /\ l = k) =>
        thread'[t][m][l] = thread[t][m][l]
  BY <1>1 DEF ReceiveCells
<1>4. \A t \in Searches, m \in Peers :
        /\ ~(t = s /\ m = n) => response'[t][m] = response[t][m]
        /\ response[t][m] \in Peers => response'[t][m] \in Peers
        /\ response'[t][m] # Null
  <2>1. answer[s][n][k] \in Peers \cup {Dup}
    BY DEF FaultFree, NoNull, TypeOK, Answers
  <2>2. \A t \in Searches, m \in Peers : response[t][m] # Null
    BY DEF FaultFree, NoNull
  <2>3. Null \notin Peers /\ Dup # Null
    BY SearchAssumption
  <2> QED BY <1>1, <2>1, <2>2, <2>3 DEF ReceiveCells
<1>5. phase[s][n] = "open"
  <2>1. Visited(s, n)
    BY <1>2 DEF SeenInv, ThreadInv
  <2>2. ~Joined(s, n)
    BY <1>2 DEF Joined
  <2> QED BY <2>1, <2>2 DEF FaultFree, BroadcastInv, Asked, Visited, TypeOK
<1>6. \A m \in Peers : Pending(m)' = Pending(m) /\ EachOnce(m)' = EachOnce(m)
  BY <1>2 DEF Pending, EachOnce
<1>7. WaitInv'
  <2>1. \A m \in Peers : \A x \in Pending(m) :
          x.search \in Searches /\ x.from \in Peers /\ thread[x.search][x.from][m] = "calling"
    BY PendingType DEF FaultFree, WaitInv
  <2> QED BY <1>2, <1>3, <1>6, <2>1 DEF WaitInv
<1>8. OnceInv' /\ TakenInv'
  BY <1>2, <1>6 DEF FaultFree, OnceInv, TakenInv
<1>9. BroadcastInv'
  <2>1. \A t \in Searches, m \in Peers : phase[t][m] = "closed" => Joined(t, m)'
    BY <1>2, <1>3 DEF FaultFree, BroadcastInv, Asked, Joined, Visited
  <2>2. \A t \in Searches, m, l \in Peers : thread[t][m][l] # "off" => thread'[t][m][l] # "off"
    BY <1>2, <1>3
  <2>3. \A m \in Peers : \A l \in Neighbors[m] : l \in Peers
    BY SearchAssumption
  <2>4. \A t \in Searches, m, l \in Peers :
          thread'[t][m][l] = "joined" /\ answer[t][m][l] \in Peers /\ Visited(t, m) =>
            response'[t][m] \in Peers
    <3>1. answer[s][n][k] \in Peers => response'[s][n] \in Peers
      BY <1>1, SearchAssumption DEF ReceiveCells
    <3> QED BY <1>2, <1>3, <1>4, <3>1 DEF FaultFree, BroadcastInv, Asked
  <2> QED BY <1>2, <1>4, <2>1, <2>2, <2>3, <2>4 DEF FaultFree, BroadcastInv, Asked, Visited
<1>10. CallInv'
  <2>1. \A t \in Searches, m, l \in Peers : /\ thread[t][m][l] = "calling" => thread'[t][m][l] = "calling"
                                            /\ thread[t][m][l] \in {"answered", "joined"} =>
                                                 thread'[t][m][l] \in {"answered", "joined"}
    BY <1>2, <1>3
  <2>2. \A t \in Searches, m \in Peers : phase[t][m] = "closed" => response'[t][m] = response[t][m]
    BY <1>4, <1>5
  <2> QED BY <1>2, <2>1, <2>2 DEF FaultFree, CallInv, ClientInv, Visited
<1>11. AnswerInv' /\ NoNull'
  BY <1>2, <1>3, <1>4 DEF FaultFree, AnswerInv, NoNull, Visited
<1>12. PathInv'
  <2>1. \A t \in Searches, m \in Peers : Promising(t, m)' <=> Promising(t, m)
    BY <1>2, <1>4, <1>5 DEF Promising, Visited
  <2> QED BY <1>2, <2>1 DEF FaultFree, PathInv, ClientInv, Promising
<1>13. RootInv' /\ ResultInv'
  <2>1. \A t \in Searches : Origin[t] \in Peers
    BY SearchAssumption
  <2> QED BY <1>2, <1>4, <1>5, <2>1 DEF FaultFree, RootInv, ResultInv, Visited
<1> QED BY <1>7, <1>8, <1>9, <1>10, <1>11, <1>12, <1>13 DEF FaultFree

\* The oldest request is taken from an inbox.
LEMMA TakenFacts ==
  ASSUME TypeOK, FaultFree, NEW n \in Peers, NEW r \in Requests, NEW s \in Searches,
         NEW c \in Peers, DequeueCells(n, r, s, c)
  PROVE  /\ thread[s][c][n] = "calling" /\ r = [search |-> s, from |-> c]
         /\ r \in Pending(n) /\ r \notin Pending(n)'
         /\ \A m \in Peers : EachOnce(m)'
         /\ \A m \in Peers : \A x \in Pending(m)' :
              /\ x \in Pending(m)
              /\ x \in Requests /\ x.search \in Searches /\ x.from \in Peers
              /\ thread[x.search][x.from][m] = "calling"
              /\ x.search = s /\ x.from = c => m # n
<1>1. r \in Pending(n) /\ r = [search |-> s, from |-> c]
  BY DEF DequeueCells
<1>2. thread[s][c][n] = "calling"
  BY <1>1 DEF FaultFree, WaitInv
<1>3. r \notin Pending(n)' /\ \A m \in Peers : EachOnce(m)'
  BY DEF FaultFree, OnceInv, DequeueCells
<1>4. ASSUME NEW m \in Peers, NEW x \in Pending(m)'
      PROVE  /\ x \in Pending(m)
             /\ x \in Requests /\ x.search \in Searches /\ x.from \in Peers
             /\ thread[x.search][x.from][m] = "calling"
             /\ x.search = s /\ x.from = c => m # n
  <2>1. x \in Pending(m)
    BY <1>4 DEF DequeueCells
  <2>2. x \in Requests /\ x.search \in Searches /\ x.from \in Peers
    BY <2>1, PendingType
  <2>3. thread[x.search][x.from][m] = "calling"
    BY <2>1 DEF FaultFree, WaitInv
  <2>4. x.search = s /\ x.from = c => x = r
    BY <1>1, <2>2 DEF Requests
  <2> QED BY <2>1, <2>2, <2>3, <2>4, <1>3, <1>4
<1> QED BY <1>1, <1>2, <1>3, <1>4

LEMMA DuplicateStep ==
  ASSUME TypeOK, SeenInv, ClientInv, FaultFree, Grows, up = Peers,
         NEW n \in Peers, NEW r \in Requests, Duplicate(n, r)
  PROVE  FaultFree'
<1>1. PICK s \in Searches, c \in Peers : DuplicateCells(n, r, s, c)
  BY DuplicateEffect
<1>2. DequeueCells(n, r, s, c) /\ UNCHANGED <<phase, client, response, status, result, file_set>>
  BY <1>1 DEF DuplicateCells
<1>3. thread'[s][c][n] = "answered" /\ answer'[s][c][n] = Dup /\ Dup \notin Peers /\ Dup # Null
  BY <1>1, SearchAssumption DEF DuplicateCells, ReplyCells
<1>4. \A t \in Searches, m, l \in Peers : ~(t = s /\ m = c /\ l = n) =>
        thread'[t][m][l] = thread[t][m][l] /\ answer'[t][m][l] = answer[t][m][l]
  BY <1>1 DEF DuplicateCells, ReplyCells
<1>5. thread[s][c][n] = "calling" /\ r = [search |-> s, from |-> c] /\ r \in Pending(n)
  BY <1>2, TakenFacts
<1>6. WaitInv'
  BY <1>2, <1>4, TakenFacts DEF WaitInv
<1>7. OnceInv' /\ TakenInv'
  BY <1>2, TakenFacts DEF FaultFree, OnceInv, TakenInv
<1>8. BroadcastInv'
  BY <1>2, <1>3, <1>4, <1>5, AskedStays DEF FaultFree, BroadcastInv, Visited
<1>9. CallInv'
  <2>1. ~(Visited(s, n) /\ n # Origin[s] /\ client[s][n] = c)
    <3>1. phase[s][n] \in {"none", "open", "closed"}
      BY DEF TypeOK
    <3>2. n # Origin[s] /\ client[s][n] = c => phase[s][n] # "open"
      BY <1>5 DEF FaultFree, TakenInv
    <3>3. n # Origin[s] /\ client[s][n] = c => phase[s][n] # "closed"
      BY <1>5 DEF FaultFree, CallInv, Visited
    <3> QED BY <3>1, <3>2, <3>3 DEF Visited
  <2>2. \A t \in Searches, m, l \in Peers : ~(t = s /\ m = c /\ l = n) =>
          thread'[t][m][l] = thread[t][m][l] /\ answer'[t][m][l] = answer[t][m][l]
    BY <1>4
  <2> QED BY SMTT(30), <1>2, <2>1, <2>2 DEF FaultFree, CallInv, ClientInv, Visited
<1>10. AnswerInv' /\ NoNull'
  BY <1>2, <1>3, <1>4 DEF FaultFree, AnswerInv, NoNull, Visited
<1>11. PathInv' /\ RootInv' /\ ResultInv'
  BY <1>2 DEF FaultFree, PathInv, RootInv, ResultInv, Promising, Visited
<1> QED BY <1>6, <1>7, <1>8, <1>9, <1>10, <1>11 DEF FaultFree

\* A new visitor is nobody's client yet, and leads to the origin as its own client does.
LEMMA RootNewVisit ==
  ASSUME ClientInv, RootInv, NEW s \in Searches, NEW n \in Peers, NEW c \in Peers,
         ~Visited(s, n), Visited(s, c),
         \A t \in Searches, m \in Peers :
           ~(t = s /\ m = n) => phase'[t][m] = phase[t][m] /\ client'[t][m] = client[t][m],
         client'[s][n] = c
  PROVE  RootInv'
<1> SUFFICES ASSUME NEW t \in Searches, NEW S \in SUBSET Peers,
                    \E m \in S : Visited(t, m)',
                    \A m \in S : Visited(t, m)' /\ client'[t][m] \in S
             PROVE  Origin[t] \in S
  BY DEF RootInv
<1>1. CASE t = s /\ n \in S
  <2> DEFINE R == S \ {n}
  <2>1. c \in R
    BY <1>1
  <2>2. \A m \in R : Visited(s, m) /\ client[s][m] \in S
    BY <1>1 DEF Visited
  <2>3. \A m \in R : client[s][m] # n
    BY <2>2 DEF ClientInv
  <2>4. \A m \in R : Visited(s, m) /\ client[s][m] \in R
    BY <2>2, <2>3
  <2>5. R \in SUBSET Peers /\ \E m \in R : Visited(s, m)
    BY <2>1
  <2> HIDE DEF R
  <2>6. Origin[s] \in R
    BY <2>4, <2>5 DEF RootInv
  <2> QED BY <2>6, <1>1 DEF R
<1>2. CASE ~(t = s /\ n \in S)
  <2>1. \A m \in S : Visited(t, m) /\ client[t][m] \in S
    BY <1>2 DEF Visited
  <2> QED BY <2>1 DEF RootInv
<1> QED BY <1>1, <1>2

LEMMA HitStep ==
  ASSUME TypeOK, SeenInv, ClientInv, FaultFree, Grows, up = Peers,
         NEW n \in Peers, NEW r \in Requests, Hit(n, r)
  PROVE  FaultFree'
<1>1. PICK s \in Searches, c \in Peers : HitCells(n, r, s, c)
  BY HitEffect
<1>2. /\ FreshCells(n, r, s, c) /\ DequeueCells(n, r, s, c)
      /\ UNCHANGED <<status, result, file_set>>
  BY <1>1 DEF HitCells, FreshCells
<1>3. thread'[s][c][n] = "answered" /\ answer'[s][c][n] = n
  BY <1>1 DEF HitCells, ReplyCells
<1>4. \A t \in Searches, m, l \in Peers : ~(t = s /\ m = c /\ l = n) =>
        thread'[t][m][l] = thread[t][m][l] /\ answer'[t][m][l] = answer[t][m][l]
  BY <1>1 DEF HitCells, ReplyCells
<1>5. thread[s][c][n] = "calling" /\ r = [search |-> s, from |-> c] /\ r \in Pending(n)
  BY <1>2, TakenFacts
<1>6. ~Visited(s, n) /\ Visited(s, c) /\ n # Origin[s] /\ c # n
  BY <1>2, FreshFacts
<1>7. phase'[s][n] = "closed" /\ client'[s][n] = c /\ response'[s][n] = n
  BY <1>1 DEF HitCells
<1>8. \A t \in Searches, m \in Peers : ~(t = s /\ m = n) =>
        phase'[t][m] = phase[t][m] /\ client'[t][m] = client[t][m] /\ response'[t][m] = response[t][m]
  BY <1>1 DEF HitCells
<1>9. Null \notin Peers /\ \A t \in Searches : Origin[t] \in Peers
  BY SearchAssumption
<1>10. WaitInv'
  BY <1>2, <1>4, TakenFacts DEF WaitInv
<1>11. OnceInv' /\ TakenInv'
  BY <1>2, <1>7, <1>8, TakenFacts DEF FaultFree, OnceInv, TakenInv
<1>12. BroadcastInv'
  <2>1. \A k \in Peers : thread'[s][n][k] = "off"
    BY <1>4, <1>6 DEF SeenInv, ThreadInv
  <2>2. Wanted[s] \in file_set'[n]
    BY <1>1, <1>2 DEF HitCells
  <2>3. Asked(s, n)'
    BY <1>7, <2>1, <2>2 DEF Asked, Joined
  <2>4. \A t \in Searches, m \in Peers : ~(t = s /\ m = n) /\ Visited(t, m)' => Asked(t, m)'
    BY <1>2, <1>3, <1>4, <1>5, <1>8, AskedStays DEF FaultFree, BroadcastInv, Visited
  <2> QED BY <2>3, <2>4 DEF BroadcastInv
<1>13. CallInv'
  <2> SUFFICES ASSUME NEW t \in Searches, NEW m \in Peers, Visited(t, m)', m # Origin[t]
               PROVE  /\ phase'[t][m] = "open" => thread'[t][client'[t][m]][m] = "calling"
                      /\ phase'[t][m] = "closed" =>
                           /\ thread'[t][client'[t][m]][m] \in {"answered", "joined"}
                           /\ answer'[t][client'[t][m]][m] = response'[t][m]
    BY DEF CallInv
  <2>1. CASE t = s /\ m = n
    BY <2>1, <1>3, <1>7
  <2>2. CASE ~(t = s /\ m = n)
    <3>1. Visited(t, m) /\ client[t][m] \in Peers
      BY <2>2, <1>8 DEF Visited, ClientInv
    <3> QED BY SMTT(30), <2>2, <3>1, <1>4, <1>8 DEF FaultFree, CallInv
  <2> QED BY <2>1, <2>2
<1>14. AnswerInv' /\ NoNull'
  <2>1. Visited(s, n)'
    BY <1>7 DEF Visited
  <2>2. AnswerInv'
    BY <1>3, <1>4, <2>1 DEF FaultFree, AnswerInv, Grows
  <2>3. NoNull'
    BY <1>3, <1>4, <1>7, <1>8, <1>9 DEF FaultFree, NoNull
  <2> QED BY <2>2, <2>3
<1>15. PathInv'
  <2>1. phase[s][c] = "open"
    <3>1. phase[s][c] \in {"none", "open", "closed"}
      BY DEF TypeOK
    <3>2. ~Joined(s, c)
      BY <1>5 DEF Joined
    <3> QED BY <1>6, <3>1, <3>2 DEF FaultFree, BroadcastInv, Asked, Visited
  <2>2. Promising(s, c)'
    BY <1>6, <1>8, <2>1 DEF Promising, Visited
  <2>3. \A t \in Searches, m \in Peers : ~(t = s /\ m = n) => (Promising(t, m)' <=> Promising(t, m))
    BY <1>8 DEF Promising, Visited
  <2>4. \A t \in Searches, m \in Peers : Visited(t, m) => client[t][m] \in Peers /\ Visited(t, client[t][m])
    BY DEF ClientInv
  <2>5. ASSUME NEW t \in Searches, NEW m \in Peers, Promising(t, m)', ~(t = s /\ m = n),
               NEW k, k = client[t][m]
        PROVE  Promising(t, k)'
    <3>1. Promising(t, m)
      BY <2>3, <2>5
    <3>2. k \in Peers /\ Visited(t, k) /\ Promising(t, k)
      BY <2>4, <2>5, <3>1 DEF FaultFree, PathInv, Promising
    <3>3. ~(t = s /\ k = n)
      BY <1>6, <3>2
    <3> QED BY <2>3, <3>2, <3>3
  <2> QED BY <1>7, <1>8, <2>2, <2>5 DEF PathInv
<1>16. RootInv'
  BY <1>6, <1>7, <1>8, RootNewVisit DEF FaultFree
<1>17. ResultInv'
  BY <1>2, <1>6, <1>8, <1>9 DEF FaultFree, ResultInv
<1> QED BY <1>10, <1>11, <1>12, <1>13, <1>14, <1>15, <1>16, <1>17 DEF FaultFree

LEMMA ForwardStep ==
  ASSUME TypeOK, SeenInv, ClientInv, FaultFree, Grows, up = Peers,
         NEW n \in Peers, NEW r \in Requests, Forward(n, r)
  PROVE  FaultFree'
<1>1. PICK s \in Searches, c \in Peers : ForwardCells(n, r, s, c)
  BY ForwardEffect
<1>2. /\ FreshCells(n, r, s, c) /\ DequeueCells(n, r, s, c)
      /\ UNCHANGED <<status, result, file_set, answer>>
  BY <1>1 DEF ForwardCells, FreshCells
<1>3. \A k \in Peers : thread'[s][n][k] = IF k \in Neighbors[n] \ {c} THEN "spawned" ELSE "off"
  BY <1>1 DEF ForwardCells, BroadcastCells
<1>4. \A t \in Searches, m, l \in Peers : ~(t = s /\ m = n) =>
        thread'[t][m][l] = thread[t][m][l]
  BY <1>1 DEF ForwardCells, BroadcastCells
<1>5. thread[s][c][n] = "calling" /\ r = [search |-> s, from |-> c] /\ r \in Pending(n)
  BY <1>2, TakenFacts
<1>6. ~Visited(s, n) /\ Visited(s, c) /\ n # Origin[s] /\ c # n
  BY <1>2, FreshFacts
<1>7. phase'[s][n] = "open" /\ client'[s][n] = c /\ response'[s][n] = Dup
  BY <1>1 DEF ForwardCells, BroadcastCells
<1>8. \A t \in Searches, m \in Peers : ~(t = s /\ m = n) =>
        phase'[t][m] = phase[t][m] /\ client'[t][m] = client[t][m] /\ response'[t][m] = response[t][m]
  BY <1>1 DEF ForwardCells, BroadcastCells
<1>9. Null \notin Peers /\ Dup # Null /\ Dup \notin Peers /\ \A t \in Searches : Origin[t] \in Peers
  BY SearchAssumption
<1>10. WaitInv'
  <2>1. \A m \in Peers : \A x \in Pending(m) : Visited(x.search, x.from)
    BY DEF SeenInv, AskedInv
  <2> QED BY <1>2, <1>4, <1>6, <2>1, TakenFacts DEF WaitInv
<1>11. OnceInv' /\ TakenInv'
  <2>1. OnceInv'
    BY <1>2, TakenFacts DEF OnceInv
  <2>2. [search |-> s, from |-> c] \notin Pending(n)'
    BY <1>2, <1>5, TakenFacts
  <2>3. \A m \in Peers : \A x \in Pending(m)' : x \in Pending(m)
    BY <1>2, TakenFacts
  <2> QED BY <1>7, <1>8, <2>1, <2>2, <2>3 DEF FaultFree, TakenInv
<1>12. BroadcastInv'
  <2>1. Asked(s, n)'
    <3>1. Wanted[s] \notin file_set'[n] /\ Neighbors[n] \subseteq Peers
      BY <1>1, <1>2, SearchAssumption DEF ForwardCells
    <3>2. \A k \in Neighbors[n] : k = c \/ thread'[s][n][k] # "off"
      BY <1>3, <3>1
    <3>3. \A k \in Peers : thread'[s][n][k] # "joined"
      BY <1>3
    <3> QED BY <1>7, <3>1, <3>2, <3>3 DEF Asked
  <2>2. \A t \in Searches, m \in Peers : ~(t = s /\ m = n) /\ Visited(t, m)' => Asked(t, m)'
    BY <1>2, <1>4, <1>8, AskedStays DEF FaultFree, BroadcastInv, Visited
  <2> QED BY <2>1, <2>2 DEF BroadcastInv
<1>13. CallInv'
  <2> SUFFICES ASSUME NEW t \in Searches, NEW m \in Peers, Visited(t, m)', m # Origin[t]
               PROVE  /\ phase'[t][m] = "open" => thread'[t][client'[t][m]][m] = "calling"
                      /\ phase'[t][m] = "closed" =>
                           /\ thread'[t][client'[t][m]][m] \in {"answered", "joined"}
                           /\ answer'[t][client'[t][m]][m] = response'[t][m]
    BY DEF CallInv
  <2>1. CASE t = s /\ m = n
    BY <2>1, <1>4, <1>5, <1>6, <1>7
  <2>2. CASE ~(t = s /\ m = n)
    <3>1. Visited(t, m) /\ client[t][m] \in Peers /\ Visited(t, client[t][m])
      BY <2>2, <1>8 DEF Visited, ClientInv
    <3>2. ~(t = s /\ client[t][m] = n)
      BY <3>1, <1>6
    <3> QED BY SMTT(30), <2>2, <3>1, <3>2, <1>2, <1>4, <1>8 DEF FaultFree, CallInv
  <2> QED BY <2>1, <2>2
<1>14. AnswerInv' /\ NoNull'
  <2>1. AnswerInv'
    BY <1>2, <1>3, <1>4 DEF FaultFree, AnswerInv, Grows
  <2>2. NoNull'
    BY <1>2, <1>7, <1>8, <1>9 DEF FaultFree, NoNull
  <2> QED BY <2>1, <2>2
<1>15. PathInv'
  <2>1. phase[s][c] = "open"
    <3>1. phase[s][c] \in {"none", "open", "closed"}
      BY DEF TypeOK
    <3>2. ~Joined(s, c)
      BY <1>5 DEF Joined
    <3> QED BY <1>6, <3>1, <3>2 DEF FaultFree, BroadcastInv, Asked, Visited
  <2>2. Promising(s, c)'
    BY <1>6, <1>8, <2>1 DEF Promising, Visited
  <2>3. \A t \in Searches, m \in Peers : ~(t = s /\ m = n) => (Promising(t, m)' <=> Promising(t, m))
    BY <1>8 DEF Promising, Visited
  <2>4. \A t \in Searches, m \in Peers : Visited(t, m) => client[t][m] \in Peers /\ Visited(t, client[t][m])
    BY DEF ClientInv
  <2>5. ASSUME NEW t \in Searches, NEW m \in Peers, Promising(t, m)', ~(t = s /\ m = n),
               NEW k, k = client[t][m]
        PROVE  Promising(t, k)'
    <3>1. Promising(t, m)
      BY <2>3, <2>5
    <3>2. k \in Peers /\ Visited(t, k) /\ Promising(t, k)
      BY <2>4, <2>5, <3>1 DEF FaultFree, PathInv, Promising
    <3>3. ~(t = s /\ k = n)
      BY <1>6, <3>2
    <3> QED BY <2>3, <3>2, <3>3
  <2> QED BY <1>7, <1>8, <2>2, <2>5 DEF PathInv
<1>16. RootInv'
  BY <1>6, <1>7, <1>8, RootNewVisit DEF FaultFree
<1>17. ResultInv'
  BY <1>2, <1>6, <1>8, <1>9 DEF FaultFree, ResultInv
<1> QED BY <1>10, <1>11, <1>12, <1>13, <1>14, <1>15, <1>16, <1>17 DEF FaultFree

\* A peer that closes with no holder to name has nobody below it that could name one.
LEMMA PathClosing ==
  ASSUME TypeOK, ClientInv, FaultFree, NEW s \in Searches, NEW n \in Peers,
         Visited(s, n), Joined(s, n), client' = client, response' = response,
         phase'[s][n] = "closed",
         \A t \in Searches, m \in Peers : ~(t = s /\ m = n) => phase'[t][m] = phase[t][m],
         client[s][n] # n => phase[s][client[s][n]] = "open"
  PROVE  PathInv'
<1>1. \A t \in Searches, m \in Peers : ~(t = s /\ m = n) => (Promising(t, m)' <=> Promising(t, m))
  BY DEF Promising, Visited
<1>2. \A t \in Searches, m \in Peers :
        Visited(t, m) => client[t][m] \in Peers /\ Visited(t, client[t][m])
  BY DEF ClientInv
<1>3. Promising(s, n)' <=> response[s][n] \in Peers
  BY DEF Promising, Visited
<1>4. ASSUME NEW m \in Peers, m # n, Promising(s, m), client[s][m] = n
      PROVE  response[s][n] \in Peers
  <2>1. Visited(s, m) /\ m # Origin[s]
    BY <1>4 DEF Promising, ClientInv
  <2>2. phase[s][m] # "open"
    <3>1. phase[s][m] = "open" => thread[s][n][m] = "calling"
      BY <1>4, <2>1 DEF FaultFree, CallInv
    <3> QED BY <3>1 DEF Joined
  <2>3. phase[s][m] = "closed" /\ response[s][m] \in Peers
    BY <1>4, <2>2 DEF Promising, Visited, TypeOK
  <2>4. thread[s][n][m] \in {"answered", "joined"} /\ answer[s][n][m] = response[s][m]
    BY <1>4, <2>1, <2>3 DEF FaultFree, CallInv
  <2>5. thread[s][n][m] = "joined"
    BY <2>4 DEF Joined
  <2> QED BY <2>3, <2>4, <2>5 DEF FaultFree, BroadcastInv, Asked
<1> SUFFICES ASSUME NEW t \in Searches, NEW m \in Peers, Promising(t, m)', NEW k, k = client[t][m]
             PROVE  Promising(t, k)'
  BY DEF PathInv
<1>5. CASE t = s /\ m = n
  <2>1. k # n => phase[s][k] = "open" /\ k \in Peers
    BY <1>2, <1>5
  <2>2. k # n => Promising(s, k)'
    BY <2>1 DEF Promising, Visited
  <2> QED BY <1>5, <2>2
<1>6. CASE ~(t = s /\ m = n)
  <2>1. Promising(t, m)
    BY <1>1, <1>6
  <2>2. Promising(t, k) /\ k \in Peers
    BY <1>2, <2>1 DEF FaultFree, PathInv, Promising
  <2>3. CASE t = s /\ k = n
    BY <1>3, <1>4, <1>6, <2>1, <2>3
  <2> QED BY <1>1, <2>2, <2>3
<1> QED BY <1>5, <1>6

LEMMA AnswerStep ==
  ASSUME TypeOK, SeenInv, ClientInv, FaultFree, Grows, up = Peers,
         NEW s \in Searches, NEW n \in Peers, ForwardResponse(s, n)
  PROVE  FaultFree'
<1>1. PICK c \in Peers : AnswerCells(s, n, c)
  BY AnswerEffect
<1>2. /\ UNCHANGED <<status, result, file_set, client, response, inbox>>
      /\ n # Origin[s] /\ phase[s][n] = "open" /\ Joined(s, n) /\ c = client[s][n]
  BY <1>1 DEF AnswerCells
<1>3. /\ thread'[s][c][n] = "answered" /\ answer'[s][c][n] = response[s][n]
      /\ \A t \in Searches, m, l \in Peers : ~(t = s /\ m = c /\ l = n) =>
           thread'[t][m][l] = thread[t][m][l] /\ answer'[t][m][l] = answer[t][m][l]
  BY <1>1 DEF AnswerCells, ReplyCells
<1>4. phase'[s][n] = "closed"
      /\ \A t \in Searches, m \in Peers : ~(t = s /\ m = n) => phase'[t][m] = phase[t][m]
  BY <1>1 DEF AnswerCells
<1>5. thread[s][c][n] = "calling" /\ Visited(s, n) /\ Visited(s, c)
  BY <1>2 DEF FaultFree, CallInv, ClientInv, Visited
<1>6. c # n /\ phase[s][c] = "open"
  <2>1. ~Joined(s, c)
    BY <1>5 DEF Joined
  <2> QED BY <1>2, <1>5, <2>1 DEF FaultFree, BroadcastInv, Asked, Visited, TypeOK
<1>7. \A m \in Peers : Pending(m)' = Pending(m) /\ EachOnce(m)' = EachOnce(m)
  BY <1>2 DEF Pending, EachOnce
<1>8. WaitInv'
  <2>1. [search |-> s, from |-> c] \notin Pending(n)
    BY <1>2 DEF FaultFree, TakenInv
  <2> SUFFICES ASSUME NEW m \in Peers, NEW x \in Pending(m)
               PROVE  thread'[x.search][x.from][m] = "calling"
    BY <1>7 DEF WaitInv
  <2>2. x \in Requests /\ x.search \in Searches /\ x.from \in Peers
        /\ thread[x.search][x.from][m] = "calling"
    BY PendingType DEF FaultFree, WaitInv
  <2>3. x.search = s /\ x.from = c => x = [search |-> s, from |-> c]
    BY <2>2 DEF Requests
  <2> QED BY <1>3, <2>1, <2>2, <2>3
<1>9. OnceInv' /\ TakenInv'
  BY <1>2, <1>4, <1>7 DEF FaultFree, OnceInv, TakenInv
<1>10. BroadcastInv'
  <2>1. Asked(s, n)'
    <3>1. Asked(s, n) /\ Wanted[s] \notin file_set[n]
      BY <1>2, <1>5 DEF FaultFree, BroadcastInv, Asked
    <3>2. \A k \in Peers : thread'[s][n][k] = thread[s][n][k] /\ answer'[s][n][k] = answer[s][n][k]
      BY <1>3, <1>6
    <3>3. Neighbors[n] \subseteq Peers
      BY SearchAssumption
    <3> QED BY <1>2, <1>4, <3>1, <3>2, <3>3 DEF Asked, Joined
  <2>2. \A t \in Searches, m \in Peers : ~(t = s /\ m = n) /\ Visited(t, m)' => Asked(t, m)'
    BY <1>2, <1>3, <1>4, <1>5, AskedStays DEF FaultFree, BroadcastInv, Visited
  <2> QED BY <2>1, <2>2 DEF BroadcastInv
<1>11. CallInv'
  <2> SUFFICES ASSUME NEW t \in Searches, NEW m \in Peers, Visited(t, m)', m # Origin[t]
               PROVE  /\ phase'[t][m] = "open" => thread'[t][client[t][m]][m] = "calling"
                      /\ phase'[t][m] = "closed" =>
                           /\ thread'[t][client[t][m]][m] \in {"answered", "joined"}
                           /\ answer'[t][client[t][m]][m] = response[t][m]
    BY <1>2 DEF CallInv
  <2>1. CASE t = s /\ m = n
    BY <2>1, <1>2, <1>3, <1>4
  <2>2. CASE ~(t = s /\ m = n)
    <3>1. Visited(t, m) /\ client[t][m] \in Peers
      BY <2>2, <1>4 DEF Visited, ClientInv
    <3> QED BY <2>2, <3>1, <1>3, <1>4 DEF FaultFree, CallInv
  <2> QED BY <2>1, <2>2
<1>12. AnswerInv' /\ NoNull'
  <2>1. AnswerInv'
    BY <1>3, <1>5 DEF FaultFree, AnswerInv, Grows
  <2>2. NoNull'
    BY <1>2, <1>3 DEF FaultFree, NoNull
  <2> QED BY <2>1, <2>2
<1>13. PathInv'
  BY <1>2, <1>4, <1>5, <1>6, PathClosing
<1>14. RootInv'
  BY <1>2, <1>4, <1>5 DEF FaultFree, RootInv, Visited
<1>15. ResultInv'
  <2>1. \A t \in Searches : Origin[t] \in Peers
    BY SearchAssumption
  <2>2. \A t \in Searches : phase[t][Origin[t]] = "closed" => phase'[t][Origin[t]] = "closed"
    BY <1>4, <2>1
  <2> QED BY <1>2, <2>2 DEF FaultFree, ResultInv
<1> QED BY <1>8, <1>9, <1>10, <1>11, <1>12, <1>13, <1>14, <1>15 DEF FaultFree

LEMMA StartStep ==
  ASSUME TypeOK, SeenInv, ClientInv, FaultFree, Grows, NEW s \in Searches, StartSearch(s)
  PROVE  FaultFree'
<1> DEFINE n == Origin[s]
<1>1. StartCells(s, n) /\ n \in Peers
  BY StartEffect DEF StartCells
<1>2. /\ UNCHANGED <<result, file_set, answer, inbox>>
      /\ Wanted[s] \notin file_set[n] /\ status[s] = "new"
      /\ \A t \in Searches : status'[t] = IF t = s THEN "open" ELSE status[t]
  BY <1>1 DEF StartCells
<1>3. \A m \in Peers : ~Visited(s, m)
  BY <1>2 DEF SeenInv, RecordedInv
<1>4. \A k \in Peers : thread'[s][n][k] = IF k \in Neighbors[n] \ {n} THEN "spawned" ELSE "off"
  BY <1>1 DEF StartCells, BroadcastCells
<1>5. \A t \in Searches, m, l \in Peers : ~(t = s /\ m = n) =>
        thread'[t][m][l] = thread[t][m][l]
  BY <1>1 DEF StartCells, BroadcastCells
<1>6. phase'[s][n] = "open" /\ client'[s][n] = n /\ response'[s][n] = Dup
  BY <1>1 DEF StartCells, BroadcastCells
<1>7. \A t \in Searches, m \in Peers : ~(t = s /\ m = n) =>
        phase'[t][m] = phase[t][m] /\ client'[t][m] = client[t][m] /\ response'[t][m] = response[t][m]
  BY <1>1 DEF StartCells, BroadcastCells
<1>8. Dup # Null /\ \A t \in Searches : Origin[t] \in Peers
  BY SearchAssumption
<1>9. n = Origin[s]
  OBVIOUS
<1> HIDE DEF n
<1>10. \A m \in Peers : Pending(m)' = Pending(m) /\ EachOnce(m)' = EachOnce(m)
  BY <1>2 DEF Pending, EachOnce
<1>11. WaitInv'
  <2>1. \A m \in Peers : \A x \in Pending(m) :
          x.search \in Searches /\ x.from \in Peers /\ x.search # s
          /\ thread[x.search][x.from][m] = "calling"
    BY <1>3, PendingType DEF FaultFree, WaitInv, SeenInv, AskedInv
  <2> QED BY <1>5, <1>10, <2>1 DEF WaitInv
<1>12. OnceInv' /\ TakenInv'
  BY <1>7, <1>9, <1>10 DEF FaultFree, OnceInv, TakenInv
<1>13. BroadcastInv'
  <2>1. Asked(s, n)'
    <3>1. Wanted[s] \notin file_set'[n] /\ Neighbors[n] \subseteq Peers
      BY <1>1, <1>2, SearchAssumption
    <3>2. \A k \in Neighbors[n] : k = n \/ thread'[s][n][k] # "off"
      BY <1>4, <3>1
    <3>3. \A k \in Peers : thread'[s][n][k] # "joined"
      BY <1>4
    <3> QED BY <1>6, <3>1, <3>2, <3>3 DEF Asked
  <2>2. \A t \in Searches, m \in Peers : ~(t = s /\ m = n) /\ Visited(t, m)' => Asked(t, m)'
    BY <1>2, <1>5, <1>7, AskedStays DEF FaultFree, BroadcastInv, Visited
  <2> QED BY <2>1, <2>2 DEF BroadcastInv
<1>14. CallInv'
  <2> SUFFICES ASSUME NEW t \in Searches, NEW m \in Peers, Visited(t, m)', m # Origin[t]
               PROVE  /\ phase'[t][m] = "open" => thread'[t][client'[t][m]][m] = "calling"
                      /\ phase'[t][m] = "closed" =>
                           /\ thread'[t][client'[t][m]][m] \in {"answered", "joined"}
                           /\ answer'[t][client'[t][m]][m] = response'[t][m]
    BY DEF CallInv
  <2>1. ~(t = s /\ m = n)
    BY <1>9
  <2>2. Visited(t, m) /\ client[t][m] \in Peers /\ t # s
    BY <2>1, <1>3, <1>7 DEF Visited, ClientInv
  <2> QED BY <2>1, <2>2, <1>2, <1>5, <1>7 DEF FaultFree, CallInv
<1>15. AnswerInv' /\ NoNull'
  <2>1. AnswerInv'
    BY <1>2, <1>4, <1>5 DEF FaultFree, AnswerInv, Grows
  <2>2. NoNull'
    BY <1>2, <1>6, <1>7, <1>8 DEF FaultFree, NoNull
  <2> QED BY <2>1, <2>2
<1>16. PathInv'
  <2>1. Promising(s, n)'
    BY <1>6 DEF Promising, Visited
  <2>2. \A t \in Searches, m \in Peers : t # s => (Promising(t, m)' <=> Promising(t, m))
    BY <1>7 DEF Promising, Visited
  <2>3. \A m \in Peers : Promising(s, m)' => m = n
    BY <1>3, <1>7 DEF Promising, Visited
  <2>4. ASSUME NEW t \in Searches, NEW m \in Peers, Promising(t, m)', t # s,
               NEW k, k = client[t][m]
        PROVE  Promising(t, k)'
    <3>1. k \in Peers /\ Promising(t, k)
      BY <2>2, <2>4 DEF FaultFree, PathInv, ClientInv, Promising
    <3> QED BY <2>2, <2>4, <3>1
  <2> QED BY <1>6, <1>7, <2>1, <2>3, <2>4 DEF PathInv
<1>17. RootInv'
  <2> SUFFICES ASSUME NEW t \in Searches, NEW S \in SUBSET Peers,
                      \E m \in S : Visited(t, m)',
                      \A m \in S : Visited(t, m)' /\ client'[t][m] \in S
               PROVE  Origin[t] \in S
    BY DEF RootInv
  <2>1. CASE t = s
    BY <2>1, <1>3, <1>7, <1>9 DEF Visited
  <2>2. CASE t # s
    <3>1. \A m \in S : Visited(t, m) /\ client[t][m] \in S
      BY <2>2, <1>7 DEF Visited
    <3> QED BY <3>1 DEF FaultFree, RootInv
  <2> QED BY <2>1, <2>2
<1>18. ResultInv'
  BY <1>2, <1>7, <1>8 DEF FaultFree, ResultInv
<1> QED BY <1>11, <1>12, <1>13, <1>14, <1>15, <1>16, <1>17, <1>18 DEF FaultFree

LEMMA FinishStep ==
  ASSUME TypeOK, SeenInv, ClientInv, FaultFree, Grows, NEW s \in Searches, FinishSearch(s)
  PROVE  FaultFree'
<1> DEFINE n == Origin[s]
<1>1. FinishCells(s, n) /\ n \in Peers
  BY FinishEffect DEF FinishCells
<1>2. /\ UNCHANGED <<file_set, client, response, thread, answer, inbox>>
      /\ Joined(s, n)
      /\ phase'[s][n] = "closed"
      /\ \A t \in Searches, m \in Peers : ~(t = s /\ m = n) => phase'[t][m] = phase[t][m]
      /\ \A t \in Searches : t # s => status'[t] = status[t] /\ result'[t] = result[t]
      /\ result'[s] = IF response[s][n] \in Peers THEN response[s][n] ELSE NoPeer
  BY <1>1 DEF FinishCells
<1>3. phase[s][n] = "open" /\ Visited(s, n) /\ client[s][n] = n
  BY <1>1 DEF FinishCells, SeenInv, OpenInv, ClientInv, Visited
<1>4. NoPeer \notin Peers /\ \A t \in Searches : Origin[t] \in Peers
  BY SearchAssumption
<1>5. n = Origin[s]
  OBVIOUS
<1> HIDE DEF n
<1>6. \A m \in Peers : Pending(m)' = Pending(m) /\ EachOnce(m)' = EachOnce(m)
  BY <1>2 DEF Pending, EachOnce
<1>7. WaitInv' /\ OnceInv'
  BY <1>2, <1>6 DEF FaultFree, WaitInv, OnceInv
<1>8. TakenInv'
  BY <1>2, <1>6 DEF FaultFree, TakenInv
<1>9. \A t \in Searches, m \in Peers : Visited(t, m)' <=> Visited(t, m)
  BY <1>2, <1>3 DEF Visited
<1>10. BroadcastInv'
  <2>1. Asked(s, n)'
    BY <1>1, <1>2, <1>3 DEF FaultFree, BroadcastInv, Asked, Joined
  <2>2. \A t \in Searches, m \in Peers : ~(t = s /\ m = n) /\ Visited(t, m)' => Asked(t, m)'
    BY <1>2, <1>9, AskedStays DEF FaultFree, BroadcastInv
  <2> QED BY <2>1, <2>2 DEF BroadcastInv
<1>11. CallInv'
  BY <1>2, <1>5, <1>9 DEF FaultFree, CallInv
<1>12. AnswerInv' /\ NoNull'
  BY <1>2, <1>9 DEF FaultFree, AnswerInv, NoNull
<1>13. PathInv'
  BY <1>1, <1>2, <1>3, PathClosing
<1>14. RootInv'
  BY <1>2, <1>9 DEF FaultFree, RootInv
<1>15. ResultInv'
  BY <1>2, <1>4, <1>5 DEF FaultFree, ResultInv
<1> QED BY <1>7, <1>8, <1>10, <1>11, <1>12, <1>13, <1>14, <1>15 DEF FaultFree

\* Steps that leave the tables alone.
LEMMA IdleStep ==
  ASSUME FaultFree, UNCHANGED <<file_set, inbox, phase, client, thread, answer, response>>,
         ResultInv'
  PROVE  FaultFree'
<1>1. \A m \in Peers : Pending(m)' = Pending(m) /\ EachOnce(m)' = EachOnce(m)
  BY DEF Pending, EachOnce
<1>2. WaitInv' /\ OnceInv' /\ TakenInv'
  BY <1>1 DEF FaultFree, WaitInv, OnceInv, TakenInv
<1>3. BroadcastInv' /\ CallInv' /\ AnswerInv' /\ NoNull'
  BY DEF FaultFree, BroadcastInv, Asked, Joined, CallInv, AnswerInv, NoNull, Visited
<1>4. PathInv' /\ RootInv'
  BY DEF FaultFree, PathInv, RootInv, Promising, Visited
<1> QED BY <1>2, <1>3, <1>4 DEF FaultFree

LEMMA CrashFreeStep ==
  TypeOK /\ SeenInv /\ ClientInv /\ CrashFreeInv /\ [Next]_vars => CrashFreeInv'
<1> SUFFICES ASSUME TypeOK, SeenInv, ClientInv, CrashFreeInv, [Next]_vars, up' = Peers
             PROVE  FaultFree'
  BY DEF CrashFreeInv
<1>1. Grows
  BY GrowsStep
<1>2. up = Peers
  BY <1>1 DEF Grows, TypeOK
<1>3. FaultFree
  BY <1>2 DEF CrashFreeInv
<1>4. \A n \in Peers : ~Stop(n)
  BY <1>2 DEF Stop
<1>5. ASSUME NEW s \in Searches, FoundLocally(s) PROVE FaultFree'
  <2>1. LocalCells(s, Origin[s]) /\ NoPeer \notin Peers
    BY <1>5, LocalEffect, SearchAssumption
  <2>2. ResultInv'
    BY <1>3, <2>1 DEF FaultFree, ResultInv, LocalCells
  <2> QED BY <1>3, <2>1, <2>2, IdleStep DEF LocalCells
<1>6. CASE UNCHANGED vars
  <2>1. ResultInv'
    BY <1>3, <1>6 DEF FaultFree, ResultInv, vars
  <2> QED BY <1>3, <1>6, <2>1, IdleStep DEF vars
<1> QED BY <1>1, <1>2, <1>3, <1>4, <1>5, <1>6, CallStep, ReceiveStep, DuplicateStep, HitStep,
           ForwardStep, AnswerStep, StartStep, FinishStep
        DEF Next, search_index, send_and_recv, Crash, CallDead

-----------------------------------------------------------------------------
(* The theorems.                                                           *)

LEMMA InvInit == Init => IInv
<1> SUFFICES ASSUME Init
             PROVE  IInv
  OBVIOUS
<1>1. TypeOK
  BY TypeInit
<1>2. /\ \A s \in Searches, n \in Peers : ~Visited(s, n)
      /\ \A s \in Searches, n, k \in Peers : thread[s][n][k] = "off" /\ answer[s][n][k] = Dup
      /\ \A s \in Searches, n \in Peers : response[s][n] = Dup
  BY DEF Init, Visited
<1>3. \A n \in Peers : inbox[n] = <<>> /\ received_queries[n] = {}
  BY DEF Init
<1>4. \A s \in Searches : status[s] = "new" /\ result[s] = NoPeer
  BY DEF Init
<1>5. \A n \in Peers : Pending(n) = {} /\ EachOnce(n)
  BY <1>3 DEF Pending, EachOnce
<1>6. Dup \notin Peers /\ Dup # Null
  BY SearchAssumption
<1>7. SeenInv
  BY <1>2, <1>4, <1>5 DEF SeenInv, RecordedInv, ThreadInv, AskedInv, OpenInv
<1>8. ClientInv /\ IdsInv
  BY <1>2, <1>3 DEF ClientInv, IdsInv
<1>9. SoundInv
  BY <1>2, <1>4, <1>6 DEF SoundInv, SoundResult
<1>10. FaultFree
  <2>1. WaitInv /\ OnceInv /\ TakenInv
    BY <1>5 DEF WaitInv, OnceInv, TakenInv
  <2>2. BroadcastInv /\ CallInv /\ AnswerInv /\ NoNull
    BY <1>2, <1>6 DEF BroadcastInv, CallInv, AnswerInv, NoNull
  <2>3. PathInv /\ RootInv /\ ResultInv
    BY <1>2, <1>4 DEF PathInv, RootInv, ResultInv, Promising
  <2> QED BY <2>1, <2>2, <2>3 DEF FaultFree
<1>11. DupMeansSeenIfUnique
  BY <1>2 DEF DupMeansSeenIfUnique, DupMeansSeen
<1> QED BY <1>1, <1>7, <1>8, <1>9, <1>10, <1>11 DEF IInv, CrashFreeInv

LEMMA InvStep == IInv /\ [Next]_vars => IInv'
BY TypeStep, SeenStep, IdsStep, SoundStep, CrashFreeStep, DupStep DEF IInv

\* The set of peers that still work or name a holder, and the set of all those
\* that took the query up: when a search gives up, the first is empty, because
\* it would contain the origin, and then nobody of the second has the file and
\* every neighbor of a member is a member.
LEMMA Complete == IInv => CompleteResult
<1> SUFFICES ASSUME IInv, up = Peers, UniqueIds, NEW s \in Searches,
                    status[s] = "done", result[s] = NoPeer,
                    NEW k \in Peers, Reaches(Origin[s], k)
             PROVE  Wanted[s] \notin file_set[k]
  BY DEF CompleteResult, NotFoundMeansAbsent
<1> DEFINE o == Origin[s]
           P == {n \in Peers : Promising(s, n)}
           V == {n \in Peers : Visited(s, n)}
<1>1. FaultFree /\ DupMeansSeen /\ ClientInv /\ TypeOK
  BY DEF IInv, CrashFreeInv, DupMeansSeenIfUnique
<1>2. o \in Peers
  BY SearchAssumption
<1>3. phase[s][o] = "closed" /\ response[s][o] \notin Peers
  BY <1>1 DEF FaultFree, ResultInv
<1>4. o \in V /\ o \notin P
  BY <1>2, <1>3 DEF Promising, Visited
<1>5. P = {}
  <2>1. \A n \in P : Visited(s, n) /\ client[s][n] \in P
    BY <1>1 DEF FaultFree, PathInv, ClientInv, Promising
  <2>2. P \in SUBSET Peers
    OBVIOUS
  <2> HIDE DEF P, o
  <2>3. (\E n \in P : TRUE) => o \in P
    BY <1>1, <2>1, <2>2 DEF FaultFree, RootInv, o
  <2> QED BY <1>4, <2>3
<1>6. \A n \in V : phase[s][n] = "closed" /\ response[s][n] \notin Peers
  BY <1>5 DEF Promising
<1>7. \A n \in V : Wanted[s] \notin file_set[n] /\ Joined(s, n)
  BY <1>1, <1>6 DEF FaultFree, BroadcastInv, Asked
<1>8. ASSUME NEW n \in V, NEW l \in Neighbors[n]
      PROVE  l \in V
  <2>1. l \in Peers
    BY SearchAssumption
  <2>2. Asked(s, n)
    BY <1>1 DEF FaultFree, BroadcastInv
  <2>3. l = client[s][n] \/ thread[s][n][l] # "off"
    BY <1>7, <2>2 DEF Asked
  <2>4. CASE l = client[s][n]
    BY <1>1, <2>1, <2>4 DEF ClientInv
  <2>5. CASE thread[s][n][l] # "off"
    <3>1. thread[s][n][l] = "joined"
      BY <1>7, <2>1, <2>5 DEF Joined
    <3>2. answer[s][n][l] \in Peers \cup {Dup}
      BY <1>1, <2>1 DEF FaultFree, NoNull, TypeOK, Answers
    <3>3. answer[s][n][l] = Dup => Visited(s, l)
      BY <1>1, <2>1, <3>1 DEF DupMeansSeen, Visited
    <3>4. answer[s][n][l] \in Peers => Visited(s, l)
      BY <1>1, <2>1, <3>1 DEF FaultFree, AnswerInv
    <3> QED BY <2>1, <3>2, <3>3, <3>4
  <2> QED BY <2>3, <2>4, <2>5
<1>9. k \in V
  <2>1. V \in SUBSET Peers /\ \A n \in V : Neighbors[n] \subseteq V
    BY <1>8
  <2> HIDE DEF V, o
  <2> QED BY <1>4, <2>1 DEF Reaches, o
<1> QED BY <1>7, <1>9

\* The variables keep their types.
THEOREM TypeCorrect == Spec => []TypeOK
<1>1. TypeOK /\ [Next]_vars => TypeOK'
  BY TypeStep
<1> QED BY TypeInit, <1>1, PTL DEF Spec

\* The inductive invariant holds in every reachable state.
THEOREM Invariance == Spec => []IInv
<1>1. IInv /\ [Next]_vars => IInv'
  BY InvStep
<1> QED BY InvInit, <1>1, PTL DEF Spec

\* A search never returns the address of a peer without the file, whatever
\* stops, on every overlay and with any number of handlers.
THEOREM SearchIsSound == Spec => []SoundResult
<1>1. IInv => SoundResult
  BY DEF IInv, SoundInv
<1> QED BY Invariance, <1>1, PTL

\* A search that finds nobody says so rightly as long as no peer stops and no
\* two searches share a message id.
THEOREM SearchIsComplete == Spec => []CompleteResult
<1>1. IInv => CompleteResult
  BY Complete
<1> QED BY Invariance, <1>1, PTL

\* A DUP_REQUEST comes from a peer that has seen this very query, as long as no
\* two searches share a message id.
THEOREM DuplicatesAreSeen == Spec => []DupMeansSeenIfUnique
<1>1. IInv => DupMeansSeenIfUnique
  BY DEF IInv
<1> QED BY Invariance, <1>1, PTL

\* A peer takes up a search at most once, and for one client.
THEOREM NobodySearchesTwice == Spec => TakesUpOnce
<1>1. IInv /\ [Next]_vars =>
        [\A s \in Searches, n \in Peers : phase[s][n] # "none" =>
           client'[s][n] = client[s][n] /\ phase'[s][n] # "none"]_vars
  <2> SUFFICES ASSUME IInv, [Next]_vars, NEW s \in Searches, NEW n \in Peers, phase[s][n] # "none"
               PROVE  client'[s][n] = client[s][n] /\ phase'[s][n] # "none"
    OBVIOUS
  <2>1. Grows
    BY GrowsStep DEF IInv
  <2> QED BY <2>1 DEF Grows, Visited
<1> QED BY Invariance, <1>1, PTL DEF Spec, TakesUpOnce
=============================================================================
