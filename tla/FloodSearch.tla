---------------------------- MODULE FloodSearch ----------------------------
(***************************************************************************)
(* The search of src/src/decentralized_peer.cpp: a query is flooded over   *)
(* the overlay, every peer forwards it to its neighbors on threads of its  *)
(* own, joins them and answers whoever asked.                              *)
(*                                                                         *)
(* One connection carries one request and its answer.  A request waits in  *)
(* the inbox of the peer (the listen backlog and then the work queue, both *)
(* first-in first-out: see JobQueue) until one of its Handlers workers is  *)
(* free; the worker is then busy until every neighbor it asked has         *)
(* answered.  A search is started by the main thread of its Origin, which  *)
(* waits for it and is no worker.                                          *)
(*                                                                         *)
(* A peer that stops resets its connections: whoever waits for its answer  *)
(* reads a NULL_MSG.  Nobody looks at the result of connect(), so the peer *)
(* that calls a peer that is down writes on a socket that is not connected *)
(* and is killed by SIGPIPE.  A peer that stopped stays down.              *)
(***************************************************************************)
EXTENDS Naturals, Sequences, FiniteSets

CONSTANTS
  Peers,       \* the processes, by address
  Neighbors,   \* the overlay: whom each peer forwards to
  Files,       \* the names of files
  Handlers,    \* workers of a pool left beside the accept loop
  Searches,    \* calls of search_for_file
  Origin,      \* the peer that makes each of them
  Wanted,      \* the file it looks for
  IdBase,      \* peer_id << 24
  IdSpan,      \* 2^32, the values of an unsigned int
  FirstCount,  \* what message_count happens to hold: no one sets it
  Unreliable,  \* the peers that may stop at any time
  Dup,         \* the answer DUP_REQUEST
  Null,        \* the answer NULL_MSG
  NoPeer       \* the address -1

\* The answers of a query: STATUS_OK with the address of a holder, or neither.
Answers == Peers \cup {Dup, Null}

ASSUME SearchAssumption ==
  /\ Neighbors \in [Peers -> SUBSET Peers]
  /\ Handlers \in Nat
  /\ Origin \in [Searches -> Peers]
  /\ Wanted \in [Searches -> Files]
  /\ IdSpan \in Nat \ {0}
  /\ IdBase \in [Peers -> Nat]
  /\ FirstCount \in [Peers -> 0..(IdSpan - 1)]
  /\ Unreliable \subseteq Peers
  /\ Dup \notin Peers /\ Null \notin Peers /\ NoPeer \notin Peers
  /\ Dup # Null

VARIABLES
  up,                \* the peers that run
  file_set,          \* the files each peer found at its start
  message_count,     \* the counter of each peer
  msg_id,            \* the id of each search, once it has one
  received_queries,  \* the ids each peer has seen
  inbox,             \* the requests that wait for a worker, oldest first
  status,            \* each search: "new", "open" or "done"
  result,            \* the address a search returned
  phase,             \* how far a peer is with a search: "none", "open", "closed"
  client,            \* who asked it
  thread,            \* the threads of its broadcast, one for each neighbor
  answer,            \* what each thread received
  response           \* the query_response they share

vars == <<up, file_set, message_count, msg_id, received_queries, inbox, status,
          result, phase, client, thread, answer, response>>

\* A pool is busy with the searches it forwarded and has not answered.
Busy(n) == {s \in Searches : phase[s][n] = "open" /\ Origin[s] # n}

Init ==
  /\ up = Peers
  /\ file_set \in [Peers -> SUBSET Files]
  /\ message_count = FirstCount
  /\ msg_id = [s \in Searches |-> 0]
  /\ received_queries = [n \in Peers |-> {}]
  /\ inbox = [n \in Peers |-> <<>>]
  /\ status = [s \in Searches |-> "new"]
  /\ result = [s \in Searches |-> NoPeer]
  /\ phase = [s \in Searches |-> [n \in Peers |-> "none"]]
  /\ client = [s \in Searches |-> [n \in Peers |-> NoPeer]]
  /\ thread = [s \in Searches |-> [n \in Peers |-> [k \in Peers |-> "off"]]]
  /\ answer = [s \in Searches |-> [n \in Peers |-> [k \in Peers |-> Dup]]]
  /\ response = [s \in Searches |-> [n \in Peers |-> Dup]]

-----------------------------------------------------------------------------
(* broadcast_query: a thread for each neighbor but the sender, joined by    *)
(* the handler; query_response starts as DUP_REQUEST and is replaced by     *)
(* whatever else a thread receives.                                         *)

broadcast_query(s, n, sender) ==
  /\ phase' = [phase EXCEPT ![s][n] = "open"]
  /\ client' = [client EXCEPT ![s][n] = sender]
  /\ response' = [response EXCEPT ![s][n] = Dup]
  /\ thread' = [thread EXCEPT ![s][n] =
                  [k \in Peers |-> IF k \in Neighbors[n] \ {sender} THEN "spawned" ELSE "off"]]

\* Mutant: join returns with the first thread.
JoinedFirst(s, n) == \E k \in Neighbors[n] : thread[s][n][k] = "joined"

\* Mutant: join waits for a thread of the sender, too.
JoinedSender(s, n) == \A k \in Neighbors[n] : thread[s][n][k] = "joined"

Joined(s, n) == \A k \in Peers : thread[s][n][k] \in {"off", "joined"}

\* Peer n stops: those that wait for its answer read a NULL_MSG.
Stop(n) ==
  /\ up' = up \ {n}
  /\ thread' = [s \in Searches |-> [m \in Peers |-> [k \in Peers |->
       IF k = n /\ thread[s][m][k] = "calling" THEN "answered" ELSE thread[s][m][k]]]]
  /\ answer' = [s \in Searches |-> [m \in Peers |-> [k \in Peers |->
       IF k = n /\ thread[s][m][k] = "calling" THEN Null ELSE answer[s][m][k]]]]
  /\ UNCHANGED <<file_set, message_count, msg_id, received_queries, inbox, status,
                 result, phase, client, response>>

Crash(n) ==
  /\ n \in up \cap Unreliable
  /\ Stop(n)

\* send_and_recv, up to the request: connect, unchecked, and send.
Call(s, n, k) ==
  /\ thread[s][n][k] = "spawned"
  /\ n \in up
  /\ k \in up
  /\ thread' = [thread EXCEPT ![s][n][k] = "calling"]
  /\ inbox' = [inbox EXCEPT ![k] = Append(@, [search |-> s, from |-> n])]
  /\ UNCHANGED <<up, file_set, message_count, msg_id, received_queries, status, result,
                 phase, client, answer, response>>

CallDead(s, n, k) ==
  /\ n \in up
  /\ k \notin up
  /\ thread[s][n][k] = "spawned"
  /\ Stop(n)

\* The rest of the thread: receive the answer and write it to query_response.
Receive(s, n, k) ==
  /\ n \in up
  /\ thread[s][n][k] = "answered"
  /\ thread' = [thread EXCEPT ![s][n][k] = "joined"]
  /\ response' = IF answer[s][n][k] = Dup THEN response
                 ELSE [response EXCEPT ![s][n] = answer[s][n][k]]
  /\ UNCHANGED <<up, file_set, message_count, msg_id, received_queries, inbox, status,
                 result, phase, client, answer>>

-----------------------------------------------------------------------------
(* search_index, run by a worker of n for the oldest request.              *)

\* Mutant: a peer that relays an address puts its own in the answer.
replyOwnAddress(s, c, n, a) ==
  /\ thread' = [thread EXCEPT ![s][c][n] = "answered"]
  /\ answer' = [answer EXCEPT ![s][c][n] = IF a \in Peers THEN n ELSE a]

\* The answer a of peer n reaches the thread of c that asked, if c still runs.
reply(s, c, n, a) ==
  IF c \in up
  THEN /\ thread' = [thread EXCEPT ![s][c][n] = "answered"]
       /\ answer' = [answer EXCEPT ![s][c][n] = a]
  ELSE UNCHANGED <<thread, answer>>

Dequeue(n, r) ==
  /\ inbox[n] # <<>>
  /\ r = Head(inbox[n])
  /\ n \in up
  /\ Cardinality(Busy(n)) < Handlers
  /\ inbox' = [inbox EXCEPT ![n] = Tail(@)]

\* Mutant: the map is tested for being empty, not for the id.
DuplicateOfAny(n, r) ==
  /\ Dequeue(n, r)
  /\ received_queries[n] # {}
  /\ reply(r.search, r.from, n, Dup)
  /\ UNCHANGED <<up, file_set, message_count, msg_id, received_queries, status, result,
                 phase, client, response>>

Duplicate(n, r) ==
  /\ Dequeue(n, r)
  /\ msg_id[r.search] \in received_queries[n]
  /\ reply(r.search, r.from, n, Dup)
  /\ UNCHANGED <<up, file_set, message_count, msg_id, received_queries, status, result,
                 phase, client, response>>

\* Mutant: the map is not consulted.
FreshAlways(n, r) ==
  /\ Dequeue(n, r)
  /\ received_queries' = [received_queries EXCEPT ![n] = @ \cup {msg_id[r.search]}]
  /\ UNCHANGED <<up, file_set, message_count, msg_id, status, result>>

Fresh(n, r) ==
  /\ Dequeue(n, r)
  /\ msg_id[r.search] \notin received_queries[n]
  /\ received_queries' = [received_queries EXCEPT ![n] = @ \cup {msg_id[r.search]}]
  /\ UNCHANGED <<up, file_set, message_count, msg_id, status, result>>

Hit(n, r) ==
  /\ Fresh(n, r)
  /\ Wanted[r.search] \in file_set[n]
  /\ phase' = [phase EXCEPT ![r.search][n] = "closed"]
  /\ client' = [client EXCEPT ![r.search][n] = r.from]
  /\ response' = [response EXCEPT ![r.search][n] = n]
  /\ reply(r.search, r.from, n, n)

Forward(n, r) ==
  /\ Fresh(n, r)
  /\ Wanted[r.search] \notin file_set[n]
  /\ broadcast_query(r.search, n, r.from)
  /\ UNCHANGED answer

\* Every thread has been joined: the worker answers and is free again.
ForwardResponse(s, n) ==
  /\ n \in up
  /\ n # Origin[s]
  /\ phase[s][n] = "open"
  /\ Joined(s, n)
  /\ phase' = [phase EXCEPT ![s][n] = "closed"]
  /\ reply(s, client[s][n], n, response[s][n])
  /\ UNCHANGED <<up, file_set, message_count, msg_id, received_queries, inbox, status,
                 result, client, response>>

-----------------------------------------------------------------------------
(* search_for_file, run by the main thread, one call at a time.            *)

CanStart(s) ==
  /\ Origin[s] \in up
  /\ status[s] = "new"
  /\ \A t \in Searches : Origin[t] = Origin[s] => status[t] # "open"

FoundLocally(s) ==
  /\ CanStart(s)
  /\ Wanted[s] \in file_set[Origin[s]]
  /\ status' = [status EXCEPT ![s] = "done"]
  /\ result' = [result EXCEPT ![s] = Origin[s]]
  /\ UNCHANGED <<up, file_set, message_count, msg_id, received_queries, inbox, phase,
                 client, thread, answer, response>>

\* get_message_id: an unsigned counter, and the peer's id in the top byte.
\* Mutant: the counter is wider than an int.
next_count_wide(n) == message_count[n] + 1

next_count(n) == (message_count[n] + 1) % IdSpan
get_message_id(n) == (next_count(n) + IdBase[n]) % IdSpan

StartSearch(s) ==
  LET n == Origin[s] IN
  /\ CanStart(s)
  /\ Wanted[s] \notin file_set[n]
  /\ message_count' = [message_count EXCEPT ![n] = next_count(n)]
  /\ msg_id' = [msg_id EXCEPT ![s] = get_message_id(n)]
  /\ received_queries' = [received_queries EXCEPT ![n] = @ \cup {get_message_id(n)}]
  /\ status' = [status EXCEPT ![s] = "open"]
  /\ broadcast_query(s, n, n)
  /\ UNCHANGED <<up, file_set, inbox, result, answer>>

FinishSearch(s) ==
  LET n == Origin[s] IN
  /\ n \in up
  /\ status[s] = "open"
  /\ Joined(s, n)
  /\ phase' = [phase EXCEPT ![s][n] = "closed"]
  /\ status' = [status EXCEPT ![s] = "done"]
  /\ result' = [result EXCEPT ![s] = IF response[s][n] \in Peers THEN response[s][n] ELSE NoPeer]
  /\ UNCHANGED <<up, file_set, message_count, msg_id, received_queries, inbox, client,
                 thread, answer, response>>

-----------------------------------------------------------------------------
Requests == [search : Searches, from : Peers]

search_index(n) ==
  \E r \in Requests : Duplicate(n, r) \/ Hit(n, r) \/ Forward(n, r)

send_and_recv(s, n, k) == Call(s, n, k) \/ CallDead(s, n, k) \/ Receive(s, n, k)

Next ==
  \/ \E n \in Peers : search_index(n) \/ Crash(n)
  \/ \E s \in Searches, n \in Peers :
       ForwardResponse(s, n) \/ \E k \in Peers : send_and_recv(s, n, k)
  \/ \E s \in Searches : FoundLocally(s) \/ StartSearch(s) \/ FinishSearch(s)

\* What the threads of peer n do.
Run(n) ==
  \/ search_index(n)
  \/ \E s \in Searches :
       \/ ForwardResponse(s, n)
       \/ Origin[s] = n /\ FinishSearch(s)
       \/ \E k \in Peers : send_and_recv(s, n, k)

\* While some thread of some running peer can go on, one does.  That is less
\* than the scheduling of every thread, and enough: a search has finitely many
\* steps.  Nothing obliges anybody to search or to crash.
Fairness == WF_vars(\E n \in Peers : Run(n))

Spec == Init /\ [][Next]_vars /\ Fairness

-----------------------------------------------------------------------------
TypeOK ==
  /\ up \subseteq Peers
  /\ file_set \in [Peers -> SUBSET Files]
  /\ message_count \in [Peers -> 0..(IdSpan - 1)]
  /\ msg_id \in [Searches -> 0..(IdSpan - 1)]
  /\ received_queries \in [Peers -> SUBSET (0..(IdSpan - 1))]
  /\ inbox \in [Peers -> Seq(Requests)]
  /\ status \in [Searches -> {"new", "open", "done"}]
  /\ result \in [Searches -> Peers \cup {NoPeer}]
  /\ phase \in [Searches -> [Peers -> {"none", "open", "closed"}]]
  /\ client \in [Searches -> [Peers -> Peers \cup {NoPeer}]]
  /\ thread \in [Searches -> [Peers -> [Peers ->
       {"off", "spawned", "calling", "answered", "joined"}]]]
  /\ answer \in [Searches -> [Peers -> [Peers -> Answers]]]
  /\ response \in [Searches -> [Peers -> Answers]]

\* decentralized_peer.cpp:268-274: the address a search returns is the one of
\* a peer that has the file, whatever crashed and however many answered.
SoundResult ==
  \A s \in Searches : result[s] # NoPeer => Wanted[s] \in file_set[result[s]]

\* Every set that contains n and the neighbors of its members contains k.
Reaches(n, k) ==
  \A S \in SUBSET Peers :
    n \in S /\ (\A m \in S : Neighbors[m] \subseteq S) => k \in S

Started(s) == status[s] # "new" /\ phase[s][Origin[s]] # "none"

\* The searches that run, or ran, have different message ids.
UniqueIds ==
  \A s, t \in Searches : Started(s) /\ Started(t) /\ s # t => msg_id[s] # msg_id[t]

\* decentralized_peer.cpp:277-280: a search that found nobody may say so: no
\* peer the overlay leads to has the file.
NotFoundMeansAbsent ==
  \A s \in Searches : status[s] = "done" /\ result[s] = NoPeer =>
    \A k \in Peers : Reaches(Origin[s], k) => Wanted[s] \notin file_set[k]

\* decentralized_peer.cpp:191-281: no peer down and no message id given twice,
\* a query is never dropped on the way to a holder: the duplicates that cycles
\* of the overlay produce are refused by a peer whose own answer still counts.
CompleteResult == up = Peers /\ UniqueIds => NotFoundMeansAbsent

\* decentralized_peer.cpp:201: a peer that answers DUP_REQUEST has seen this
\* very query.  Not so when two searches have one id.
DupMeansSeen ==
  \A s \in Searches, n, k \in Peers :
    thread[s][n][k] \in {"answered", "joined"} /\ answer[s][n][k] = Dup
      => phase[s][k] # "none"

\* The same, of the code that runs on distinct ids.
DupMeansSeenIfUnique == UniqueIds => DupMeansSeen

\* decentralized_peer.cpp:203-213: a peer takes up a search once, for the first
\* that asks, whatever copies of the query other paths bring later.
TakesUpOnce ==
  [][\A s \in Searches, n \in Peers :
       phase[s][n] # "none" => client'[s][n] = client[s][n] /\ phase'[s][n] # "none"]_vars

\* decentralized_peer.cpp:155-161 and 242: search_for_file returns.
SearchReturns ==
  \A s \in Searches : status[s] = "open" ~> (status[s] = "done" \/ Origin[s] \notin up)
=============================================================================
