------------------------- MODULE DecentralizedPeer -------------------------
(***************************************************************************)
(* Files in the decentralized system: src/src/decentralized_peer.cpp, the  *)
(* menu that drives it (peer_cli.cpp), and the downloads of Transfers.     *)
(*                                                                         *)
(* Module FloodSearch models a query hop by hop and takes what a thread of *)
(* a broadcast does with its answer for one step.  Here it is the other    *)
(* way round: a neighbor answers what FloodSearch promises of it, and the  *)
(* threads at the origin store their answers field by field, unlocked, in  *)
(* the query_response they share.                                          *)
(*                                                                         *)
(* file_set is read from the directory when a peer starts, and never       *)
(* again.                                                                  *)
(***************************************************************************)
EXTENDS Transfers

CONSTANTS
  Neighbors,  \* the overlay, as init_neighbors reads it
  Commands,   \* what each user chooses from the menu, in turn
  NoBuffer    \* the buf of a message without one

Choices == [do : {"search", "request"}, file : Files]

ASSUME PeerAssumption ==
  /\ \A p \in Peers : Neighbors[p] \subseteq Peers \ {p}
  /\ Commands \in [Peers -> Seq(Choices)]
  /\ NoBuffer \notin Peers

VARIABLES
  file_set,        \* the names each peer found in its directory when it started
  query_response,  \* what the search of each peer has received
  threads,         \* the threads of its broadcast, by neighbor: "off", "spawned", "calling", "storing"
  answer,          \* what each of them has received
  stored,          \* the fields it has stored
  menu             \* the choices a user has left

search == <<query_response, threads, answer, stored>>
vars == <<transfers, file_set, search, menu>>

\* The parts of a message that are told apart.
Fields == {"buf", "type"}
Message == [buf : Peers \cup {NoBuffer}, type : {"DUP_REQUEST", "STATUS_OK", "NULL_MSG"}]
Plain(type) == [buf |-> NoBuffer, type |-> type]

Init ==
  /\ InitTransfers("menu")
  /\ file_set = Shared
  /\ query_response = [p \in Peers |-> Plain("DUP_REQUEST")]
  /\ threads = [p \in Peers |-> [n \in Peers |-> "off"]]
  /\ answer = [p \in Peers |-> [n \in Peers |-> Plain("DUP_REQUEST")]]
  /\ stored = [p \in Peers |-> [n \in Peers |-> {}]]
  /\ menu = Commands

-----------------------------------------------------------------------------
(* search_for_file: the answers.                                           *)

\* Nobody has stopped so far.
Undisturbed == up = Peers /\ restarts = 0

\* What a neighbor answers to a query for f: it has taken it up before, nobody
\* behind it has f, or somebody it names does.  When peers stop on the way, the
\* answer may be a NULL_MSG, or put together from two of them.
Answers(f) ==
  {Plain("DUP_REQUEST")}
    \cup {[buf |-> h, type |-> "STATUS_OK"] : h \in {q \in Peers : f \in file_set[q]}}
    \cup (IF Undisturbed THEN {} ELSE {Plain("NULL_MSG"), Plain("STATUS_OK")})

Searching(p) == stage[<<p, Cli>>] \in {"asking", "searching"}

Choose(p, c) ==
  /\ stage[<<p, Cli>>] = "menu"
  /\ menu[p] # <<>>
  /\ c = Head(menu[p])
  /\ menu' = [menu EXCEPT ![p] = Tail(@)]

\* Where a search leads: on to the download, or back to the menu.
Found(t, h, download) ==
  IF download THEN from' = [from EXCEPT ![t] = h] /\ Goto(t, "connecting")
  ELSE UNCHANGED from /\ Goto(t, "menu")

has(p, f) == f \in file_set[p]

\* search_for_file: the peer itself, or a broadcast to every neighbor.
search_for_file(p, c) ==
  LET t == <<p, Cli>> IN
  /\ Choose(p, c)
  /\ file' = [file EXCEPT ![t] = c.file]
  /\ \/ /\ has(p, c.file)
        /\ Found(t, p, c.do = "request")
        /\ UNCHANGED search
     \/ /\ ~has(p, c.file)
        /\ query_response' = [query_response EXCEPT ![p] = Plain("DUP_REQUEST")]
        /\ threads' = [threads EXCEPT ![p] = [n \in Peers |-> IF n \in Neighbors[p] THEN "spawned" ELSE "off"]]
        /\ answer' = [answer EXCEPT ![p] = [n \in Peers |-> Plain("DUP_REQUEST")]]
        /\ stored' = [stored EXCEPT ![p] = [n \in Peers |-> {}]]
        /\ Goto(t, IF c.do = "search" THEN "asking" ELSE "searching")
        /\ UNCHANGED from
  /\ UNCHANGED <<up, inbox, content, client, count, channel, result, restarts, exposed, file_set>>

\* send_and_recv of a thread, up to the request.
Call(p, n) ==
  /\ Searching(p)
  /\ threads[p][n] = "spawned"
  /\ \/ /\ n \in up
        /\ threads' = [threads EXCEPT ![p][n] = "calling"]
        /\ UNCHANGED transfers
     \/ n \notin up /\ Die(p) /\ UNCHANGED threads
  /\ UNCHANGED <<file_set, query_response, answer, stored, menu>>

\* Mutant: every answer is stored.
KeepsAll(a) == TRUE

Keeps(a) == a.type # "DUP_REQUEST"

\* It receives its answer.
Receives(p, n, a) ==
  /\ Searching(p)
  /\ threads[p][n] = "calling"
  /\ IF n \in up THEN a \in Answers(file[<<p, Cli>>]) ELSE a = Plain("NULL_MSG")
  /\ answer' = [answer EXCEPT ![p][n] = a]
  /\ threads' = [threads EXCEPT ![p][n] = IF Keeps(a) THEN "storing" ELSE "off"]
  /\ UNCHANGED <<transfers, file_set, query_response, stored, menu>>

\* It stores a field; no lock is held, and nothing orders the stores.
Store(p, n, field) ==
  /\ Searching(p)
  /\ threads[p][n] = "storing"
  /\ field \notin stored[p][n]
  /\ query_response' = [query_response EXCEPT ![p][field] = answer[p][n][field]]
  /\ stored' = [stored EXCEPT ![p][n] = @ \cup {field}]
  /\ threads' = [threads EXCEPT ![p][n] = IF stored'[p][n] = Fields THEN "off" ELSE @]
  /\ UNCHANGED <<transfers, file_set, answer, menu>>

Joined(p) == \A n \in Peers : threads[p][n] = "off"

\* Every thread has been joined: only the type is looked at, and the address
\* then read from buf, which kills a peer that has none.
SearchEnds(p) ==
  LET t == <<p, Cli>>
      r == query_response[p] IN
  /\ Searching(p)
  /\ Joined(p)
  /\ \/ /\ r.type = "STATUS_OK"
        /\ r.buf # NoBuffer
        /\ Found(t, r.buf, stage[t] = "searching")
        /\ UNCHANGED <<up, inbox, content, work, channel, result, restarts, exposed>>
     \/ r.type = "STATUS_OK" /\ r.buf = NoBuffer /\ Die(p)
     \/ /\ r.type # "STATUS_OK"
        /\ Goto(t, "menu")
        /\ result' = [result EXCEPT ![p] = IF stage[t] = "asking" THEN @ ELSE "nobody"]
        /\ UNCHANGED <<up, inbox, content, work, from, channel, restarts, exposed>>
  /\ UNCHANGED <<file_set, search, menu>>

broadcast_query(p) ==
  \E n \in Peers :
    \/ Call(p, n)
    \/ \E a \in Message : Receives(p, n, a)
    \/ \E f \in Fields : Store(p, n, f)

-----------------------------------------------------------------------------
\* What a thread does by itself.
Run(t) ==
  \/ (Download(t) \/ (t[2] # Cli /\ Upload(t))) /\ UNCHANGED <<file_set, search, menu>>
  \/ t[2] = Cli /\ (broadcast_query(t[1]) \/ SearchEnds(t[1]))

\* init_fileset: a peer that comes back takes what is in its directory for its
\* files, and answers queries for them.
Return(p) ==
  /\ Restart(p, "menu")
  /\ file_set' = [file_set EXCEPT ![p] = Listing(p)]
  /\ Announce(p, Listing(p))
  /\ UNCHANGED <<search, menu>>

Fail(p) == Crash(p) /\ UNCHANGED <<file_set, search, menu>>

Next ==
  \/ \E t \in Threads : Run(t) \/ (Reset(t) /\ UNCHANGED <<file_set, search, menu>>)
  \/ \E p \in Peers : Fail(p) \/ Return(p) \/ \E c \in Choices : search_for_file(p, c)

Spec == Init /\ [][Next]_vars

-----------------------------------------------------------------------------
(* Correctness.                                                            *)

Stages == {"menu", "asking", "searching", "idle", "connecting", "waiting", "receiving",
           "opening", "sending", "dead"}

\* Every variable keeps its type.
TypeOK ==
  /\ TransfersTypeOK
  /\ inbox \in [Peers -> Seq([type : {"REQUEST_FILE"}, file : Files, client : Threads \cup {Gone}])]
  /\ stage \in [Threads -> Stages]
  /\ file_set \in [Peers -> SUBSET Files]
  /\ query_response \in [Peers -> Message]
  /\ threads \in [Peers -> [Peers -> {"off", "spawned", "calling", "storing"}]]
  /\ answer \in [Peers -> [Peers -> Message]]
  /\ stored \in [Peers -> [Peers -> SUBSET Fields]]
  /\ menu \in [Peers -> Seq(Choices)]

\* decentralized_peer.cpp:116 "we don't lock bc only one response should ever
\* backtrace": several may, and their stores mix, yet while nobody stops the
\* threads leave one answer, and leave none only if none has a holder.
ResponseIsAnswer ==
  Undisturbed => \A p \in Peers :
    Searching(p) /\ Joined(p) =>
      \/ query_response[p] = Plain("DUP_REQUEST") /\ \A n \in Peers : answer[p][n].type # "STATUS_OK"
      \/ \E n \in Peers : answer[p][n].type = "STATUS_OK" /\ query_response[p] = answer[p][n]

\* Only a failure leaves a file behind that is neither whole nor being received.
PartialOnlyMidway ==
  Undisturbed => \A p \in Peers, f \in Files :
    content[p][f] \notin {NoFile, Blocks} => stage[<<p, Cli>>] = "receiving" /\ file[<<p, Cli>>] = f
=============================================================================
