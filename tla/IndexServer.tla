---------------------------- MODULE IndexServer ----------------------------
(***************************************************************************)
(* The index server: src/src/index_server.cpp and src/src/file_index.cpp.  *)
(*                                                                         *)
(* A connection carries one message.  Connections are accepted, queued and *)
(* taken by the workers of the pool first-in first-out (JobQueue), but the *)
(* handlers of different workers interleave: peer_lock and index_lock are  *)
(* held for one action each, except that find_replication_peers holds      *)
(* peer_lock while it looks into the index peer by peer, and takes         *)
(* index_lock anew for each look.                                          *)
(*                                                                         *)
(* The peers are anybody here: each says NEW_USER before it registers or   *)
(* searches, and may say any of it again (a restart, a second choice of    *)
(* the menu).  Module CentralizedPeer puts the real ones in their place.   *)
(* A call to a peer that is down kills the server by SIGPIPE: the result   *)
(* of connect() is not looked at.                                          *)
(***************************************************************************)
EXTENDS Naturals, Sequences, FiniteSets

CONSTANTS
  Peers,              \* addresses and ports
  Files,              \* names of files
  Workers,            \* the threads of the pool
  ReplicationFactor,  \* 1 in the code as it is; the README calls it configurable
  Sockets,            \* what the memory of a conn_t's sock may hold: no one sets it
  NoPeer,             \* the address -1
  NoReply,            \* a search that has no answer yet
  MaxArrivals,        \* bound: connections to the server
  MayLeave            \* the peers that may stop

ASSUME IndexAssumption ==
  /\ ReplicationFactor \in Nat \ {0}
  /\ Sockets # {}
  /\ NoPeer \notin Peers
  /\ NoReply \notin Peers \cup {NoPeer}
  /\ MaxArrivals \in Nat
  /\ MayLeave \subseteq Peers

Conns == [peer : Peers, sock : Sockets]

Messages ==
  [type : {"NEW_USER"}, peer : Peers]
    \cup [type : {"REGISTER_FILE", "SEARCH_INDEX"}, file : Files, peer : Peers]

\* Download this file from that peer.
Orders == [type : {"REPLICATION_REQ"}, file : Files, holder : Peers]

NoMessage == [type |-> "NULL_MSG"]

VARIABLES
  server_up,      \* the server runs
  up,             \* the peers that run
  queue,          \* accepted connections, oldest first
  peers,          \* the vector of registered peers
  file_peer_map,  \* the vector of registrations of each file
  pc,             \* where each worker is
  msg,            \* the message it handles
  left,           \* replications_left
  start,          \* start_idx
  idx,            \* peer_idx
  valid_peers,    \* the peers found, then those still to be sent to
  inbox,          \* the connections to each peer, oldest first: orders of the server here
  reply,          \* the last answer each peer got to a search
  arrived         \* the connections so far

scan == <<left, start, idx, valid_peers>>
vars == <<server_up, up, queue, peers, file_peer_map, pc, msg, left, start, idx,
          valid_peers, inbox, reply, arrived>>

Init ==
  /\ server_up = TRUE
  /\ up = Peers
  /\ queue = <<>>
  /\ peers = <<>>
  /\ file_peer_map = [f \in Files |-> <<>>]
  /\ pc = [w \in Workers |-> "idle"]
  /\ msg = [w \in Workers |-> NoMessage]
  /\ left = [w \in Workers |-> 0]
  /\ start = [w \in Workers |-> 0]
  /\ idx = [w \in Workers |-> 0]
  /\ valid_peers = [w \in Workers |-> <<>>]
  /\ inbox = [p \in Peers |-> <<>>]
  /\ reply = [p \in Peers |-> NoReply]
  /\ arrived = 0

-----------------------------------------------------------------------------
(* Connections.                                                            *)

\* A peer connects, sends its message and, unless it searches, closes.
Arrive(m) ==
  /\ server_up
  /\ queue' = Append(queue, m)
  /\ UNCHANGED <<server_up, up, peers, file_peer_map, pc, msg, scan, inbox, reply>>

\* connection_handler: a free worker takes the oldest connection.
Take(w) ==
  /\ server_up
  /\ pc[w] = "idle"
  /\ queue # <<>>
  /\ queue' = Tail(queue)
  /\ msg' = [msg EXCEPT ![w] = Head(queue)]
  /\ pc' = [pc EXCEPT ![w] = Head(queue).type]
  /\ UNCHANGED <<server_up, up, peers, file_peer_map, scan, inbox, reply>>

At(w, place) == server_up /\ pc[w] = place
Goto(w, place) == pc' = [pc EXCEPT ![w] = place] /\ UNCHANGED msg
Return(w) ==
  /\ pc' = [pc EXCEPT ![w] = "idle"]
  /\ msg' = [msg EXCEPT ![w] = NoMessage]

\* Who holds peer_lock between two steps.
Locked == \E w \in Workers : pc[w] = "scan"

-----------------------------------------------------------------------------
(* The handlers.  A conn_t that parse_message filled has any sock.          *)

register_user(w) ==
  /\ At(w, "NEW_USER")
  /\ ~Locked
  /\ \E s \in Sockets : peers' = Append(peers, [peer |-> msg[w].peer, sock |-> s])
  /\ Return(w)
  /\ UNCHANGED <<server_up, up, queue, file_peer_map, scan, inbox, reply>>

add_peer(f, c) == file_peer_map' = [file_peer_map EXCEPT ![f] = Append(@, c)]

\* Mutant: add_peer counts the registrations before its own.
CopiesBefore(f) == Len(file_peer_map[f])

\* What add_peer returns: a peer that registers a file once more counts once more.
Copies(f) == Len(file_peer_map[f]) + 1

register_file(w) ==
  LET f == msg[w].file IN
  /\ At(w, "REGISTER_FILE")
  /\ \E s \in Sockets : add_peer(f, [peer |-> msg[w].peer, sock |-> s])
  /\ IF Copies(f) < ReplicationFactor
     THEN /\ Goto(w, "replicate")
          /\ left' = [left EXCEPT ![w] = ReplicationFactor - Copies(f)]
          /\ valid_peers' = [valid_peers EXCEPT ![w] = <<>>]
     ELSE Return(w) /\ UNCHANGED <<left, valid_peers>>
  /\ UNCHANGED <<server_up, up, queue, peers, start, idx, inbox, reply>>

\* The peers that registered f.
Holders(f) == {file_peer_map[f][i].peer : i \in DOMAIN file_peer_map[f]}

\* Mutant: any registered peer, whatever files it registered.
get_any_peer(f) == IF peers = <<>> THEN {NoPeer} ELSE {peers[i].peer : i \in DOMAIN peers}

get_rand_peer(f) == IF Holders(f) = {} THEN {NoPeer} ELSE Holders(f)

search_index(w) ==
  /\ At(w, "SEARCH_INDEX")
  /\ \E p \in get_rand_peer(msg[w].file) : reply' = [reply EXCEPT ![msg[w].peer] = p]
  /\ Return(w)
  /\ UNCHANGED <<server_up, up, queue, peers, file_peer_map, scan, inbox>>

-----------------------------------------------------------------------------
(* find_replication_peers and request_replication.                         *)

contains_peer(f, c) == \E i \in DOMAIN file_peer_map[f] : file_peer_map[f][i] = c

\* Mutant: the walk may begin one past the end.
StartsBeyond == 0..Len(peers)

Starts == 0..(Len(peers) - 1)

\* Take peer_lock and choose where to begin.
find_replication_peers(w) ==
  /\ At(w, "replicate")
  /\ ~Locked
  /\ IF peers = <<>>
     THEN Goto(w, "send") /\ UNCHANGED <<start, idx>>
     ELSE /\ Goto(w, "scan")
          /\ \E i \in Starts :
               /\ start' = [start EXCEPT ![w] = i]
               /\ idx' = [idx EXCEPT ![w] = i]
  /\ UNCHANGED <<server_up, up, queue, peers, file_peer_map, left, valid_peers, inbox, reply>>

\* Mutant: the walk goes on until enough are found.
RoundWithoutEnd(w, next, found) == Len(found) = left[w]

\* The round ends where it began, or when enough are found.
RoundEnds(w, next, found) == next = start[w] \/ Len(found) = left[w]

\* Mutant: the last peer of the round is dropped.
PickButLast(w, c, next) == ~contains_peer(msg[w].file, c) /\ next # start[w]

Pick(w, c, next) == ~contains_peer(msg[w].file, c)

\* One look into the index.
look(w) ==
  LET c == peers[idx[w] + 1]
      next == (idx[w] + 1) % Len(peers)
      found == IF Pick(w, c, next) THEN Append(valid_peers[w], c) ELSE valid_peers[w] IN
  /\ At(w, "scan")
  /\ valid_peers' = [valid_peers EXCEPT ![w] = found]
  /\ idx' = [idx EXCEPT ![w] = next]
  /\ IF RoundEnds(w, next, found) THEN Goto(w, "send") ELSE UNCHANGED <<pc, msg>>
  /\ UNCHANGED <<server_up, up, queue, peers, file_peer_map, left, start, inbox, reply>>

Order(w) == [type |-> "REPLICATION_REQ", file |-> msg[w].file, holder |-> msg[w].peer]

\* request_replication: one connection for each peer found.
request_replication(w) ==
  LET p == Head(valid_peers[w]).peer IN
  /\ At(w, "send")
  /\ valid_peers[w] # <<>>
  /\ IF p \in up
     THEN /\ inbox' = [inbox EXCEPT ![p] = Append(@, Order(w))]
          /\ valid_peers' = [valid_peers EXCEPT ![w] = Tail(@)]
          /\ UNCHANGED server_up
     ELSE server_up' = FALSE /\ UNCHANGED <<inbox, valid_peers>>
  /\ UNCHANGED <<up, queue, peers, file_peer_map, pc, msg, left, start, idx, reply>>

end_replication(w) ==
  /\ At(w, "send")
  /\ valid_peers[w] = <<>>
  /\ Return(w)
  /\ left' = [left EXCEPT ![w] = 0]
  /\ start' = [start EXCEPT ![w] = 0]
  /\ idx' = [idx EXCEPT ![w] = 0]
  /\ UNCHANGED <<server_up, up, queue, peers, file_peer_map, valid_peers, inbox, reply>>

Work(w) ==
  \/ Take(w)
  \/ register_user(w) \/ register_file(w) \/ search_index(w)
  \/ find_replication_peers(w) \/ look(w) \/ request_replication(w) \/ end_replication(w)

-----------------------------------------------------------------------------
(* The peers.                                                              *)

Joined(p) ==
  \/ \E i \in DOMAIN peers : peers[i].peer = p
  \/ \E i \in DOMAIN queue : queue[i].type = "NEW_USER" /\ queue[i].peer = p
  \/ \E w \in Workers : pc[w] = "NEW_USER" /\ msg[w].peer = p

Connect(m) ==
  /\ arrived < MaxArrivals
  /\ m.peer \in up
  /\ m.type # "NEW_USER" => Joined(m.peer)
  /\ Arrive(m)
  /\ arrived' = arrived + 1

Leave(p) ==
  /\ p \in up
  /\ up' = up \ {p}
  /\ UNCHANGED <<server_up, queue, peers, file_peer_map, pc, msg, scan, inbox, reply, arrived>>

Next ==
  \/ \E m \in Messages : Connect(m)
  \/ \E p \in MayLeave : Leave(p)
  \/ \E w \in Workers : Work(w) /\ UNCHANGED arrived

\* Every worker is a thread; nobody is forced to connect or to leave.
Spec == Init /\ [][Next]_vars /\ \A w \in Workers : WF_vars(Work(w) /\ UNCHANGED arrived)

-----------------------------------------------------------------------------
(* Correctness.                                                            *)

\* Every variable keeps its type; while a worker walks the peers, its place is
\* one of the vector (peers.at does not throw).
TypeOK ==
  /\ server_up \in BOOLEAN
  /\ up \subseteq Peers
  /\ queue \in Seq(Messages)
  /\ peers \in Seq(Conns)
  /\ file_peer_map \in [Files -> Seq(Conns)]
  /\ pc \in [Workers -> {"idle", "NEW_USER", "REGISTER_FILE", "SEARCH_INDEX",
                         "replicate", "scan", "send"}]
  /\ msg \in [Workers -> Messages \cup {NoMessage}]
  /\ left \in [Workers -> Nat]
  /\ start \in [Workers -> Nat]
  /\ idx \in [Workers -> Nat]
  /\ valid_peers \in [Workers -> Seq(Conns)]
  /\ inbox \in [Peers -> Seq(Orders)]
  /\ reply \in [Peers -> Peers \cup {NoPeer, NoReply}]
  /\ arrived \in Nat
  /\ \A w \in Workers : pc[w] = "scan" => {start[w], idx[w]} \subseteq 0..(Len(peers) - 1)

Occurrences(s, c) == Cardinality({i \in DOMAIN s : s[i] = c})

\* One round looks at each registered peer once: none is ordered to replicate
\* more often than it is registered, and no more than are needed.
OneRound ==
  \A w \in Workers :
    pc[w] \in {"scan", "send"} =>
      /\ Len(valid_peers[w]) <= left[w]
      /\ \A c \in Conns : Occurrences(valid_peers[w], c) <= Occurrences(peers, c)

\* A round that finds too few has looked at everybody: whoever it leaves out is
\* in the index.
GivesUpLast ==
  [][\A w \in Workers :
       /\ pc[w] = "scan" /\ pc'[w] = "send"
       /\ Len(valid_peers'[w]) < left[w]
       => \A i \in DOMAIN peers :
            \/ contains_peer(msg[w].file, peers[i])
            \/ \E j \in DOMAIN valid_peers'[w] : valid_peers'[w][j] = peers[i]]_vars

\* Every handler ends, or the server is gone.
HandlersReturn ==
  \A w \in Workers : (pc[w] # "idle") ~> (pc[w] = "idle" \/ ~server_up)

\* Worker w is in the round of the n-th registration of f.
Round(w, f, n) ==
  /\ pc[w] \in {"replicate", "scan", "send"}
  /\ msg[w].file = f
  /\ left[w] = ReplicationFactor - n

\* The replicas it may still order.
OwedBy(w) == IF pc[w] = "send" THEN Len(valid_peers[w]) ELSE left[w]

\* The same by registration: each has one round.
Owed(f, n) == IF \E w \in Workers : Round(w, f, n)
              THEN OwedBy(CHOOSE w \in Workers : Round(w, f, n)) ELSE 0

Users == {peers[i].peer : i \in DOMAIN peers}
HoldersOf == [f \in Files |-> Holders(f)]
CopiesOf == [f \in Files |-> Len(file_peer_map[f])]
Budget == [f \in Files |-> [n \in 1..(ReplicationFactor - 1) |-> Owed(f, n)]]

Promise == INSTANCE Catalogue WITH
  running <- server_up, users <- Users, holders <- HoldersOf, copies <- CopiesOf,
  budget <- Budget, orders <- inbox, last <- reply

\* The server implements Catalogue: although handlers interleave and a round of
\* find_replication_peers looks at an index that changes, a search names a holder
\* of the moment it is answered, orders go from holders to users, and no more are
\* given for a registration than it found missing: replication does not feed itself,
\* however many copies are registered.
ImplementsCatalogue == Promise!Spec
=============================================================================
