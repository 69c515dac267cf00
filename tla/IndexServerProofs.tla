------------------------- MODULE IndexServerProofs -------------------------
(***************************************************************************)
(* Theorems about IndexServer, for any peers, files, workers, sockets and  *)
(* replication factor.  A round of find_replication_peers is a walk around *)
(* a ring: RoundInv says where it has been and what it took there, CopyInv *)
(* which registration it belongs to.                                       *)
(***************************************************************************)
EXTENDS IndexServer, FiniteSetTheorems, SequenceTheorems, TLAPS

InRound(w) == pc[w] \in {"replicate", "scan", "send"}

\* What a worker handles is what it took from the queue.
MsgOf(w) ==
  /\ pc[w] # "idle" => msg[w] \in Messages
  /\ pc[w] \in {"NEW_USER", "REGISTER_FILE", "SEARCH_INDEX"} => msg[w].type = pc[w]
  /\ InRound(w) => msg[w].type = "REGISTER_FILE"

\* A round belongs to a registration, which is in the index.
CopyOf(w) ==
  InRound(w) =>
    /\ 1 <= left[w] /\ left[w] < ReplicationFactor
    /\ ReplicationFactor - left[w] <= Len(file_peer_map[msg[w].file])
    /\ msg[w].peer \in Holders(msg[w].file)

\* The places of a ring of n from a up to i, without i; and those a walk has been to.
Arc(n, a, i) == IF a <= i THEN a..(i - 1) ELSE (a..(n - 1)) \cup (0..(i - 1))
Visited(w) == Arc(Len(peers), start[w], idx[w])

\* Where each of the peers found was found.
Origin(w, g) ==
  /\ g \in [1..Len(valid_peers[w]) -> 1..Len(peers)]
  /\ \A i, j \in 1..Len(valid_peers[w]) : g[i] = g[j] => i = j
  /\ \A i \in 1..Len(valid_peers[w]) : peers[g[i]] = valid_peers[w][i]
  /\ pc[w] = "scan" => \A i \in 1..Len(valid_peers[w]) : g[i] - 1 \in Visited(w)

RoundOf(w) ==
  /\ pc[w] = "replicate" => valid_peers[w] = <<>>
  /\ pc[w] = "scan" => Len(valid_peers[w]) < left[w]
  /\ pc[w] = "send" => Len(valid_peers[w]) <= left[w]
  /\ pc[w] \in {"scan", "send"} => \E g : Origin(w, g)

\* Whoever the walk has passed is in the index or among those it takes.
SeenOf(w) ==
  pc[w] = "scan" =>
    \A i \in Visited(w) :
      \/ contains_peer(msg[w].file, peers[i + 1])
      \/ \E j \in DOMAIN valid_peers[w] : valid_peers[w][j] = peers[i + 1]

WorkerInv(w) == MsgOf(w) /\ CopyOf(w) /\ RoundOf(w) /\ SeenOf(w)

\* No two rounds belong to the same registration.
OwnRegistration ==
  \A v, w \in Workers :
    InRound(v) /\ InRound(w) /\ msg[v].file = msg[w].file /\ left[v] = left[w] => v = w

IInv == TypeOK /\ OwnRegistration /\ \A w \in Workers : WorkerInv(w)

-----------------------------------------------------------------------------
(* Operators.                                                              *)

\* One step around a ring of n places.
LEMMA Around ==
  ASSUME NEW n \in Nat, NEW i \in 0..(n - 1)
  PROVE  (i + 1) % n = IF i + 1 = n THEN 0 ELSE i + 1
OBVIOUS

LEMMA ArcFacts ==
  ASSUME NEW n \in Nat, NEW a \in 0..(n - 1), NEW i \in 0..(n - 1)
  PROVE  i \notin Arc(n, a, i) /\ Arc(n, a, i) \subseteq 0..(n - 1)
BY DEF Arc

LEMMA ArcEmpty ==
  ASSUME NEW n, NEW a \in Nat
  PROVE  Arc(n, a, a) = {}
BY DEF Arc

LEMMA ArcGrows ==
  ASSUME NEW n \in Nat, NEW a \in 0..(n - 1), NEW i \in 0..(n - 1),
         NEW j, j = IF i + 1 = n THEN 0 ELSE i + 1
  PROVE  IF j = a THEN Arc(n, a, i) \cup {i} = 0..(n - 1)
         ELSE Arc(n, a, j) = Arc(n, a, i) \cup {i}
<1>1. CASE j = a
  BY <1>1 DEF Arc
<1>2. CASE j # a /\ a <= i /\ i + 1 = n
  BY <1>2 DEF Arc
<1>3. CASE j # a /\ a <= i /\ i + 1 # n
  BY <1>3 DEF Arc
<1>4. CASE j # a /\ ~(a <= i)
  BY <1>4 DEF Arc
<1> QED BY <1>1, <1>2, <1>3, <1>4

\* What a message is, by its type.
LEMMA MessageFields ==
  ASSUME NEW m \in Messages
  PROVE  /\ m.peer \in Peers
         /\ m.type \in {"NEW_USER", "REGISTER_FILE", "SEARCH_INDEX"}
         /\ m.type # "NEW_USER" => m.file \in Files
BY DEF Messages

LEMMA QueueHead ==
  ASSUME NEW S, NEW q \in Seq(S), q # <<>>
  PROVE  Head(q) \in S /\ Tail(q) \in Seq(S)
BY HeadTailProperties

\* Appending adds one element at the end and moves no other.
LEMMA AppendFacts ==
  ASSUME NEW S, NEW q \in Seq(S), NEW e \in S
  PROVE  /\ Append(q, e) \in Seq(S)
         /\ Len(Append(q, e)) = Len(q) + 1
         /\ DOMAIN q = 1..Len(q) /\ Len(q) \in Nat
         /\ DOMAIN Append(q, e) = 1..(Len(q) + 1)
         /\ \A i \in 1..Len(q) : Append(q, e)[i] = q[i]
         /\ Append(q, e)[Len(q) + 1] = e
BY AppendProperties, LenProperties

-----------------------------------------------------------------------------
(* Type correctness.                                                       *)

\* Every step keeps the types.
LEMMA TypeStep ==
  ASSUME TypeOK, \A w \in Workers : MsgOf(w), [Next]_vars
  PROVE  TypeOK'
<1> USE IndexAssumption
<1>1. ASSUME NEW m \in Messages, Connect(m) PROVE TypeOK'
  BY <1>1, AppendFacts DEF Connect, Arrive, TypeOK, scan
<1>2. ASSUME NEW p \in MayLeave, Leave(p) PROVE TypeOK'
  BY <1>2 DEF Leave, TypeOK, scan
<1>3. ASSUME NEW w \in Workers, Take(w), UNCHANGED arrived PROVE TypeOK'
  <2>1. Head(queue) \in Messages /\ Tail(queue) \in Seq(Messages)
    BY <1>3, QueueHead DEF Take, TypeOK
  <2>2. Head(queue).type \in {"NEW_USER", "REGISTER_FILE", "SEARCH_INDEX"}
    BY <2>1, MessageFields
  <2> QED BY <1>3, <2>1, <2>2 DEF Take, TypeOK, scan
<1>4. ASSUME NEW w \in Workers, register_user(w), UNCHANGED arrived PROVE TypeOK'
  <2>1. msg[w].peer \in Peers
    BY <1>4, MessageFields DEF register_user, At, MsgOf
  <2>2. PICK s \in Sockets : peers' = Append(peers, [peer |-> msg[w].peer, sock |-> s])
    BY <1>4 DEF register_user
  <2>3. peers' \in Seq(Conns)
    BY <2>1, <2>2, AppendFacts DEF TypeOK, Conns
  <2>4. \A v \in Workers : pc[v] # "scan" /\ pc'[v] # "scan"
    BY <1>4 DEF register_user, At, Locked, Return, TypeOK
  <2> QED BY <1>4, <2>3, <2>4 DEF register_user, Return, TypeOK, scan
<1>5. ASSUME NEW w \in Workers, register_file(w), UNCHANGED arrived PROVE TypeOK'
  <2> DEFINE f == msg[w].file
  <2>1. f \in Files /\ msg[w].peer \in Peers
    BY <1>5, MessageFields DEF register_file, At, MsgOf
  <2>2. PICK s \in Sockets : add_peer(f, [peer |-> msg[w].peer, sock |-> s])
    BY <1>5 DEF register_file
  <2>3. file_peer_map' \in [Files -> Seq(Conns)]
    BY <2>1, <2>2, AppendFacts DEF TypeOK, Conns, add_peer
  <2>4. Copies(f) \in Nat
    BY <2>1, LenProperties DEF TypeOK, Copies
  <2>5. pc[w] = "REGISTER_FILE"
    BY <1>5 DEF register_file, At
  <2>6. CASE Copies(f) < ReplicationFactor
    <3>1. ReplicationFactor - Copies(f) \in Nat
      BY <2>4, <2>6
    <3>2. <<>> \in Seq(Conns)
      BY EmptySeq
    <3>3. /\ pc' = [pc EXCEPT ![w] = "replicate"] /\ msg' = msg
          /\ left' = [left EXCEPT ![w] = ReplicationFactor - Copies(f)]
          /\ valid_peers' = [valid_peers EXCEPT ![w] = <<>>]
          /\ UNCHANGED <<server_up, up, queue, peers, start, idx, inbox, reply>>
      BY <1>5, <2>6 DEF register_file, Goto
    <3>4. left' \in [Workers -> Nat] /\ valid_peers' \in [Workers -> Seq(Conns)]
      BY <3>1, <3>2, <3>3 DEF TypeOK
    <3>5. \A v \in Workers : pc'[v] = "scan" => pc[v] = "scan"
      BY <3>3 DEF TypeOK
    <3> QED BY <1>5, <2>3, <3>3, <3>4, <3>5 DEF TypeOK
  <2>7. CASE ~(Copies(f) < ReplicationFactor)
    BY <1>5, <2>3, <2>5, <2>7 DEF register_file, Return, TypeOK
  <2> QED BY <2>6, <2>7
<1>6. ASSUME NEW w \in Workers, search_index(w), UNCHANGED arrived PROVE TypeOK'
  <2>1. msg[w].file \in Files /\ msg[w].peer \in Peers
    BY <1>6, MessageFields DEF search_index, At, MsgOf
  <2>2. get_rand_peer(msg[w].file) \subseteq Peers \cup {NoPeer}
    <3>1. file_peer_map[msg[w].file] \in Seq(Conns)
      BY <2>1 DEF TypeOK
    <3>2. \A i \in DOMAIN file_peer_map[msg[w].file] : file_peer_map[msg[w].file][i] \in Conns
      BY <3>1, ElementOfSeq, LenProperties
    <3> QED BY <3>2 DEF get_rand_peer, Holders, Conns
  <2>3. reply' \in [Peers -> Peers \cup {NoPeer, NoReply}]
    BY <1>6, <2>1, <2>2 DEF search_index, TypeOK
  <2> QED BY <1>6, <2>3 DEF search_index, At, Return, TypeOK, scan
<1>7. ASSUME NEW w \in Workers, find_replication_peers(w), UNCHANGED arrived PROVE TypeOK'
  <2>1. Len(peers) \in Nat
    BY LenProperties DEF TypeOK
  <2>2. CASE peers = <<>>
    BY <1>7, <2>2, SMTT(30) DEF find_replication_peers, At, Goto, TypeOK
  <2>3. CASE peers # <<>>
    <3>1. PICK i \in 0..(Len(peers) - 1) :
            start' = [start EXCEPT ![w] = i] /\ idx' = [idx EXCEPT ![w] = i]
      BY <1>7, <2>3 DEF find_replication_peers, Starts
    <3>2. i \in Nat
      BY <2>1, <3>1
    <3> QED BY <1>7, <2>3, <3>1, <3>2 DEF find_replication_peers, At, Goto, TypeOK
  <2> QED BY <2>2, <2>3
<1>8. ASSUME NEW w \in Workers, look(w), UNCHANGED arrived PROVE TypeOK'
  <2> DEFINE c == peers[idx[w] + 1]
             next == (idx[w] + 1) % Len(peers)
             found == IF Pick(w, c, next) THEN Append(valid_peers[w], c) ELSE valid_peers[w]
  <2>1. Len(peers) \in Nat /\ idx[w] \in 0..(Len(peers) - 1) /\ DOMAIN peers = 1..Len(peers)
    BY <1>8, LenProperties DEF look, At, TypeOK
  <2>2. next \in 0..(Len(peers) - 1)
    BY <2>1, Around
  <2>3. c \in Conns
    BY <2>1, ElementOfSeq DEF TypeOK
  <2>4. found \in Seq(Conns)
    BY <2>3, AppendFacts DEF TypeOK
  <2>5. valid_peers' = [valid_peers EXCEPT ![w] = found] /\ idx' = [idx EXCEPT ![w] = next]
    BY <1>8 DEF look
  <2>6. pc' \in {pc, [pc EXCEPT ![w] = "send"]} /\ msg' = msg
    BY <1>8 DEF look, Goto
  <2> HIDE DEF next, found
  <2>7. idx' \in [Workers -> Nat] /\ valid_peers' \in [Workers -> Seq(Conns)]
    BY <2>1, <2>2, <2>4, <2>5 DEF TypeOK
  <2>8. pc' \in [Workers -> {"idle", "NEW_USER", "REGISTER_FILE", "SEARCH_INDEX", "replicate", "scan", "send"}]
    BY <2>6 DEF TypeOK
  <2>9. \A v \in Workers : pc'[v] = "scan" => pc[v] = "scan" /\ idx'[v] \in {idx[v], next}
    BY <2>5, <2>6 DEF TypeOK
  <2> QED BY <1>8, <2>2, <2>6, <2>7, <2>8, <2>9, SMTT(30) DEF look, TypeOK
<1>9. ASSUME NEW w \in Workers, request_replication(w), UNCHANGED arrived PROVE TypeOK'
  <2> DEFINE p == Head(valid_peers[w]).peer
  <2>1. Head(valid_peers[w]) \in Conns /\ Tail(valid_peers[w]) \in Seq(Conns)
    BY <1>9, QueueHead DEF request_replication, TypeOK
  <2>2. Order(w) \in Orders
    BY <1>9, MessageFields DEF request_replication, At, MsgOf, InRound, Order, Orders
  <2>3. p \in Peers
    BY <2>1 DEF Conns
  <2>4. inbox' \in [Peers -> Seq(Orders)]
    <3>1. Append(inbox[p], Order(w)) \in Seq(Orders)
      BY <2>2, <2>3, AppendFacts DEF TypeOK
    <3>2. inbox' \in {inbox, [inbox EXCEPT ![p] = Append(inbox[p], Order(w))]}
      BY <1>9, <2>3 DEF request_replication, TypeOK
    <3> QED BY <2>3, <3>1, <3>2 DEF TypeOK
  <2>5. valid_peers' \in [Workers -> Seq(Conns)]
    BY <1>9, <2>1 DEF request_replication, TypeOK
  <2>6. server_up' \in BOOLEAN
    BY <1>9 DEF request_replication, TypeOK
  <2> QED BY <1>9, <2>4, <2>5, <2>6 DEF request_replication, TypeOK
<1>10. ASSUME NEW w \in Workers, end_replication(w), UNCHANGED arrived PROVE TypeOK'
  BY <1>10 DEF end_replication, At, Return, TypeOK
<1>11. CASE UNCHANGED vars
  BY <1>11 DEF vars, scan, TypeOK
<1> QED BY <1>1, <1>2, <1>3, <1>4, <1>5, <1>6, <1>7, <1>8, <1>9, <1>10, <1>11 DEF Next, Work

-----------------------------------------------------------------------------
(* What a step leaves alone.                                               *)

\* Worker v does nothing.
Still(v) ==
  /\ pc'[v] = pc[v] /\ msg'[v] = msg[v] /\ left'[v] = left[v]
  /\ start'[v] = start[v] /\ idx'[v] = idx[v] /\ valid_peers'[v] = valid_peers[v]

\* A step is a step of one worker, or of none.
LEMMA OneWorkerMoves ==
  ASSUME TypeOK, [Next]_vars
  PROVE  \/ \A v \in Workers : Still(v)
         \/ \E w \in Workers : Work(w) /\ \A v \in Workers \ {w} : Still(v)
<1>1. ASSUME NEW m \in Messages, Connect(m) PROVE \A v \in Workers : Still(v)
  BY <1>1 DEF Connect, Arrive, scan, Still
<1>2. ASSUME NEW p \in MayLeave, Leave(p) PROVE \A v \in Workers : Still(v)
  BY <1>2 DEF Leave, scan, Still
<1>3. CASE UNCHANGED vars
  BY <1>3 DEF vars, scan, Still
<1>4. ASSUME NEW w \in Workers, Work(w) PROVE \A v \in Workers \ {w} : Still(v)
  <2> SUFFICES ASSUME NEW v \in Workers \ {w} PROVE Still(v)
    OBVIOUS
  <2>1. CASE Take(w) \/ register_user(w) \/ search_index(w)
    BY <2>1 DEF Take, register_user, search_index, Return, scan, Still, TypeOK
  <2>2. CASE register_file(w)
    BY <2>2 DEF register_file, Return, Goto, Still, TypeOK
  <2>3. CASE find_replication_peers(w)
    BY <2>3 DEF find_replication_peers, Goto, Still, TypeOK
  <2>4. CASE look(w)
    BY <2>4 DEF look, Goto, Still, TypeOK
  <2>5. CASE request_replication(w) \/ end_replication(w)
    BY <2>5 DEF request_replication, end_replication, Return, Still, TypeOK
  <2> QED BY <1>4, <2>1, <2>2, <2>3, <2>4, <2>5 DEF Work
<1> QED BY <1>1, <1>2, <1>3, <1>4 DEF Next

\* Both vectors only grow, at their end, and the peers not at all while a worker
\* walks over them.
Grown ==
  /\ Len(peers) <= Len(peers') /\ \A i \in 1..Len(peers) : peers'[i] = peers[i]
  /\ (\E v \in Workers : pc[v] = "scan") => peers' = peers
  /\ \A f \in Files : /\ Len(file_peer_map[f]) <= Len(file_peer_map'[f])
                     /\ \A i \in 1..Len(file_peer_map[f]) : file_peer_map'[f][i] = file_peer_map[f][i]

LEMMA Growth ==
  ASSUME TypeOK, \A w \in Workers : MsgOf(w), [Next]_vars
  PROVE  Grown
<1>1. Len(peers) \in Nat /\ \A f \in Files : Len(file_peer_map[f]) \in Nat
  BY LenProperties DEF TypeOK
<1>2. peers' = peers /\ file_peer_map' = file_peer_map => Grown
  BY <1>1 DEF Grown
<1>3. ASSUME NEW w \in Workers, register_user(w) PROVE Grown
  <2>1. msg[w].peer \in Peers
    BY <1>3, MessageFields DEF register_user, At, MsgOf
  <2>2. PICK s \in Sockets : peers' = Append(peers, [peer |-> msg[w].peer, sock |-> s])
    BY <1>3 DEF register_user
  <2>3. Len(peers) <= Len(peers') /\ \A i \in 1..Len(peers) : peers'[i] = peers[i]
    BY <1>1, <2>1, <2>2, AppendFacts DEF TypeOK, Conns
  <2> QED BY <1>1, <1>3, <2>3 DEF register_user, Locked, Grown
<1>4. ASSUME NEW w \in Workers, register_file(w) PROVE Grown
  <2>1. msg[w].file \in Files /\ msg[w].peer \in Peers
    BY <1>4, MessageFields DEF register_file, At, MsgOf
  <2>2. PICK s \in Sockets : add_peer(msg[w].file, [peer |-> msg[w].peer, sock |-> s])
    BY <1>4 DEF register_file
  <2> DEFINE c == [peer |-> msg[w].peer, sock |-> s]
  <2>3. \A f \in Files : file_peer_map'[f] \in {file_peer_map[f], Append(file_peer_map[f], c)}
    BY <2>1, <2>2 DEF add_peer, TypeOK
  <2>4. \A f \in Files : /\ Len(file_peer_map[f]) <= Len(file_peer_map'[f])
                       /\ \A i \in 1..Len(file_peer_map[f]) : file_peer_map'[f][i] = file_peer_map[f][i]
    <3> SUFFICES ASSUME NEW f \in Files
                 PROVE  /\ Len(file_peer_map[f]) <= Len(file_peer_map'[f])
                        /\ \A i \in 1..Len(file_peer_map[f]) : file_peer_map'[f][i] = file_peer_map[f][i]
      OBVIOUS
    <3>1. file_peer_map[f] \in Seq(Conns) /\ c \in Conns
      BY <2>1 DEF TypeOK, Conns
    <3> QED BY <1>1, <2>3, <3>1, AppendFacts
  <2> QED BY <1>1, <1>4, <2>4 DEF register_file, Grown
<1>5. ASSUME ~\E w \in Workers : register_user(w) \/ register_file(w)
      PROVE  peers' = peers /\ file_peer_map' = file_peer_map
  BY <1>5 DEF Next, Connect, Arrive, Leave, Work, Take, search_index, find_replication_peers, look,
     request_replication, end_replication, vars
<1> QED BY <1>2, <1>3, <1>4, <1>5

\* Whoever was in the index is in it.
LEMMA IndexGrows ==
  ASSUME TypeOK, TypeOK', Grown, NEW f \in Files
  PROVE  /\ Holders(f) \subseteq Holders(f)'
         /\ \A c \in Conns : contains_peer(f, c) => contains_peer(f, c)'
<1>1. DOMAIN file_peer_map[f] = 1..Len(file_peer_map[f]) /\ Len(file_peer_map[f]) \in Nat
  BY LenProperties DEF TypeOK
<1>2. DOMAIN file_peer_map'[f] = 1..Len(file_peer_map'[f]) /\ Len(file_peer_map'[f]) \in Nat
  BY LenProperties DEF TypeOK
<1>3. \A i \in DOMAIN file_peer_map[f] : i \in DOMAIN file_peer_map'[f] /\ file_peer_map'[f][i] = file_peer_map[f][i]
  BY <1>1, <1>2 DEF Grown
<1> QED BY <1>3 DEF Holders, contains_peer

\* The invariant of a worker survives the steps of others.
LEMMA StillInv ==
  ASSUME TypeOK, TypeOK', Grown, NEW v \in Workers, WorkerInv(v), Still(v)
  PROVE  WorkerInv(v)'
<1>1. InRound(v)' <=> InRound(v)
  BY DEF InRound, Still
<1>2. MsgOf(v)'
  BY <1>1 DEF MsgOf, Still, WorkerInv
<1>3. CopyOf(v)'
  <2> SUFFICES ASSUME InRound(v) PROVE CopyOf(v)'
    BY <1>1 DEF CopyOf
  <2>1. msg[v].file \in Files
    BY MessageFields DEF WorkerInv, MsgOf, InRound
  <2>2. Len(file_peer_map[msg[v].file]) <= Len(file_peer_map'[msg[v].file]) /\ left[v] \in Nat
    BY <2>1 DEF Grown, TypeOK
  <2>3. Len(file_peer_map[msg[v].file]) \in Nat /\ Len(file_peer_map'[msg[v].file]) \in Nat
    BY <2>1, LenProperties DEF TypeOK
  <2> QED BY <2>1, <2>2, <2>3, IndexGrows, IndexAssumption DEF CopyOf, WorkerInv, Still
<1>4. pc[v] = "scan" => peers' = peers /\ Visited(v)' = Visited(v)
  BY DEF Grown, Visited, Still
<1>5. RoundOf(v)'
  <2>1. ASSUME pc[v] \in {"scan", "send"} PROVE \E g : Origin(v, g)'
    <3>1. PICK g : Origin(v, g)
      BY <2>1 DEF RoundOf, WorkerInv
    <3>2. Len(peers) \in Nat /\ Len(peers') \in Nat /\ Len(peers) <= Len(peers')
      BY LenProperties DEF TypeOK, Grown
    <3>3. \A i \in 1..Len(valid_peers[v]) : g[i] \in 1..Len(peers) /\ g[i] \in 1..Len(peers')
      BY <3>1, <3>2 DEF Origin
    <3>4. g \in [1..Len(valid_peers[v]) -> 1..Len(peers')]
      BY <3>1, <3>3 DEF Origin
    <3>5. \A i \in 1..Len(valid_peers[v]) : peers'[g[i]] = valid_peers[v][i]
      BY <3>1, <3>3 DEF Origin, Grown
    <3>6. Origin(v, g)'
      BY <3>1, <3>4, <3>5, <1>4 DEF Origin, Still
    <3> QED BY <3>6
  <2> QED BY <2>1 DEF RoundOf, WorkerInv, Still
<1>6. SeenOf(v)'
  <2> SUFFICES ASSUME pc[v] = "scan", NEW i \in Visited(v)
               PROVE  \/ contains_peer(msg[v].file, peers[i + 1])'
                      \/ \E j \in DOMAIN valid_peers[v] : valid_peers[v][j] = peers[i + 1]
    BY <1>4 DEF SeenOf, Still
  <2>1. msg[v].file \in Files
    BY MessageFields DEF WorkerInv, MsgOf, InRound
  <2>2. i + 1 \in 1..Len(peers)
    <3>1. Len(peers) \in Nat /\ start[v] \in 0..(Len(peers) - 1) /\ idx[v] \in 0..(Len(peers) - 1)
      BY LenProperties DEF TypeOK
    <3>2. i \in 0..(Len(peers) - 1)
      BY <3>1, ArcFacts DEF Visited
    <3> QED BY <3>1, <3>2
  <2>3. peers[i + 1] \in Conns
    BY <2>2, ElementOfSeq DEF TypeOK
  <2>4. contains_peer(msg[v].file, peers[i + 1]) => contains_peer(msg[v].file, peers[i + 1])'
    BY <1>4, <2>1, <2>3, IndexGrows DEF contains_peer, Still
  <2> QED BY <2>4 DEF WorkerInv, SeenOf
<1> QED BY <1>2, <1>3, <1>5, <1>6 DEF WorkerInv

-----------------------------------------------------------------------------
(* The worker that moves.                                                  *)

\* A worker that is not in a round has little to keep.
LEMMA OutOfRound ==
  ASSUME NEW w \in Workers, MsgOf(w)', ~InRound(w)'
  PROVE  WorkerInv(w)'
BY DEF WorkerInv, CopyOf, RoundOf, SeenOf, InRound

LEMMA TakeInv ==
  ASSUME TypeOK, NEW w \in Workers, Take(w)
  PROVE  WorkerInv(w)'
<1>1. Head(queue) \in Messages
  BY QueueHead DEF Take, TypeOK
<1>2. pc'[w] = Head(queue).type /\ msg'[w] = Head(queue)
  BY DEF Take, TypeOK
<1> QED BY <1>1, <1>2, MessageFields, OutOfRound DEF MsgOf, InRound

LEMMA ReturnInv ==
  ASSUME TypeOK, NEW w \in Workers, Return(w)
  PROVE  pc'[w] = "idle" /\ WorkerInv(w)'
<1>1. pc'[w] = "idle"
  BY DEF Return, TypeOK
<1> QED BY <1>1, OutOfRound DEF MsgOf, InRound

\* A registration adds one copy and its holder to the index.
LEMMA RegisterEffect ==
  ASSUME TypeOK, NEW w \in Workers, MsgOf(w), register_file(w), NEW f, f = msg[w].file
  PROVE  /\ f \in Files /\ msg[w].peer \in Peers
         /\ Copies(f) \in Nat
         /\ Len(file_peer_map[f]) = Copies(f) - 1 /\ Len(file_peer_map'[f]) = Copies(f)
         /\ Holders(f)' = Holders(f) \cup {msg[w].peer}
         /\ \A g \in Files \ {f} : file_peer_map'[g] = file_peer_map[g]
<1>1. f \in Files /\ msg[w].peer \in Peers
  BY MessageFields DEF register_file, At, MsgOf
<1>2. PICK s \in Sockets : add_peer(f, [peer |-> msg[w].peer, sock |-> s])
  BY DEF register_file
<1> DEFINE c == [peer |-> msg[w].peer, sock |-> s]
           n == Len(file_peer_map[f])
<1>3. file_peer_map[f] \in Seq(Conns) /\ c \in Conns
  BY <1>1 DEF TypeOK, Conns
<1>4. file_peer_map'[f] = Append(file_peer_map[f], c)
  BY <1>1, <1>2 DEF add_peer, TypeOK
<1>5. n \in Nat
  BY <1>3, LenProperties
<1>6. /\ DOMAIN file_peer_map[f] = 1..n
      /\ DOMAIN file_peer_map'[f] = 1..(n + 1)
      /\ \A i \in 1..n : file_peer_map'[f][i] = file_peer_map[f][i]
      /\ file_peer_map'[f][n + 1] = c
  BY <1>3, <1>4, AppendFacts
<1>7. Copies(f) \in Nat /\ n = Copies(f) - 1 /\ Len(file_peer_map'[f]) = Copies(f)
  BY <1>3, <1>4, <1>5, AppendFacts DEF Copies
<1>8. Holders(f)' = Holders(f) \cup {msg[w].peer}
  <2> DEFINE was == file_peer_map[f]
             now == file_peer_map'[f]
  <2>1. Holders(f) = {was[i].peer : i \in 1..n} /\ Holders(f)' = {now[i].peer : i \in 1..(n + 1)}
    BY <1>6 DEF Holders
  <2>2. \A i \in 1..n : now[i] = was[i] /\ i \in 1..(n + 1)
    BY <1>5, <1>6
  <2>3. \A i \in 1..(n + 1) : i = n + 1 \/ i \in 1..n
    BY <1>5
  <2>4. now[n + 1].peer = msg[w].peer /\ n + 1 \in 1..(n + 1)
    BY <1>5, <1>6
  <2> HIDE DEF was, now, n, c
  <2>5. ASSUME NEW h \in Holders(f)' PROVE h \in Holders(f) \cup {msg[w].peer}
    <3>1. PICK i \in 1..(n + 1) : h = now[i].peer
      BY <2>1, <2>5
    <3> QED BY <2>1, <2>2, <2>3, <2>4, <3>1
  <2>6. \A h \in Holders(f) : h \in Holders(f)'
    BY <2>1, <2>2
  <2>7. msg[w].peer \in Holders(f)'
    BY <2>1, <2>4
  <2> QED BY <2>5, <2>6, <2>7
<1>9. \A g \in Files \ {f} : file_peer_map'[g] = file_peer_map[g]
  BY <1>1, <1>2 DEF add_peer, TypeOK
<1> QED BY <1>1, <1>7, <1>8, <1>9

LEMMA RegisterInv ==
  ASSUME TypeOK, NEW w \in Workers, MsgOf(w), register_file(w)
  PROVE  WorkerInv(w)'
<1> SUFFICES ASSUME NEW f, f = msg[w].file PROVE WorkerInv(w)'
  OBVIOUS
<1>1. CASE Copies(f) < ReplicationFactor
  <2>1. /\ pc'[w] = "replicate" /\ msg'[w] = msg[w]
        /\ left'[w] = ReplicationFactor - Copies(f)
        /\ valid_peers'[w] = <<>>
    BY <1>1 DEF register_file, Goto, TypeOK
  <2>2. /\ Copies(f) \in Nat /\ Len(file_peer_map'[f]) = Copies(f)
        /\ msg[w].peer \in Holders(f)' /\ Copies(f) >= 1
    <3>1. /\ f \in Files /\ Copies(f) \in Nat /\ Len(file_peer_map[f]) = Copies(f) - 1
          /\ Len(file_peer_map'[f]) = Copies(f) /\ Holders(f)' = Holders(f) \cup {msg[w].peer}
      BY RegisterEffect
    <3>2. Len(file_peer_map[f]) \in Nat
      BY <3>1, LenProperties DEF TypeOK
    <3> QED BY <3>1, <3>2
  <2>3. CopyOf(w)'
    BY <1>1, <2>1, <2>2, IndexAssumption DEF CopyOf, Holders
  <2>4. MsgOf(w)'
    BY <2>1 DEF MsgOf, register_file, At, InRound
  <2> QED BY <2>1, <2>3, <2>4 DEF WorkerInv, RoundOf, SeenOf
<1>2. CASE ~(Copies(f) < ReplicationFactor)
  BY <1>2, ReturnInv DEF register_file
<1> QED BY <1>1, <1>2

\* A walk begins with nothing visited and nothing found.
LEMMA BeginInv ==
  ASSUME TypeOK, TypeOK', NEW w \in Workers, WorkerInv(w), find_replication_peers(w)
  PROVE  WorkerInv(w)'
<1>1. /\ pc[w] = "replicate" /\ msg' = msg /\ left' = left /\ file_peer_map' = file_peer_map
      /\ peers' = peers /\ valid_peers' = valid_peers /\ valid_peers[w] = <<>>
      /\ pc'[w] = IF peers = <<>> THEN "send" ELSE "scan"
  BY DEF find_replication_peers, At, Goto, TypeOK, WorkerInv, RoundOf
<1>2. MsgOf(w)' /\ CopyOf(w)'
  BY <1>1 DEF WorkerInv, MsgOf, CopyOf, InRound, Holders
<1>3. Len(valid_peers[w]) = 0 /\ left[w] \in Nat /\ 1 <= left[w]
  BY <1>1, EmptySeq DEF WorkerInv, CopyOf, InRound, TypeOK
<1>4. pc'[w] = "scan" => start'[w] = idx'[w] /\ Visited(w)' = {}
  <2>1. ASSUME pc'[w] = "scan" PROVE start'[w] = idx'[w] /\ idx'[w] \in Nat
    BY <1>1, <2>1 DEF find_replication_peers, TypeOK
  <2> QED BY <2>1, ArcEmpty DEF Visited
<1>5. Origin(w, [i \in 1..0 |-> 0])'
  BY <1>1, <1>3 DEF Origin
<1>6. RoundOf(w)'
  BY <1>1, <1>3, <1>5 DEF RoundOf
<1>7. SeenOf(w)'
  BY <1>4 DEF SeenOf
<1> QED BY <1>2, <1>6, <1>7 DEF WorkerInv

\* Orders leave from the front.
LEMMA OrderInv ==
  ASSUME TypeOK, TypeOK', NEW w \in Workers, WorkerInv(w), request_replication(w)
  PROVE  WorkerInv(w)'
<1>1. /\ pc[w] = "send" /\ msg' = msg /\ left' = left /\ file_peer_map' = file_peer_map
      /\ peers' = peers /\ pc' = pc /\ valid_peers[w] # <<>>
      /\ valid_peers'[w] \in {valid_peers[w], Tail(valid_peers[w])}
  <2>1. CASE Head(valid_peers[w]).peer \in up
    BY <2>1 DEF request_replication, At, TypeOK
  <2>2. CASE Head(valid_peers[w]).peer \notin up
    BY <2>2 DEF request_replication, At
  <2> QED BY <2>1, <2>2
<1>2. MsgOf(w)' /\ CopyOf(w)'
  BY <1>1 DEF WorkerInv, MsgOf, CopyOf, InRound, Holders
<1>3. SeenOf(w)'
  BY <1>1 DEF SeenOf
<1>4. PICK g : Origin(w, g)
  BY <1>1 DEF WorkerInv, RoundOf
<1> DEFINE n == Len(valid_peers[w])
<1>5. n \in Nat /\ n <= left[w] /\ left[w] \in Nat
  BY <1>1, LenProperties DEF WorkerInv, RoundOf, TypeOK
<1>6. CASE valid_peers'[w] = valid_peers[w]
  <2>1. Origin(w, g)'
    BY <1>1, <1>4, <1>6 DEF Origin
  <2>2. RoundOf(w)'
    BY <1>1, <1>5, <1>6, <2>1 DEF RoundOf
  <2> QED BY <1>2, <1>3, <2>2 DEF WorkerInv
<1>7. CASE valid_peers'[w] = Tail(valid_peers[w])
  <2> DEFINE m == Len(valid_peers'[w])
  <2>1. m = n - 1 /\ m \in Nat /\ \A i \in 1..m : valid_peers'[w][i] = valid_peers[w][i + 1]
    BY <1>1, <1>5, <1>7, HeadTailProperties DEF TypeOK
  <2>2. \A i \in 1..m : i + 1 \in 1..n
    BY <1>5, <2>1
  <2>3. PICK h : h = [i \in 1..m |-> g[i + 1]]
    OBVIOUS
  <2>4. /\ h \in [1..m -> 1..Len(peers)]
        /\ \A i, j \in 1..m : h[i] = h[j] => i = j
    BY <1>4, <1>5, <2>1, <2>2, <2>3 DEF Origin
  <2>5. \A i \in 1..m : peers[h[i]] = valid_peers'[w][i]
    BY <1>4, <2>1, <2>2, <2>3 DEF Origin
  <2>6. Origin(w, h)'
    BY <1>1, <2>4, <2>5 DEF Origin
  <2>7. RoundOf(w)'
    BY <1>1, <1>5, <2>1, <2>6 DEF RoundOf
  <2> QED BY <1>2, <1>3, <2>7 DEF WorkerInv
<1> QED BY <1>1, <1>6, <1>7

\* A look goes one step around the ring of the peers, and the walk that comes back
\* to where it began has been everywhere.
LEMMA LookMoves ==
  ASSUME TypeOK, NEW w \in Workers, look(w)
  PROVE  /\ idx[w] \in 0..(Len(peers) - 1) /\ idx[w] \notin Visited(w)
         /\ Visited(w) \subseteq 0..(Len(peers) - 1)
         /\ idx'[w] # start[w] => Visited(w)' = Visited(w) \cup {idx[w]}
         /\ idx'[w] = start[w] => Visited(w) \cup {idx[w]} = 0..(Len(peers) - 1)
<1>1. /\ Len(peers) \in Nat /\ start[w] \in 0..(Len(peers) - 1) /\ idx[w] \in 0..(Len(peers) - 1)
  BY LenProperties DEF look, At, TypeOK
<1>2. idx'[w] = (idx[w] + 1) % Len(peers) /\ peers' = peers /\ start' = start
  BY DEF look, TypeOK
<1>3. idx'[w] = IF idx[w] + 1 = Len(peers) THEN 0 ELSE idx[w] + 1
  BY <1>1, <1>2, Around
<1>4. idx[w] \notin Visited(w) /\ Visited(w) \subseteq 0..(Len(peers) - 1)
  BY <1>1, ArcFacts DEF Visited
<1>5. Visited(w)' = Arc(Len(peers), start[w], idx'[w])
  BY <1>2 DEF Visited
<1>6. IF idx'[w] = start[w] THEN Arc(Len(peers), start[w], idx[w]) \cup {idx[w]} = 0..(Len(peers) - 1)
      ELSE Arc(Len(peers), start[w], idx'[w]) = Arc(Len(peers), start[w], idx[w]) \cup {idx[w]}
  BY <1>1, <1>3, ArcGrows, SMTT(30)
<1> QED BY <1>1, <1>4, <1>5, <1>6 DEF Visited

\* What a look takes: the peer it sees, at the end, unless that one is in the index.
LEMMA LookTakes ==
  ASSUME TypeOK, NEW w \in Workers, look(w), NEW c, c = peers[idx[w] + 1]
  PROVE  /\ pc[w] = "scan" /\ pc'[w] \in {"scan", "send"}
         /\ UNCHANGED <<peers, file_peer_map, msg, left, start>>
         /\ c \in Conns
         /\ IF contains_peer(msg[w].file, c) THEN valid_peers'[w] = valid_peers[w]
            ELSE /\ Len(valid_peers'[w]) = Len(valid_peers[w]) + 1
                 /\ \A i \in 1..Len(valid_peers[w]) : valid_peers'[w][i] = valid_peers[w][i]
                 /\ valid_peers'[w][Len(valid_peers[w]) + 1] = c
         /\ pc'[w] = "send" <=> (idx'[w] = start[w] \/ Len(valid_peers'[w]) = left[w])
<1>1. Len(peers) \in Nat /\ idx[w] + 1 \in 1..Len(peers) /\ DOMAIN peers = 1..Len(peers)
  BY LenProperties DEF look, At, TypeOK
<1>2. c \in Conns
  BY <1>1, ElementOfSeq DEF TypeOK
<1>3. /\ pc[w] = "scan" /\ UNCHANGED <<peers, file_peer_map, msg, left, start>>
      /\ idx'[w] = (idx[w] + 1) % Len(peers)
  BY DEF look, At, Goto, TypeOK
<1>4. valid_peers'[w] = IF contains_peer(msg[w].file, c) THEN valid_peers[w] ELSE Append(valid_peers[w], c)
  BY DEF look, Pick, TypeOK
<1>5. /\ pc'[w] \in {"scan", "send"}
      /\ pc'[w] = "send" <=> (idx'[w] = start[w] \/ Len(valid_peers'[w]) = left[w])
  BY <1>3, <1>4 DEF look, RoundEnds, Pick, Goto, TypeOK
<1>6. valid_peers[w] \in Seq(Conns)
  BY DEF TypeOK
<1> QED BY <1>2, <1>3, <1>4, <1>5, <1>6, AppendFacts

\* Whoever a walk has been to, this look included, is in the index or taken.
LEMMA LookSees ==
  ASSUME TypeOK, TypeOK', NEW w \in Workers, WorkerInv(w), look(w), NEW i \in Visited(w) \cup {idx[w]}
  PROVE  \/ contains_peer(msg[w].file, peers[i + 1])
         \/ \E j \in DOMAIN valid_peers'[w] : valid_peers'[w][j] = peers[i + 1]
<1> DEFINE n == Len(valid_peers[w])
<1>1. /\ n \in Nat /\ DOMAIN valid_peers[w] = 1..n
      /\ DOMAIN valid_peers'[w] = 1..Len(valid_peers'[w])
  BY LenProperties DEF TypeOK
<1>2. \A j \in 1..n : j \in DOMAIN valid_peers'[w] /\ valid_peers'[w][j] = valid_peers[w][j]
  <2>1. CASE contains_peer(msg[w].file, peers[idx[w] + 1])
    BY <1>1, <2>1, LookTakes
  <2>2. CASE ~contains_peer(msg[w].file, peers[idx[w] + 1])
    BY <1>1, <2>2, LookTakes
  <2> QED BY <2>1, <2>2
<1>3. CASE i \in Visited(w)
  BY <1>1, <1>2, <1>3, LookTakes DEF WorkerInv, SeenOf
<1>4. CASE i = idx[w] /\ ~contains_peer(msg[w].file, peers[i + 1])
  <2>1. Len(valid_peers'[w]) = n + 1 /\ valid_peers'[w][n + 1] = peers[i + 1]
    BY <1>4, LookTakes
  <2>2. n + 1 \in DOMAIN valid_peers'[w]
    BY <1>1, <2>1
  <2> QED BY <2>1, <2>2
<1> QED BY <1>3, <1>4

LEMMA LookInv ==
  ASSUME TypeOK, TypeOK', NEW w \in Workers, WorkerInv(w), look(w)
  PROVE  WorkerInv(w)'
<1> SUFFICES ASSUME NEW c, c = peers[idx[w] + 1] PROVE WorkerInv(w)'
  OBVIOUS
<1> DEFINE n == Len(valid_peers[w])
<1>1. /\ pc[w] = "scan" /\ pc'[w] \in {"scan", "send"}
      /\ UNCHANGED <<peers, file_peer_map, msg, left, start>>
      /\ pc'[w] = "send" <=> (idx'[w] = start[w] \/ Len(valid_peers'[w]) = left[w])
  BY LookTakes
<1>2. MsgOf(w)' /\ CopyOf(w)'
  BY <1>1 DEF WorkerInv, MsgOf, CopyOf, InRound, Holders
<1>3. n \in Nat /\ n < left[w] /\ left[w] \in Nat /\ Len(peers) \in Nat
  BY <1>1, LenProperties DEF WorkerInv, RoundOf, TypeOK
<1>4. PICK g : Origin(w, g)
  BY <1>1 DEF WorkerInv, RoundOf
<1>5. Len(valid_peers'[w]) <= left[w]
  BY <1>3, LookTakes
<1>6. pc'[w] = "scan" => Visited(w)' = Visited(w) \cup {idx[w]}
  BY <1>1, LookMoves
<1>7. \E h : Origin(w, h)'
  <2>1. CASE contains_peer(msg[w].file, c)
    <3>1. valid_peers'[w] = valid_peers[w]
      BY <2>1, LookTakes
    <3>2. Origin(w, g)'
      BY <1>1, <1>4, <1>6, <3>1 DEF Origin
    <3> QED BY <3>2
  <2>2. CASE ~contains_peer(msg[w].file, c)
    <3>1. /\ Len(valid_peers'[w]) = n + 1 /\ valid_peers'[w][n + 1] = c
          /\ \A i \in 1..n : valid_peers'[w][i] = valid_peers[w][i]
      BY <2>2, LookTakes
    <3>2. PICK h : h = [i \in 1..(n + 1) |-> IF i = n + 1 THEN idx[w] + 1 ELSE g[i]]
      OBVIOUS
    <3>3. /\ \A i \in 1..n : i \in 1..(n + 1) /\ i # n + 1
          /\ \A i \in 1..(n + 1) : i = n + 1 \/ i \in 1..n
          /\ n + 1 \in 1..(n + 1)
      BY <1>3
    <3>4. \A i \in 1..n : h[i] = g[i] /\ g[i] \in 1..Len(peers) /\ g[i] - 1 \in Visited(w)
      BY <1>1, <1>4, <3>2, <3>3 DEF Origin
    <3>5. h[n + 1] = idx[w] + 1 /\ idx[w] + 1 \in 1..Len(peers)
      BY <1>3, <3>2, <3>3, LookMoves, SMTT(30)
    <3>6. \A i \in 1..n : h[i] # h[n + 1]
      BY <3>4, <3>5, LookMoves, SMTT(30)
    <3>7. h \in [1..(n + 1) -> 1..Len(peers)]
      BY <3>2, <3>3, <3>4, <3>5
    <3>8. \A i, j \in 1..(n + 1) : h[i] = h[j] => i = j
      BY <1>4, <3>3, <3>4, <3>6 DEF Origin
    <3>9. \A i \in 1..(n + 1) : peers[h[i]] = valid_peers'[w][i]
      BY <1>4, <3>1, <3>3, <3>4, <3>5 DEF Origin
    <3>10. \A i \in 1..(n + 1) : h[i] - 1 \in Visited(w) \cup {idx[w]}
      BY <3>3, <3>4, <3>5, LookMoves, SMTT(30)
    <3>11. Origin(w, h)'
      BY <1>1, <1>6, <3>1, <3>7, <3>8, <3>9, <3>10 DEF Origin
    <3> QED BY <3>11
  <2> QED BY <2>1, <2>2
<1>8. Len(valid_peers'[w]) \in Nat
  BY LenProperties DEF TypeOK
<1>9. RoundOf(w)'
  BY <1>1, <1>3, <1>5, <1>7, <1>8 DEF RoundOf
<1>10. SeenOf(w)'
  <2> SUFFICES ASSUME pc'[w] = "scan", NEW i \in Visited(w) \cup {idx[w]}
               PROVE  \/ contains_peer(msg[w].file, peers[i + 1])
                      \/ \E j \in DOMAIN valid_peers'[w] : valid_peers'[w][j] = peers[i + 1]
    BY <1>1, <1>6 DEF SeenOf, contains_peer
  <2> QED BY LookSees
<1> QED BY <1>2, <1>9, <1>10 DEF WorkerInv

-----------------------------------------------------------------------------
(* The invariant.                                                          *)

\* A worker is in a round because it was, or because it just registered a file.
LEMMA RoundStep ==
  ASSUME TypeOK, NEW w \in Workers, Work(w), InRound(w)'
  PROVE  \/ InRound(w) /\ msg'[w] = msg[w] /\ left'[w] = left[w]
         \/ /\ register_file(w) /\ ~InRound(w) /\ msg'[w] = msg[w]
            /\ left'[w] = ReplicationFactor - Copies(msg[w].file)
<1>1. ASSUME Take(w) PROVE ~InRound(w)'
  <2>1. Head(queue).type \in {"NEW_USER", "REGISTER_FILE", "SEARCH_INDEX"}
    BY <1>1, QueueHead, MessageFields DEF Take, TypeOK
  <2> QED BY <1>1, <2>1 DEF Take, InRound, TypeOK
<1>2. Return(w) => ~InRound(w)'
  BY ReturnInv DEF InRound
<1>3. CASE register_file(w)
  <2>1. CASE Copies(msg[w].file) < ReplicationFactor
    BY <1>3, <2>1 DEF register_file, At, Goto, InRound, TypeOK
  <2>2. CASE ~(Copies(msg[w].file) < ReplicationFactor)
    BY <1>2, <1>3, <2>2 DEF register_file
  <2> QED BY <2>1, <2>2
<1>4. CASE find_replication_peers(w)
  BY <1>4 DEF find_replication_peers, At, Goto, InRound
<1>5. CASE look(w)
  BY <1>5, LookTakes DEF InRound
<1>6. CASE request_replication(w)
  BY <1>6 DEF request_replication, At, InRound
<1>7. register_user(w) \/ search_index(w) \/ end_replication(w) => Return(w)
  BY DEF register_user, search_index, end_replication
<1> QED BY <1>1, <1>2, <1>3, <1>4, <1>5, <1>6, <1>7 DEF Work

\* A registration finds more copies than any round before it.
LEMMA NewerRound ==
  ASSUME TypeOK, NEW w \in Workers, MsgOf(w), register_file(w),
         NEW v \in Workers, CopyOf(v), InRound(v), msg[v].file = msg[w].file
  PROVE  ReplicationFactor - Copies(msg[w].file) < left[v]
<1>1. Len(file_peer_map[msg[w].file]) = Copies(msg[w].file) - 1 /\ Copies(msg[w].file) \in Nat
  BY RegisterEffect
<1>2. left[v] \in Nat /\ ReplicationFactor \in Nat
  BY IndexAssumption DEF TypeOK
<1>3. ReplicationFactor - left[v] <= Len(file_peer_map[msg[w].file])
  BY DEF CopyOf
<1> QED BY <1>1, <1>2, <1>3

LEMMA OwnStep ==
  ASSUME IInv, [Next]_vars
  PROVE  OwnRegistration'
<1> USE DEF IInv
<1>1. CASE \A v \in Workers : Still(v)
  BY <1>1 DEF OwnRegistration, Still, InRound
<1>2. ASSUME NEW w \in Workers, Work(w), \A v \in Workers \ {w} : Still(v) PROVE OwnRegistration'
  <2>1. ASSUME NEW v \in Workers, v # w, InRound(v)', InRound(w)', msg'[v].file = msg'[w].file
        PROVE  left'[v] # left'[w]
    <3>1. InRound(v) /\ msg'[v] = msg[v] /\ left'[v] = left[v]
      BY <1>2, <2>1 DEF Still, InRound
    <3>2. CASE InRound(w) /\ msg'[w] = msg[w] /\ left'[w] = left[w]
      BY <2>1, <3>1, <3>2 DEF OwnRegistration
    <3>3. CASE register_file(w) /\ msg'[w] = msg[w] /\ left'[w] = ReplicationFactor - Copies(msg[w].file)
      <4>1. ReplicationFactor - Copies(msg[w].file) < left[v]
        BY <2>1, <3>1, <3>3, NewerRound DEF WorkerInv
      <4>2. left[v] \in Nat
        BY DEF TypeOK
      <4> QED BY <3>1, <3>3, <4>1, <4>2
    <3> QED BY <1>2, <2>1, <3>2, <3>3, RoundStep
  <2>2. ASSUME NEW v \in Workers \ {w}, NEW u \in Workers \ {w}, InRound(v)', InRound(u)',
               msg'[v].file = msg'[u].file, left'[v] = left'[u]
        PROVE  v = u
    BY <1>2, <2>2 DEF OwnRegistration, Still, InRound
  <2> SUFFICES ASSUME NEW v \in Workers, NEW u \in Workers, InRound(v)', InRound(u)',
                      msg'[v].file = msg'[u].file, left'[v] = left'[u]
               PROVE  v = u
    BY DEF OwnRegistration
  <2> QED BY <2>1, <2>2
<1> QED BY <1>1, <1>2, OneWorkerMoves

LEMMA WorkerStep ==
  ASSUME IInv, TypeOK', [Next]_vars, NEW v \in Workers
  PROVE  WorkerInv(v)'
<1> USE DEF IInv
<1>1. Grown
  BY Growth DEF WorkerInv
<1>2. CASE Still(v)
  BY <1>1, <1>2, StillInv
<1>3. CASE Work(v)
  <2>1. MsgOf(v)
    BY DEF WorkerInv
  <2>2. CASE register_user(v) \/ search_index(v) \/ end_replication(v)
    BY <2>2, ReturnInv DEF register_user, search_index, end_replication
  <2> QED BY <1>3, <2>1, <2>2, TakeInv, RegisterInv, BeginInv, LookInv, OrderInv DEF Work
<1> QED BY <1>2, <1>3, OneWorkerMoves

LEMMA InitInv ==
  ASSUME Init
  PROVE  IInv
<1> USE DEF Init
<1>1. TypeOK
  BY IndexAssumption, EmptySeq DEF TypeOK
<1>2. \A w \in Workers : pc[w] = "idle"
  OBVIOUS
<1> QED BY <1>1, <1>2 DEF IInv, OwnRegistration, WorkerInv, MsgOf, CopyOf, RoundOf, SeenOf, InRound

LEMMA InvStep ==
  ASSUME IInv, [Next]_vars
  PROVE  IInv'
<1>1. TypeOK'
  BY TypeStep DEF IInv, WorkerInv
<1> QED BY <1>1, OwnStep, WorkerStep DEF IInv

\* What every reachable state satisfies: the walks of the workers around the vector
\* of peers, whatever other workers did meanwhile.
THEOREM Invariance == Spec => []IInv
<1>1. Init => IInv
  BY InitInv
<1>2. IInv /\ [Next]_vars => IInv'
  BY InvStep
<1> QED BY <1>1, <1>2, PTL DEF Spec

\* Type correctness; in particular peers.at() never throws in find_replication_peers.
THEOREM TypeCorrect == Spec => []TypeOK
<1>1. IInv => TypeOK
  BY DEF IInv
<1> QED BY <1>1, Invariance, PTL

-----------------------------------------------------------------------------
(* A round.                                                                *)

\* Whom a round takes it takes from different places of the vector.
LEMMA TakenOnce ==
  ASSUME TypeOK, NEW w \in Workers, NEW g, Origin(w, g), NEW c
  PROVE  Occurrences(valid_peers[w], c) <= Occurrences(peers, c)
<1> DEFINE S == {i \in DOMAIN valid_peers[w] : valid_peers[w][i] = c}
           T == {i \in DOMAIN peers : peers[i] = c}
           h == [i \in S |-> g[i]]
<1>1. DOMAIN valid_peers[w] = 1..Len(valid_peers[w]) /\ DOMAIN peers = 1..Len(peers) /\ Len(peers) \in Nat
  BY LenProperties DEF TypeOK
<1>2. \A i \in S : i \in 1..Len(valid_peers[w]) /\ g[i] \in T
  BY <1>1 DEF Origin
<1>3. h \in [S -> T]
  BY <1>2
<1>4. \A i, j \in S : h[i] = h[j] => i = j
  BY <1>2 DEF Origin
<1>5. T \in SUBSET (1..Len(peers)) /\ 1 \in Int /\ Len(peers) \in Int
  BY <1>1
<1> HIDE DEF S, T, h
<1>6. h \in Injection(S, T)
  BY <1>3, <1>4 DEF Injection, IsInjective
<1>7. IsFiniteSet(1..Len(peers))
  BY <1>5, FS_Interval
<1>8. IsFiniteSet(T)
  BY <1>5, <1>7, FS_Subset
<1>9. Cardinality(S) <= Cardinality(T)
  BY <1>6, <1>8, FS_Injection
<1> QED BY <1>9 DEF S, T, Occurrences

\* One round orders nobody twice and no more than are needed, although files and
\* peers are registered while it walks and sends.
THEOREM RoundTakesNobodyTwice == Spec => []OneRound
<1>1. ASSUME IInv PROVE OneRound
  <2> SUFFICES ASSUME NEW w \in Workers, pc[w] \in {"scan", "send"}
               PROVE  /\ Len(valid_peers[w]) <= left[w]
                      /\ \A c \in Conns : Occurrences(valid_peers[w], c) <= Occurrences(peers, c)
    BY DEF OneRound
  <2>1. Len(valid_peers[w]) \in Nat /\ left[w] \in Nat
    BY <1>1, LenProperties DEF IInv, TypeOK
  <2>2. Len(valid_peers[w]) <= left[w]
    BY <1>1, <2>1 DEF IInv, WorkerInv, RoundOf
  <2>3. PICK g : Origin(w, g)
    BY <1>1 DEF IInv, WorkerInv, RoundOf
  <2> QED BY <1>1, <2>2, <2>3, TakenOnce DEF IInv
<1> QED BY <1>1, Invariance, PTL

\* A round that leaves a peer out although it has found too few has seen it in the
\* index: the walk has come full circle.
THEOREM RoundGivesUpLast == Spec => GivesUpLast
<1>1. ASSUME IInv, TypeOK', [Next]_vars, NEW w \in Workers, pc[w] = "scan", pc'[w] = "send",
             Len(valid_peers'[w]) < left[w], NEW i \in DOMAIN peers
      PROVE  \/ contains_peer(msg[w].file, peers[i])
             \/ \E j \in DOMAIN valid_peers'[w] : valid_peers'[w][j] = peers[i]
  <2>1. look(w)
    <3>1. Work(w)
      BY <1>1, OneWorkerMoves DEF IInv, Still
    <3> QED BY <1>1, <3>1 DEF Work, Take, register_user, register_file, search_index,
            find_replication_peers, request_replication, end_replication, At
  <2>2. Len(valid_peers'[w]) \in Nat /\ left[w] \in Nat
    BY <1>1, LenProperties DEF IInv, TypeOK
  <2>3. idx'[w] = start[w]
    BY <1>1, <2>1, <2>2, LookTakes DEF IInv
  <2>4. Visited(w) \cup {idx[w]} = 0..(Len(peers) - 1)
    BY <1>1, <2>1, <2>3, LookMoves DEF IInv
  <2>5. i \in 1..Len(peers) /\ Len(peers) \in Nat
    BY <1>1, LenProperties DEF IInv, TypeOK
  <2>6. i - 1 \in Visited(w) \cup {idx[w]} /\ (i - 1) + 1 = i
    BY <2>4, <2>5
  <2> QED BY <1>1, <2>1, <2>6, LookSees DEF IInv
<1>2. IInv /\ IInv' /\ [Next]_vars =>
        [\A w \in Workers :
           /\ pc[w] = "scan" /\ pc'[w] = "send"
           /\ Len(valid_peers'[w]) < left[w]
           => \A i \in DOMAIN peers :
                \/ contains_peer(msg[w].file, peers[i])
                \/ \E j \in DOMAIN valid_peers'[w] : valid_peers'[w][j] = peers[i]]_vars
  BY <1>1 DEF IInv
<1> QED BY <1>2, Invariance, PTL DEF Spec, GivesUpLast

-----------------------------------------------------------------------------
(* The server implements Catalogue.                                        *)

\* A registration has one round at most, and what it may still order is what the
\* worker of that round may; before a step and after it.
LEMMA OwedIs ==
  ASSUME IInv, NEW w \in Workers, NEW f, NEW n \in Int, Round(w, f, n)
  PROVE  Owed(f, n) = OwedBy(w)
<1>1. ASSUME NEW v \in Workers, Round(v, f, n) PROVE v = w
  BY <1>1 DEF IInv, OwnRegistration, Round, InRound
<1> QED BY <1>1 DEF Owed

LEMMA OwedWillBe ==
  ASSUME IInv', NEW w \in Workers, NEW f, NEW n \in Int, Round(w, f, n)'
  PROVE  Owed(f, n)' = OwedBy(w)'
<1>1. ASSUME NEW v \in Workers, Round(v, f, n)' PROVE v = w
  BY <1>1 DEF IInv, OwnRegistration, Round, InRound
<1> QED BY <1>1 DEF Owed

\* The workers that do nothing owe what they owed.
LEMMA OwedByOthers ==
  ASSUME IInv, IInv', NEW f, NEW n \in Int,
         \A v \in Workers : Still(v) \/ (~Round(v, f, n) /\ ~Round(v, f, n)')
  PROVE  Owed(f, n)' = Owed(f, n)
<1>1. \A v \in Workers : Round(v, f, n)' <=> Round(v, f, n)
  BY DEF Round, Still
<1>2. ASSUME NEW v \in Workers, Round(v, f, n) PROVE Owed(f, n)' = Owed(f, n)
  <2>1. OwedBy(v)' = OwedBy(v)
    BY <1>2 DEF OwedBy, Still
  <2>2. Owed(f, n) = OwedBy(v)
    BY <1>2, OwedIs
  <2>3. Owed(f, n)' = OwedBy(v)'
    BY <1>1, <1>2, OwedWillBe
  <2> QED BY <2>1, <2>2, <2>3
<1>3. CASE ~\E v \in Workers : Round(v, f, n)
  BY <1>1, <1>3 DEF Owed
<1> QED BY <1>2, <1>3

\* A step of nobody, or of a worker outside a round, leaves every budget as it is.
LEMMA BudgetKept ==
  ASSUME IInv, IInv',
         \A v \in Workers : Still(v) \/ (~InRound(v) /\ ~InRound(v)')
  PROVE  Budget' = Budget
<1>1. ASSUME NEW f, NEW n \in Int PROVE Owed(f, n)' = Owed(f, n)
  BY OwedByOthers DEF Round, InRound
<1> QED BY <1>1, IndexAssumption DEF Budget

\* A step of a worker in a round changes the budget of the registration of the round
\* only.
LEMMA BudgetOfRound ==
  ASSUME IInv, IInv', NEW w \in Workers, \A v \in Workers \ {w} : Still(v),
         InRound(w)', msg'[w] = msg[w], InRound(w) => left'[w] = left[w]
  PROVE  \E f \in Files, k \in 1..(ReplicationFactor - 1) :
           /\ f = msg[w].file /\ k = ReplicationFactor - left'[w]
           /\ Budget' = [Budget EXCEPT ![f][k] = OwedBy(w)']
           /\ InRound(w) => Budget[f][k] = OwedBy(w)
<1> SUFFICES ASSUME NEW f, f = msg[w].file, NEW k, k = ReplicationFactor - left'[w]
             PROVE  /\ f \in Files /\ k \in 1..(ReplicationFactor - 1)
                    /\ Budget' = [Budget EXCEPT ![f][k] = OwedBy(w)']
                    /\ InRound(w) => Budget[f][k] = OwedBy(w)
  OBVIOUS
<1>1. f \in Files
  BY MessageFields DEF IInv, WorkerInv, MsgOf, InRound
<1>2. left'[w] \in Nat /\ 1 <= left'[w] /\ left'[w] < ReplicationFactor /\ ReplicationFactor \in Nat
  BY IndexAssumption DEF IInv, TypeOK, WorkerInv, CopyOf
<1>3. k \in 1..(ReplicationFactor - 1) /\ left'[w] = ReplicationFactor - k
  BY <1>2
<1>4. Round(w, f, k)' /\ (InRound(w) => Round(w, f, k))
  BY <1>3 DEF Round, InRound
<1>5. Owed(f, k)' = OwedBy(w)' /\ (InRound(w) => Owed(f, k) = OwedBy(w))
  BY <1>3, <1>4, OwedIs, OwedWillBe
<1>6. ASSUME NEW e \in Files, NEW n \in 1..(ReplicationFactor - 1), e # f \/ n # k
      PROVE  Owed(e, n)' = Owed(e, n)
  <2>1. ~Round(w, e, n) /\ ~Round(w, e, n)'
    BY <1>2, <1>3, <1>6 DEF Round, InRound
  <2> QED BY <2>1, OwedByOthers
<1>7. Budget' = [Budget EXCEPT ![f][k] = OwedBy(w)']
  <2> DEFINE Short == 1..(ReplicationFactor - 1)
  <2>1. /\ Budget = [e \in Files |-> [n \in Short |-> Owed(e, n)]]
        /\ Budget' = [e \in Files |-> [n \in Short |-> Owed(e, n)']]
    BY IndexAssumption DEF Budget
  <2>2. k \in Short
    BY <1>3
  <2> HIDE DEF Short
  <2>3. [n \in Short |-> Owed(f, n)'] = [[n \in Short |-> Owed(f, n)] EXCEPT ![k] = OwedBy(w)']
    BY <1>1, <1>5, <1>6, <2>2 DEF Short
  <2>4. \A e \in Files \ {f} : [n \in Short |-> Owed(e, n)'] = [n \in Short |-> Owed(e, n)]
    BY <1>6 DEF Short
  <2>5. Budget[f] = [n \in Short |-> Owed(f, n)]
    BY <1>1, <2>1
  <2>6. \A e \in Files : Budget'[e] = [Budget EXCEPT ![f][k] = OwedBy(w)'][e]
    BY <1>1, <2>1, <2>3, <2>4
  <2> QED BY <2>1, <2>6
<1> QED BY <1>1, <1>3, <1>5, <1>7 DEF Budget

\* The users, the holders and the copies are functions of the two vectors.
LEMMA VectorsKept ==
  /\ UNCHANGED peers => UNCHANGED Users
  /\ UNCHANGED file_peer_map => UNCHANGED <<HoldersOf, CopiesOf>>
BY DEF Users, HoldersOf, CopiesOf, Holders

\* A round may lose what it was to order.
LEMMA MapsToGiveUp ==
  ASSUME IInv, IInv', NEW w \in Workers, \A v \in Workers \ {w} : Still(v),
         InRound(w), InRound(w)', msg'[w] = msg[w], left'[w] = left[w],
         server_up, UNCHANGED <<server_up, peers, file_peer_map, inbox, reply>>,
         OwedBy(w) \in Nat, OwedBy(w)' \in Nat, OwedBy(w)' <= OwedBy(w)
  PROVE  [Promise!Next]_(Promise!vars)
<1>1. PICK f \in Files, k \in 1..(ReplicationFactor - 1) :
        Budget' = [Budget EXCEPT ![f][k] = OwedBy(w)'] /\ Budget[f][k] = OwedBy(w)
  BY BudgetOfRound
<1>2. UNCHANGED <<server_up, Users, HoldersOf, CopiesOf, inbox, reply>>
  BY VectorsKept
<1>3. CASE OwedBy(w)' = OwedBy(w)
  <2>1. Budget' = Budget
    <3>1. Budget = [e \in Files |-> [n \in 1..(ReplicationFactor - 1) |-> Owed(e, n)]]
      BY DEF Budget
    <3> QED BY <1>1, <1>3, <3>1
  <2> QED BY <1>2, <2>1 DEF Promise!vars
<1>4. CASE OwedBy(w)' # OwedBy(w)
  <2>1. Budget[f][k] > 0 /\ OwedBy(w)' \in 0..(Budget[f][k] - 1)
    BY <1>1, <1>4
  <2>2. Promise!GiveUp(f, k)
    BY <1>1, <1>2, <2>1 DEF Promise!GiveUp
  <2> QED BY <1>1, <2>2 DEF Promise!Next, Promise!Short
<1> QED BY <1>3, <1>4

LEMMA MapsToJoin ==
  ASSUME IInv, IInv', NEW w \in Workers, \A v \in Workers \ {w} : Still(v), register_user(w)
  PROVE  [Promise!Next]_(Promise!vars)
<1>1. msg[w].peer \in Peers
  BY MessageFields DEF IInv, WorkerInv, MsgOf, register_user, At
<1>2. PICK s \in Sockets : peers' = Append(peers, [peer |-> msg[w].peer, sock |-> s])
  BY DEF register_user
<1> DEFINE c == [peer |-> msg[w].peer, sock |-> s]
<1>3. Users' = Users \cup {msg[w].peer}
  <2>1. peers \in Seq(Conns) /\ c \in Conns
    BY <1>1 DEF IInv, TypeOK, Conns
  <2>2. /\ DOMAIN peers = 1..Len(peers) /\ Len(peers) \in Nat
        /\ DOMAIN peers' = 1..(Len(peers) + 1)
        /\ \A i \in 1..Len(peers) : peers'[i] = peers[i]
        /\ peers'[Len(peers) + 1] = c
    BY <1>2, <2>1, AppendFacts
  <2>3. /\ \A i \in DOMAIN peers : i \in DOMAIN peers' /\ peers'[i] = peers[i]
        /\ \A i \in DOMAIN peers' : i = Len(peers) + 1 \/ i \in DOMAIN peers
        /\ Len(peers) + 1 \in DOMAIN peers' /\ peers'[Len(peers) + 1].peer = msg[w].peer
    BY <2>2
  <2>4. ASSUME NEW p \in Users' PROVE p \in Users \cup {msg[w].peer}
    BY <2>3, <2>4 DEF Users
  <2>5. Users \subseteq Users' /\ msg[w].peer \in Users'
    BY <2>3 DEF Users
  <2> QED BY <2>4, <2>5
<1>4. ~InRound(w) /\ ~InRound(w)'
  BY ReturnInv DEF register_user, At, InRound, IInv
<1>5. UNCHANGED <<server_up, HoldersOf, CopiesOf, Budget, inbox, reply>>
  BY <1>4, BudgetKept, VectorsKept DEF register_user
<1>6. Promise!Join(msg[w].peer)
  BY <1>3, <1>5 DEF Promise!Join
<1> QED BY <1>1, <1>6 DEF Promise!Next, register_user, At

LEMMA MapsToSearch ==
  ASSUME IInv, IInv', NEW w \in Workers, \A v \in Workers \ {w} : Still(v), search_index(w)
  PROVE  [Promise!Next]_(Promise!vars)
<1> SUFFICES ASSUME NEW f, f = msg[w].file, NEW p, p = msg[w].peer
             PROVE  [Promise!Next]_(Promise!vars)
  OBVIOUS
<1>1. f \in Files /\ p \in Peers
  BY MessageFields DEF IInv, WorkerInv, MsgOf, search_index, At
<1>2. ~InRound(w) /\ ~InRound(w)'
  BY ReturnInv DEF search_index, At, InRound, IInv
<1>3. UNCHANGED <<server_up, Users, HoldersOf, CopiesOf, Budget, inbox>>
  BY <1>2, BudgetKept, VectorsKept DEF search_index
<1>4. HoldersOf[f] = Holders(f)
  BY <1>1 DEF HoldersOf
<1>5. Promise!Search(f, p)
  BY <1>3, <1>4 DEF Promise!Search, search_index, get_rand_peer
<1> QED BY <1>1, <1>5 DEF Promise!Next, search_index, At

\* A registration short of copies opens a budget, of what it finds to be missing.
LEMMA MapsToRegister ==
  ASSUME IInv, IInv', NEW w \in Workers, \A v \in Workers \ {w} : Still(v), register_file(w)
  PROVE  [Promise!Next]_(Promise!vars)
<1> SUFFICES ASSUME NEW f, f = msg[w].file, NEW p, p = msg[w].peer
             PROVE  [Promise!Next]_(Promise!vars)
  OBVIOUS
<1>1. /\ f \in Files /\ p \in Peers /\ Copies(f) \in Nat
      /\ Len(file_peer_map[f]) = Copies(f) - 1 /\ Len(file_peer_map'[f]) = Copies(f)
      /\ Holders(f)' = Holders(f) \cup {p}
      /\ \A g \in Files \ {f} : file_peer_map'[g] = file_peer_map[g]
  BY RegisterEffect DEF IInv, WorkerInv
<1>2. HoldersOf' = [HoldersOf EXCEPT ![f] = @ \cup {p}]
  <2>1. \A g \in Files \ {f} : Holders(g)' = Holders(g)
    BY <1>1 DEF Holders
  <2>2. HoldersOf = [g \in Files |-> Holders(g)] /\ HoldersOf' = [g \in Files |-> Holders(g)']
    BY DEF HoldersOf
  <2> QED BY <1>1, <2>1, <2>2
<1>3. CopiesOf' = [CopiesOf EXCEPT ![f] = @ + 1] /\ CopiesOf'[f] = Copies(f) /\ Copies(f) >= 1
  <2>1. Len(file_peer_map[f]) \in Nat
    BY <1>1, LenProperties DEF IInv, TypeOK
  <2>2. /\ CopiesOf = [g \in Files |-> Len(file_peer_map[g])]
        /\ CopiesOf' = [g \in Files |-> Len(file_peer_map'[g])]
    BY DEF CopiesOf
  <2>3. Copies(f) >= 1 /\ CopiesOf[f] + 1 = Copies(f) /\ CopiesOf'[f] = Copies(f)
    <3>1. CopiesOf[f] = Copies(f) - 1 /\ CopiesOf'[f] = Copies(f)
      BY <1>1, <2>2, Zenon
    <3>2. \A n, c \in Nat : n = c - 1 => c >= 1 /\ n + 1 = c
      OBVIOUS
    <3>3. CopiesOf[f] \in Nat
      BY <1>1, <2>1, <2>2
    <3> QED BY <1>1, <3>1, <3>2, <3>3
  <2>4. \A g \in Files \ {f} : CopiesOf'[g] = CopiesOf[g]
    BY <1>1, <2>2
  <2> QED BY <1>1, <2>2, <2>3, <2>4
<1>4. UNCHANGED <<server_up, Users, inbox, reply>> /\ server_up /\ ~InRound(w)
  BY VectorsKept DEF register_file, At, InRound
<1>5. ReplicationFactor \in Nat
  BY IndexAssumption
<1>6. Budget' = IF Copies(f) \in 1..(ReplicationFactor - 1)
                THEN [Budget EXCEPT ![f][Copies(f)] = ReplicationFactor - Copies(f)] ELSE Budget
  <2>1. CASE Copies(f) < ReplicationFactor
    <3>1. /\ pc'[w] = "replicate" /\ msg'[w] = msg[w]
          /\ left'[w] = ReplicationFactor - Copies(f)
      BY <2>1 DEF register_file, Goto, IInv, TypeOK
    <3>2. ReplicationFactor - left'[w] = Copies(f) /\ OwedBy(w)' = ReplicationFactor - Copies(f)
      BY <1>1, <1>5, <3>1 DEF OwedBy
    <3>3. InRound(w)'
      BY <3>1 DEF InRound
    <3>4. Budget' = [Budget EXCEPT ![f][Copies(f)] = OwedBy(w)']
      BY <1>4, <3>1, <3>2, <3>3, BudgetOfRound
    <3> QED BY <1>1, <1>3, <1>5, <2>1, <3>2, <3>4
  <2>2. CASE ~(Copies(f) < ReplicationFactor)
    <3>1. ~InRound(w)'
      BY <2>2, ReturnInv DEF register_file, InRound, IInv
    <3>2. Budget' = Budget
      BY <1>4, <3>1, BudgetKept
    <3> QED BY <1>1, <1>5, <2>2, <3>2
  <2> QED BY <2>1, <2>2
<1>7. Promise!Register(f, p)
  BY <1>2, <1>3, <1>4, <1>6 DEF Promise!Register, Promise!Short
<1> QED BY <1>1, <1>4, <1>7 DEF Promise!Next

\* An order goes to a user, who is one of the peers the walk took, and names the peer
\* that registered, who is still in the index.
LEMMA MapsToOrder ==
  ASSUME IInv, IInv', NEW w \in Workers, \A v \in Workers \ {w} : Still(v), request_replication(w)
  PROVE  [Promise!Next]_(Promise!vars)
<1>1. /\ server_up /\ pc[w] = "send" /\ InRound(w) /\ valid_peers[w] # <<>>
      /\ UNCHANGED <<peers, file_peer_map, pc, msg, left, reply>>
  BY DEF request_replication, At, InRound
<1>2. UNCHANGED <<Users, HoldersOf, CopiesOf, reply>>
  BY <1>1, VectorsKept
<1>3. CASE Head(valid_peers[w]).peer \notin up
  <2>1. server_up' = FALSE /\ UNCHANGED <<inbox, valid_peers>>
    BY <1>3 DEF request_replication
  <2>2. OwedBy(w)' = OwedBy(w)
    BY <1>1, <2>1 DEF OwedBy
  <2>3. Budget' = Budget
    <3>1. PICK f \in Files, k \in 1..(ReplicationFactor - 1) :
            Budget' = [Budget EXCEPT ![f][k] = OwedBy(w)'] /\ Budget[f][k] = OwedBy(w)
      BY <1>1, BudgetOfRound DEF InRound
    <3>2. Budget = [e \in Files |-> [n \in 1..(ReplicationFactor - 1) |-> Owed(e, n)]]
      BY DEF Budget
    <3> QED BY <2>2, <3>1, <3>2
  <2>4. Promise!Stop
    BY <1>2, <2>1, <2>3 DEF Promise!Stop
  <2> QED BY <1>1, <2>4 DEF Promise!Next
<1>4. CASE Head(valid_peers[w]).peer \in up
  <2> SUFFICES ASSUME NEW p, p = Head(valid_peers[w]).peer, NEW h, h = msg[w].peer
               PROVE  [Promise!Next]_(Promise!vars)
    OBVIOUS
  <2>1. /\ inbox' = [inbox EXCEPT ![p] = Append(@, Order(w))] /\ UNCHANGED server_up
        /\ valid_peers'[w] = Tail(valid_peers[w])
    BY <1>4 DEF request_replication, IInv, TypeOK
  <2>2. p \in Users /\ p \in Peers
    <3>1. PICK g : Origin(w, g)
      BY <1>1 DEF IInv, WorkerInv, RoundOf
    <3>2. /\ valid_peers[w] \in Seq(Conns) /\ Head(valid_peers[w]) = valid_peers[w][1]
          /\ 1 \in 1..Len(valid_peers[w]) /\ Head(valid_peers[w]) \in Conns
      BY <1>1, HeadTailProperties, EmptySeq, LenProperties DEF IInv, TypeOK
    <3>3. g[1] \in 1..Len(peers) /\ peers[g[1]] = Head(valid_peers[w])
      BY <3>1, <3>2 DEF Origin
    <3>4. DOMAIN peers = 1..Len(peers)
      BY LenProperties DEF IInv, TypeOK
    <3> QED BY <3>2, <3>3, <3>4 DEF Users, Conns
  <2>3. OwedBy(w) \in Nat /\ OwedBy(w) > 0 /\ OwedBy(w)' = OwedBy(w) - 1
    <3>1. valid_peers[w] \in Seq(Conns)
      BY DEF IInv, TypeOK
    <3>2. /\ Len(valid_peers[w]) \in Nat /\ Len(valid_peers[w]) > 0
          /\ Len(valid_peers'[w]) = Len(valid_peers[w]) - 1
      BY <1>1, <2>1, <3>1, HeadTailProperties, EmptySeq, LenProperties
    <3> QED BY <1>1, <3>2 DEF OwedBy
  <2>4. PICK f \in Files, k \in 1..(ReplicationFactor - 1) :
          f = msg[w].file /\ Budget' = [Budget EXCEPT ![f][k] = OwedBy(w)'] /\ Budget[f][k] = OwedBy(w)
    BY <1>1, BudgetOfRound DEF InRound
  <2>5. h \in HoldersOf[f] /\ h \in Peers
    <3>1. h \in Holders(f)
      BY <1>1, <2>4 DEF IInv, WorkerInv, CopyOf
    <3>2. msg[w] \in Messages
      BY <1>1 DEF IInv, WorkerInv, MsgOf
    <3> QED BY <2>4, <3>1, <3>2, MessageFields DEF HoldersOf
  <2>6. Promise!Order(f, p, h, k)
    BY <1>2, <2>1, <2>2, <2>3, <2>4, <2>5 DEF Promise!Order, Order
  <2> QED BY <1>1, <2>2, <2>4, <2>5, <2>6 DEF Promise!Next, Promise!Short
<1> QED BY <1>3, <1>4

\* A round ends when nothing is left to send.
LEMMA RoundEnded ==
  ASSUME IInv, IInv', NEW w \in Workers, \A v \in Workers \ {w} : Still(v), end_replication(w)
  PROVE  Budget' = Budget
<1>1. pc[w] = "send" /\ valid_peers[w] = <<>> /\ ~InRound(w)'
  BY ReturnInv DEF end_replication, At, InRound, IInv
<1>2. OwedBy(w) = 0
  BY <1>1, EmptySeq DEF OwedBy
<1>3. ASSUME NEW f, NEW n \in Int PROVE Owed(f, n)' = Owed(f, n)
  <2>1. ASSUME Round(w, f, n) PROVE Owed(f, n)' = Owed(f, n)
    <3>1. Owed(f, n) = 0
      BY <1>2, <2>1, OwedIs
    <3>2. \A v \in Workers : Round(v, f, n) => v = w
      BY <2>1 DEF IInv, OwnRegistration, Round, InRound
    <3>3. \A v \in Workers : ~Round(v, f, n)'
      BY <1>1, <3>2 DEF Round, InRound, Still
    <3> QED BY <3>1, <3>3 DEF Owed
  <2>2. ASSUME ~Round(w, f, n) PROVE Owed(f, n)' = Owed(f, n)
    <3>1. ~Round(w, f, n)'
      BY <1>1 DEF Round, InRound
    <3> QED BY <2>2, <3>1, OwedByOthers
  <2> QED BY <2>1, <2>2
<1> QED BY <1>3, IndexAssumption DEF Budget

\* The server implements Catalogue: its handlers interleave, and yet each request
\* takes effect in one step, and no registration leads to more orders than it found
\* copies to be missing.
THEOREM Refinement == Spec => ImplementsCatalogue
<1>1. Init => Promise!Init
  <2> SUFFICES ASSUME Init PROVE Promise!Init
    OBVIOUS
  <2> USE DEF Init
  <2>1. Users = {}
    BY EmptySeq DEF Users
  <2>2. HoldersOf = [f \in Files |-> {}] /\ CopiesOf = [f \in Files |-> 0]
    BY EmptySeq DEF HoldersOf, Holders, CopiesOf
  <2>3. \A f, n : Owed(f, n) = 0
    BY DEF Owed, Round
  <2>4. Budget = [f \in Files |-> [n \in 1..(ReplicationFactor - 1) |-> 0]]
    BY <2>3 DEF Budget
  <2> QED BY <2>1, <2>2, <2>4 DEF Promise!Init, Promise!Short
<1>2. IInv /\ IInv' /\ [Next]_vars => [Promise!Next]_(Promise!vars)
  <2> SUFFICES ASSUME IInv, IInv', [Next]_vars PROVE [Promise!Next]_(Promise!vars)
    OBVIOUS
  <2>1. ASSUME \A v \in Workers : Still(v) \/ (~InRound(v) /\ ~InRound(v)'),
               UNCHANGED <<server_up, peers, file_peer_map, inbox, reply>>
        PROVE  [Promise!Next]_(Promise!vars)
    BY <2>1, BudgetKept, VectorsKept DEF Promise!vars
  <2>2. ASSUME NEW m \in Messages, Connect(m) PROVE [Promise!Next]_(Promise!vars)
    BY <2>1, <2>2 DEF Connect, Arrive, scan, Still
  <2>3. ASSUME NEW p \in MayLeave, Leave(p) PROVE [Promise!Next]_(Promise!vars)
    BY <2>1, <2>3 DEF Leave, scan, Still
  <2>4. CASE UNCHANGED vars
    BY <2>1, <2>4 DEF vars, scan, Still
  <2>5. ASSUME NEW w \in Workers, Work(w), \A v \in Workers \ {w} : Still(v)
        PROVE  [Promise!Next]_(Promise!vars)
    <3>1. CASE Take(w)
      <4>1. ~InRound(w) /\ ~InRound(w)'
        BY <2>5, <3>1, RoundStep DEF Take, InRound, register_file, At, IInv
      <4> QED BY <2>1, <2>5, <3>1, <4>1 DEF Take
    <3>2. CASE find_replication_peers(w)
      <4>1. /\ server_up /\ pc[w] = "replicate" /\ InRound(w)
            /\ UNCHANGED <<server_up, peers, file_peer_map, msg, left, valid_peers, inbox, reply>>
            /\ valid_peers[w] = <<>> /\ pc'[w] \in {"scan", "send"}
        BY <3>2 DEF find_replication_peers, At, Goto, InRound, IInv, WorkerInv, RoundOf, TypeOK
      <4>2. left[w] \in Nat /\ Len(valid_peers'[w]) = 0
        BY <4>1, EmptySeq DEF IInv, TypeOK
      <4>3. OwedBy(w) = left[w] /\ OwedBy(w)' \in {left[w], 0} /\ InRound(w)'
        BY <4>1, <4>2 DEF OwedBy, InRound
      <4> QED BY <2>5, <4>1, <4>2, <4>3, MapsToGiveUp
    <3>3. CASE look(w)
      <4>1. /\ server_up /\ pc[w] = "scan" /\ pc'[w] \in {"scan", "send"}
            /\ UNCHANGED <<server_up, peers, file_peer_map, msg, left, inbox, reply>>
        BY <3>3, LookTakes DEF look, At, IInv
      <4>2. left[w] \in Nat /\ Len(valid_peers'[w]) \in Nat
        BY <4>1, LenProperties DEF IInv, TypeOK
      <4>3. pc'[w] = "send" => Len(valid_peers'[w]) <= left[w]
        BY <4>1 DEF IInv, WorkerInv, RoundOf
      <4>4. OwedBy(w) = left[w] /\ OwedBy(w)' \in Nat /\ OwedBy(w)' <= OwedBy(w)
        BY <4>1, <4>2, <4>3 DEF OwedBy
      <4>5. InRound(w) /\ InRound(w)'
        BY <4>1 DEF InRound
      <4> QED BY <2>5, <4>1, <4>2, <4>4, <4>5, MapsToGiveUp
    <3>4. CASE end_replication(w)
      BY <2>5, <3>4, RoundEnded, VectorsKept DEF end_replication, Promise!vars
    <3> QED BY <2>5, <3>1, <3>2, <3>3, <3>4, MapsToJoin, MapsToRegister, MapsToSearch, MapsToOrder DEF Work
  <2> QED BY <2>2, <2>3, <2>4, <2>5, OneWorkerMoves DEF Next, IInv
<1>3. Promise!Init /\ [][Promise!Next]_(Promise!vars) => ImplementsCatalogue
  BY DEF ImplementsCatalogue, Promise!Spec
<1> QED BY <1>1, <1>2, <1>3, Invariance, PTL DEF Spec
=============================================================================
