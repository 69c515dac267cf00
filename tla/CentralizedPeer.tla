-------------------------- MODULE CentralizedPeer --------------------------
(***************************************************************************)
(* The centralized system: src/src/centralized_peer.cpp and the menu that  *)
(* drives it (peer_cli.cpp), with the downloads of module Transfers,       *)
(* around the index server of module IndexServer.                          *)
(*                                                                         *)
(* The command line downloads for the user, a handler when the server      *)
(* orders a replication; a handler that downloads does not serve.  A peer  *)
(* that comes back joins again and registers again what its user tells it  *)
(* to; what its predecessor sent is still handled, but the answer to a     *)
(* question goes to the connection it was asked on.  The index server does *)
(* not come back.                                                          *)
(***************************************************************************)
EXTENDS Transfers

CONSTANTS
  Workers, ReplicationFactor, Sockets, NoReply,  \* see IndexServer
  Commands  \* what each user chooses from the menu, in turn

Directory == [do |-> "directory", file |-> NoFile]
Choices == [do : {"register", "search", "request"}, file : Files] \cup {Directory}

ASSUME PeerAssumption ==
  /\ Commands \in [Peers -> Seq(Choices)]
  /\ NoReply \notin Peers \cup {NoPeer}

VARIABLES
  server_up, queue, peers, file_peer_map, pc, msg, left, start, idx, valid_peers,
  reply,  \* see IndexServer
  menu,   \* the choices a user has left
  todo    \* the files the command line has still to register

Index == INSTANCE IndexServer WITH arrived <- 0, MaxArrivals <- 0, MayLeave <- {}

server == <<server_up, queue, peers, file_peer_map, pc, msg, left, start, idx, valid_peers>>
user == <<menu, todo>>
vars == <<transfers, server, reply, user>>

Init ==
  /\ Index!Init
  /\ InitTransfers("join")
  /\ menu = Commands
  /\ todo = [p \in Peers |-> {}]

\* send_once and send_and_recv to the server, by a thread of peer p.
Tell(p, m) == p \in up /\ server_up /\ Index!Arrive(m)
TellNobody(p) == p \in up /\ ~server_up /\ Die(p) /\ UNCHANGED <<server, reply, user>>

-----------------------------------------------------------------------------
(* The command line.                                                       *)

\* The constructor, after the server of the peer has started.
register_user(p) ==
  LET t == <<p, Cli>> IN
  /\ stage[t] = "join"
  /\ \/ /\ Tell(p, [type |-> "NEW_USER", peer |-> p])
        /\ Goto(t, "menu")
        /\ UNCHANGED <<content, work, from, channel, result, restarts, exposed, user>>
     \/ TellNobody(p)

\* launch_cli: the next choice.  The names of a directory are those it has when
\* it is opened; a single name is whatever the user types.
Choose(p, c) ==
  /\ stage[<<p, Cli>>] = "menu"
  /\ menu[p] # <<>>
  /\ c = Head(menu[p])
  /\ menu' = [menu EXCEPT ![p] = Tail(@)]

register_directory(p, c) ==
  /\ Choose(p, c)
  /\ c.do \in {"directory", "register"}
  /\ todo' = [todo EXCEPT ![p] = IF c = Directory THEN Listing(p) ELSE {c.file}]
  /\ Goto(<<p, Cli>>, "listing")
  /\ UNCHANGED <<server, reply, up, inbox, content, work, from, channel, result, restarts, exposed>>

\* register_file sends one message; who calls it decides what comes next.
register_file(t, f) == Tell(t[1], [type |-> "REGISTER_FILE", file |-> f, peer |-> t[1]])

\* One round of the loop over the directory, or its end.
ListFile(p) ==
  LET t == <<p, Cli>> IN
  /\ stage[t] = "listing"
  /\ \/ \E f \in todo[p] :
          /\ register_file(t, f)
          /\ Announce(p, {f})
          /\ todo' = [todo EXCEPT ![p] = @ \ {f}]
          /\ UNCHANGED <<stage, content, work, from, channel, result, restarts, menu>>
     \/ todo[p] # {} /\ TellNobody(p)
     \/ /\ todo[p] = {}
        /\ Goto(t, "menu")
        /\ UNCHANGED <<server, reply, up, inbox, content, work, from, channel, result, restarts,
                       exposed, user>>

\* A search, for its own sake or for the download that follows.
search_for_file(p, c) ==
  LET t == <<p, Cli>> IN
  /\ Choose(p, c)
  /\ c.do \in {"search", "request"}
  /\ \/ /\ Tell(p, [type |-> "SEARCH_INDEX", file |-> c.file, peer |-> p])
        /\ file' = [file EXCEPT ![t] = c.file]
        /\ Goto(t, IF c.do = "search" THEN "asking" ELSE "searching")
        /\ UNCHANGED <<content, from, client, count, channel, result, restarts, exposed, todo>>
     \/ /\ p \in up /\ ~server_up /\ Die(p)
        /\ UNCHANGED <<server, reply, todo>>

\* The answer of the server, or the end of its connection.
SearchEnds(p) ==
  LET t == <<p, Cli>> IN
  /\ stage[t] \in {"asking", "searching"}
  /\ reply[p] # NoReply \/ ~server_up
  /\ reply' = [reply EXCEPT ![p] = NoReply]
  /\ \/ /\ stage[t] = "searching"
        /\ reply[p] \in Peers
        /\ from' = [from EXCEPT ![t] = reply[p]]
        /\ Goto(t, "connecting")
        /\ UNCHANGED result
     \/ /\ stage[t] = "asking" \/ reply[p] \notin Peers
        /\ result' = [result EXCEPT ![p] = IF stage[t] = "asking" THEN @ ELSE "nobody"]
        /\ Goto(t, "menu")
        /\ UNCHANGED from
  /\ UNCHANGED <<server, up, inbox, content, work, channel, restarts, exposed, user>>

-----------------------------------------------------------------------------
(* The handlers.                                                           *)

\* message_handler, for an order of the server; HandleRequest is the other case.
HandleOrder(t) ==
  LET p == t[1]
      m == Head(inbox[p]) IN
  /\ stage[t] = "idle"
  /\ inbox[p] # <<>>
  /\ m.type = "REPLICATION_REQ"
  /\ inbox' = [inbox EXCEPT ![p] = Tail(@)]
  /\ file' = [file EXCEPT ![t] = m.file]
  /\ from' = [from EXCEPT ![t] = m.holder]
  /\ Goto(t, "connecting")
  /\ UNCHANGED <<server, reply, up, content, client, count, channel, result, restarts, exposed, user>>

\* The end of replicate_file, after its download.
replicate_file(t) ==
  /\ stage[t] = "registering"
  /\ \/ /\ register_file(t, file[t])
        /\ Goto(t, "idle")
        /\ UNCHANGED <<content, work, from, channel, result, restarts, exposed, user>>
     \/ TellNobody(t[1])

-----------------------------------------------------------------------------
\* What a thread does by itself; the commands are the user's choice.
Run(t) ==
  \/ (Download(t) \/ (t[2] # Cli /\ Upload(t))) /\ UNCHANGED <<server, reply, user>>
  \/ t[2] = Cli /\ (register_user(t[1]) \/ ListFile(t[1]) \/ SearchEnds(t[1]))
  \/ t[2] # Cli /\ (HandleOrder(t) \/ replicate_file(t))

Serve(w) ==
  Index!Work(w) /\ UNCHANGED <<content, stage, work, from, channel, result, restarts, exposed, user>>

\* A question of a process that has ended: its answer is for nobody.
Orphaned(p, m) == IF m.type = "SEARCH_INDEX" /\ m.peer = p THEN [m EXCEPT !.peer = NoPeer] ELSE m

\* The process ends, by the user's choice, too, and is started again.
Fail(p) == Crash(p) /\ UNCHANGED <<server, reply, user>>
Return(p) ==
  /\ Restart(p, "join")
  /\ reply' = [reply EXCEPT ![p] = NoReply]
  /\ queue' = [i \in DOMAIN queue |-> Orphaned(p, queue[i])]
  /\ msg' = [w \in Workers |-> Orphaned(p, msg[w])]
  /\ UNCHANGED <<exposed, server_up, peers, file_peer_map, pc, left, start, idx, valid_peers, user>>

\* A step of the program itself: nobody's choice, and no failure.
Work == (\E w \in Workers : Serve(w)) \/ (\E t \in Threads : Run(t))

Next ==
  \/ Work
  \/ \E t \in Threads : Reset(t) /\ UNCHANGED <<server, reply, user>>
  \/ \E p \in Peers :
       \/ Fail(p) \/ Return(p)
       \/ \E c \in Choices : register_directory(p, c) \/ search_for_file(p, c)

\* While a thread of the server or of a peer can go on, some thread does.
Spec == Init /\ [][Next]_vars /\ WF_vars(Work)

-----------------------------------------------------------------------------
(* Correctness.                                                            *)

Stages == {"join", "menu", "listing", "asking", "searching", "idle", "connecting", "waiting",
           "receiving", "registering", "opening", "sending", "dead"}

Connections ==
  Index!Orders \cup [type : {"REQUEST_FILE"}, file : Files, client : Threads \cup {Gone}]

\* Every variable of the peers keeps its type (those of the server: IndexServer).
TypeOK ==
  /\ TransfersTypeOK
  /\ inbox \in [Peers -> Seq(Connections)]
  /\ reply \in [Peers -> Peers \cup {NoPeer, NoReply}]
  /\ stage \in [Threads -> Stages]
  /\ menu \in [Peers -> Seq(Choices)]
  /\ todo \in [Peers -> SUBSET Files]

\* The index is right unless a peer has announced a copy too early: whoever it
\* lists for a file has all of it, after crashes and restarts, too, so that the
\* answer of get_rand_peer can be downloaded from.
ListedHaveAll ==
  exposed = {} => \A f \in Files, p \in Peers : p \in Index!Holders(f) => Whole(p, f)
=============================================================================
