----------------------------- MODULE Transfers -----------------------------
(***************************************************************************)
(* Files between peers, the same in both systems: request_file and         *)
(* send_file of src/src/centralized_peer.cpp and decentralized_peer.cpp,   *)
(* over recvfile_msg and sendfile_msg of comms.c.                          *)
(*                                                                         *)
(* A peer is a process of several threads: the command line, which runs    *)
(* one command at a time, and the handlers of its pool.  A file is a set   *)
(* of blocks.  A download gives the local file its full length at once,    *)
(* all holes, and then fills it block by block; an upload maps the file    *)
(* and reads each block when it is sent.  Every copy of a name is taken to *)
(* be of the same length.                                                  *)
(*                                                                         *)
(* A process that connects to one that is gone, or writes to one that has  *)
(* gone, is killed by SIGPIPE.  A process that comes back finds its        *)
(* directory as it left it, and none of its connections.                   *)
(***************************************************************************)
EXTENDS Naturals, Sequences, FiniteSets

CONSTANTS
  Peers,       \* the processes, by address
  Files,       \* the names of files
  Handlers,    \* the threads of a peer's pool beside the accept loop
  Cli,         \* the command line of a peer
  NoPeer,      \* the address -1
  NoFile,      \* there is no file of that name
  NumBlocks,   \* the blocks of a file
  Shared,      \* the files in each peer's directory at the start
  MayCrash,    \* the peers that may stop
  MaxRestarts  \* bound: processes that come back

Blocks == 1..NumBlocks
Threads == Peers \X (Handlers \cup {Cli})
Gone == <<NoPeer, Cli>>

ASSUME TransferAssumption ==
  /\ Cli \notin Handlers
  /\ NoPeer \notin Peers
  /\ NumBlocks \in Nat \ {0}
  /\ \A S \in SUBSET Blocks : NoFile # S
  /\ Shared \in [Peers -> SUBSET Files]
  /\ MayCrash \subseteq Peers
  /\ MaxRestarts \in Nat

VARIABLES
  up,        \* the peers that run
  inbox,     \* the connections to each peer, oldest first
  content,   \* the blocks of each peer's file, or NoFile
  stage,     \* where each thread of a peer is
  file,      \* the file it handles
  from,      \* the peer it downloads from
  client,    \* the thread it uploads to
  count,     \* the blocks it has sent or received
  channel,   \* what is on its way to a thread that downloads
  result,    \* how the user's last download ended
  restarts,  \* how many processes have come back
  exposed    \* history: the copies a user or a start announced before they were whole

work == <<file, client, count>>
transfers == <<up, inbox, content, stage, work, from, channel, result, restarts, exposed>>

InitTransfers(first) ==
  /\ up = Peers
  /\ inbox = [p \in Peers |-> <<>>]
  /\ content = [p \in Peers |-> [f \in Files |-> IF f \in Shared[p] THEN Blocks ELSE NoFile]]
  /\ stage = [t \in Threads |-> IF t[2] = Cli THEN first ELSE "idle"]
  /\ file = [t \in Threads |-> NoFile]
  /\ from = [t \in Threads |-> NoPeer]
  /\ client = [t \in Threads |-> Gone]
  /\ count = [t \in Threads |-> 0]
  /\ channel = [t \in Threads |-> <<>>]
  /\ result = [p \in Peers |-> "none"]
  /\ restarts = 0
  /\ exposed = {}

Whole(p, f) == content[p][f] = Blocks
Listing(p) == {f \in Files : content[p][f] # NoFile}

\* Peer p tells others that it has these files, whatever is in them.
Announce(p, fs) == exposed' = exposed \cup {<<p, f>> : f \in {g \in fs : ~Whole(p, g)}}

Goto(t, s) == stage' = [stage EXCEPT ![t] = s]

\* The process ends, with all its threads and its connections.
Die(p) ==
  LET Cut(m) == IF m.type = "REQUEST_FILE" /\ m.client[1] = p THEN [m EXCEPT !.client = Gone] ELSE m IN
  /\ up' = up \ {p}
  /\ stage' = [t \in Threads |-> IF t[1] = p THEN "dead" ELSE stage[t]]
  /\ inbox' = [q \in Peers |-> IF q = p THEN <<>> ELSE [i \in DOMAIN inbox[q] |-> Cut(inbox[q][i])]]
  /\ client' = [t \in Threads |-> IF p \in {t[1], client[t][1]} THEN Gone ELSE client[t]]
  /\ from' = [t \in Threads |->
       IF t[1] = p \/ (from[t] = p /\ stage[t] # "connecting") THEN NoPeer ELSE from[t]]
  /\ channel' = [t \in Threads |-> IF t[1] = p THEN <<>> ELSE channel[t]]
  /\ file' = [t \in Threads |-> IF t[1] = p THEN NoFile ELSE file[t]]
  /\ count' = [t \in Threads |-> IF t[1] = p THEN 0 ELSE count[t]]
  /\ UNCHANGED <<content, result, restarts, exposed>>

Crash(p) == p \in MayCrash /\ p \in up /\ Die(p)

\* It is started again; its command line begins at first.
Restart(p, first) ==
  /\ p \notin up
  /\ restarts < MaxRestarts
  /\ restarts' = restarts + 1
  /\ up' = up \cup {p}
  /\ stage' = [t \in Threads |->
       IF t[1] # p THEN stage[t] ELSE IF t[2] = Cli THEN first ELSE "idle"]
  /\ UNCHANGED <<inbox, content, work, from, channel, result>>

-----------------------------------------------------------------------------
(* request_file: the receiving side.                                       *)

Request(t) == [type |-> "REQUEST_FILE", file |-> file[t], client |-> t]

\* send_and_recv, up to the request.
request_file(t) ==
  /\ stage[t] = "connecting"
  /\ \/ /\ from[t] \in up
        /\ inbox' = [inbox EXCEPT ![from[t]] = Append(@, Request(t))]
        /\ channel' = [channel EXCEPT ![t] = <<>>]
        /\ count' = [count EXCEPT ![t] = 0]
        /\ Goto(t, "waiting")
        /\ UNCHANGED <<up, content, file, from, client, result, restarts, exposed>>
     \/ from[t] \notin up /\ Die(t[1])

\* Mutant: nobody looks at what request_file returned.
EndedTrusting(t, how) ==
  IF t[2] = Cli
  THEN Goto(t, "menu") /\ result' = [result EXCEPT ![t[1]] = "downloaded"]
  ELSE Goto(t, "registering") /\ UNCHANGED result

\* Where a thread goes when its download has ended.
Ended(t, how) ==
  IF t[2] = Cli
  THEN Goto(t, "menu") /\ result' = [result EXCEPT ![t[1]] = how]
  ELSE Goto(t, IF how = "downloaded" THEN "registering" ELSE "idle") /\ UNCHANGED result

\* STATUS_BAD, or the connection ends before any answer.
Refused(t) ==
  /\ stage[t] = "waiting"
  /\ \/ channel[t] # <<>> /\ Head(channel[t]) = "STATUS_BAD" /\ Ended(t, "refused")
     \/ channel[t] = <<>> /\ from[t] \notin up /\ Ended(t, "lost")
  /\ channel' = [channel EXCEPT ![t] = <<>>]
  /\ UNCHANGED <<up, inbox, content, work, from, restarts, exposed>>

\* Mutant: the file is opened with O_TRUNC.
OpenedTruncating(old) == {}

\* open with O_CREAT and ftruncate: a file that is there keeps its blocks.
Opened(old) == IF old = NoFile THEN {} ELSE old

\* recvfile_msg opens the file and gives it its length.
Create(t) ==
  /\ stage[t] = "waiting"
  /\ channel[t] # <<>>
  /\ Head(channel[t]) # "STATUS_BAD"
  /\ content' = [content EXCEPT ![t[1]][file[t]] = Opened(@)]
  /\ Goto(t, "receiving")
  /\ UNCHANGED <<up, inbox, work, from, channel, result, restarts, exposed>>

\* Mutant: the loop of recvfile_msg ends one block early.
MoreThanOne(b) == b + 2 \in Blocks

More(b) == b + 1 \in Blocks

\* The loop of recvfile_msg: a block of the local file becomes what was sent.
Receive(t) ==
  LET b == count[t] + 1 IN
  /\ stage[t] = "receiving"
  /\ channel[t] # <<>>
  /\ content' = [content EXCEPT ![t[1]][file[t]] =
       IF Head(channel[t]) = "data" THEN @ \cup {b} ELSE @ \ {b}]
  /\ channel' = [channel EXCEPT ![t] = Tail(@)]
  /\ count' = [count EXCEPT ![t] = b]
  /\ IF More(b) THEN UNCHANGED <<stage, result>> ELSE Ended(t, "downloaded")
  /\ UNCHANGED <<up, inbox, file, from, client, restarts, exposed>>

\* The sender is gone and its connection reset: recv() fails, and the file stays
\* as it is.  A connection that ended in order is read for ever instead.
Reset(t) ==
  /\ stage[t] = "receiving"
  /\ channel[t] = <<>>
  /\ from[t] \notin up
  /\ Ended(t, "lost")
  /\ UNCHANGED <<up, inbox, content, work, from, channel, restarts, exposed>>

Download(t) == request_file(t) \/ Refused(t) \/ Create(t) \/ Receive(t)

-----------------------------------------------------------------------------
(* send_file: the sending side.                                            *)

\* message_handler: a free handler takes the oldest connection, a request.
HandleRequest(t) ==
  LET p == t[1]
      m == Head(inbox[p]) IN
  /\ stage[t] = "idle"
  /\ inbox[p] # <<>>
  /\ m.type = "REQUEST_FILE"
  /\ inbox' = [inbox EXCEPT ![p] = Tail(@)]
  /\ file' = [file EXCEPT ![t] = m.file]
  /\ client' = [client EXCEPT ![t] = m.client]
  /\ Goto(t, "opening")
  /\ UNCHANGED <<up, content, count, from, channel, result, restarts, exposed>>

\* Blocks reach a client that is still there; the rest is lost.
Send(c, what) ==
  IF c = Gone THEN UNCHANGED channel
  ELSE channel' = [channel EXCEPT ![c] = Append(@, what)]

\* createfile_msg opens the file, and STATUS_BAD is sent if it cannot.
send_file(t) ==
  /\ stage[t] = "opening"
  /\ IF content[t[1]][file[t]] = NoFile
     THEN Send(client[t], "STATUS_BAD") /\ Goto(t, "idle") /\ UNCHANGED count
     ELSE count' = [count EXCEPT ![t] = 0] /\ Goto(t, "sending") /\ UNCHANGED channel
  /\ UNCHANGED <<up, inbox, content, file, from, client, result, restarts, exposed>>

\* Mutant: sendfile_msg sends one block more.
MoreAndOne(b) == b \in Blocks

\* Mutant: sendfile_msg sends one block less.
LastSkipped(b) == b + 2 \in Blocks

MoreToSend(b) == b + 1 \in Blocks

\* The loop of sendfile_msg.
SendBlock(t) ==
  LET b == count[t] + 1 IN
  /\ stage[t] = "sending"
  /\ Send(client[t], IF b \in content[t[1]][file[t]] THEN "data" ELSE "hole")
  /\ count' = [count EXCEPT ![t] = b]
  /\ IF MoreToSend(b) THEN UNCHANGED stage ELSE Goto(t, "idle")
  /\ UNCHANGED <<up, inbox, content, file, from, client, result, restarts, exposed>>

\* The client is gone and the end it left has refused an earlier block.
SendToNobody(t) ==
  /\ stage[t] = "sending"
  /\ count[t] > 0
  /\ client[t] = Gone
  /\ Die(t[1])

Upload(t) == HandleRequest(t) \/ send_file(t) \/ SendBlock(t) \/ SendToNobody(t)

-----------------------------------------------------------------------------
(* Correctness.                                                            *)

TransfersTypeOK ==
  /\ up \subseteq Peers
  /\ content \in [Peers -> [Files -> {NoFile} \cup SUBSET Blocks]]
  /\ file \in [Threads -> Files \cup {NoFile}]
  /\ from \in [Threads -> Peers \cup {NoPeer}]
  /\ client \in [Threads -> Threads \cup {Gone}]
  /\ count \in [Threads -> {0} \cup Blocks]
  /\ channel \in [Threads -> Seq({"STATUS_BAD", "data", "hole"})]
  /\ result \in [Peers -> {"none", "nobody", "refused", "lost", "downloaded"}]
  /\ restarts \in 0..MaxRestarts
  /\ exposed \subseteq Peers \X Files

\* A step in which the loop of recvfile_msg ends.
Succeeds(t) ==
  stage[t] = "receiving" /\ channel[t] # <<>> /\ stage'[t] \in {"menu", "registering"}

\* peer_cli.cpp:73 "Downloaded file": when a download succeeds, of the command
\* line or of a handler, the file is whole.
DownloadIsWhole ==
  [][\A t \in Threads :
       Succeeds(t) => content'[t[1]][file[t]] = Blocks]_transfers

\* The same where nobody has announced a copy before it was whole: by listing
\* the directory during a download or after a crash that cut one short, or by
\* registering the name of a file that is not there.  Nothing else, no crash, no
\* concurrent download of the same file and no download from oneself, makes a
\* successful download leave holes.
DownloadIsWholeUnlessExposed ==
  [][\A t \in Threads :
       exposed = {} /\ Succeeds(t) => content'[t[1]][file[t]] = Blocks]_transfers

\* comms.c:463-490: a download never damages a file that was whole: downloads of
\* a file the peer has, of one it is downloading in another thread, or from
\* itself, cut short or not, leave it as it should be.
WholeStaysWhole ==
  [][\A p \in Peers, f \in Files :
       exposed = {} /\ Whole(p, f) => content'[p][f] = Blocks]_transfers

\* A peer that is named as the holder of a file does not answer "Peer did not
\* have requested file", crashed and restarted or not.
NamedPeerServes == exposed = {} => \A p \in Peers : result[p] # "refused"

\* While nobody stops, every download ends.
DownloadsEnd ==
  \A t \in Threads :
    (stage[t] = "connecting") ~> (stage[t] \in {"menu", "idle", "registering"} \/ up # Peers \/ restarts > 0)
=============================================================================
