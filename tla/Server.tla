------------------------------- MODULE Server -------------------------------
(***************************************************************************)
(* The server of every process: src/src/server.cpp over the sockets of     *)
(* comms.c and the pool of thread_pool.cpp, seen as its contract JobQueue, *)
(* which does not say that the destructor of the pool ends: DeletePool and *)
(* JoinPool have what ThreadPool says of that, see there.                  *)
(*                                                                         *)
(* The index server starts in blocking mode: its main thread is the accept *)
(* loop.  A peer queues the loop as a job, which keeps one worker of the   *)
(* pool.  A server may fail to start, or be destroyed at any time, with    *)
(* connections in the listen backlog, in the loop, in the queue and in     *)
(* handlers.  The poll of the loop gives up after a second to look at      *)
(* interrupt; accept waits for a connection as long as it takes.           *)
(***************************************************************************)
EXTENDS Naturals, Sequences, FiniteSets

CONSTANTS
  Workers,      \* the threads a pool may have: hardware_concurrency() of them
  Connections,  \* the clients' connections, each made once
  ServerLoop,   \* the accept loop as a job
  NoJob,        \* a worker without a job
  Backlog       \* of listen, 32 in the code

ASSUME ServerAssumption ==
  /\ ServerLoop \notin Connections
  /\ NoJob \notin Connections \cup {ServerLoop}
  /\ Backlog \in Nat \ {0}

VARIABLES
  queue, serving, accepted, closed,  \* the pool: see JobQueue
  threads,    \* the workers it has
  asleep,     \* those of them that no notification of the destructor reached
  blocking,   \* the argument of start
  owner,      \* where the thread that owns the server is
  socket,     \* local_server.sock: "none", "listening" or "closed"
  interrupt,
  backlog,    \* connections made and not accepted
  loop,       \* where server_loop is
  client,     \* the connection it has accepted
  connected,  \* history: the connections made, in order
  handled     \* history: those a handler has finished with

pool == <<queue, serving, accepted, closed>>
vars == <<pool, threads, asleep, blocking, owner, socket, interrupt, backlog, loop, client, connected, handled>>

Pool == INSTANCE JobQueue WITH Jobs <- Connections \cup {ServerLoop}

Init ==
  /\ Pool!Init
  /\ threads \in SUBSET Workers \ {{}}
  /\ asleep = {}
  /\ blocking \in BOOLEAN
  /\ owner = "built"
  /\ socket = "none"
  /\ interrupt = FALSE
  /\ backlog = <<>>
  /\ loop = "off"
  /\ client = NoJob
  /\ connected = <<>>
  /\ handled = {}

-----------------------------------------------------------------------------
(* start.                                                                  *)

\* Mutant: a failure of listen is not returned.
StartAnyway ==
  /\ owner = "built"
  /\ loop' = "test"
  /\ owner' = "looping"
  /\ UNCHANGED <<pool, threads, asleep, blocking, socket, interrupt, backlog, client, connected, handled>>

\* No address, or bind or listen fails.
StartFails ==
  /\ owner = "built"
  /\ owner' = "failed"
  /\ UNCHANGED <<pool, threads, asleep, blocking, socket, interrupt, backlog, loop, client, connected, handled>>

start ==
  /\ owner = "built"
  /\ socket' = "listening"
  /\ loop' = "test"
  /\ IF blocking
     THEN owner' = "looping" /\ UNCHANGED pool
     ELSE owner' = "started" /\ Pool!Enqueue(ServerLoop)
  /\ UNCHANGED <<threads, asleep, blocking, interrupt, backlog, client, connected, handled>>

Connect(c) ==
  /\ socket = "listening"
  /\ Len(backlog) < Backlog
  /\ \A i \in DOMAIN connected : connected[i] # c
  /\ backlog' = Append(backlog, c)
  /\ connected' = Append(connected, c)
  /\ UNCHANGED <<pool, threads, asleep, blocking, owner, socket, interrupt, loop, client, handled>>

-----------------------------------------------------------------------------
(* server_loop, by whoever runs it, with servacpt_conn.                    *)

Looping == owner = "looping" \/ \E w \in Workers : serving[w] = ServerLoop

Test ==
  /\ Looping
  /\ loop = "test"
  /\ loop' = IF interrupt THEN "over" ELSE "poll"
  /\ UNCHANGED <<pool, threads, asleep, blocking, owner, socket, interrupt, backlog, client, connected, handled>>

\* Mutant: poll without a timeout.
readyOnly == backlog # <<>>

\* What ends the polling: a connection, a socket that is no more, or a timeout
\* that finds the flag up.
ready == backlog # <<>> \/ socket = "closed" \/ interrupt

Poll ==
  /\ loop = "poll"
  /\ ready
  /\ loop' = "accept"
  /\ UNCHANGED <<pool, threads, asleep, blocking, owner, socket, interrupt, backlog, client, connected, handled>>

\* accept waits while the socket is open and nobody has connected; it fails on
\* a socket that is closed, and the loop goes on.  Their other errors are left
\* out: they lead back to the test as well.
Accept ==
  /\ loop = "accept"
  /\ \/ /\ backlog # <<>>
        /\ client' = Head(backlog)
        /\ backlog' = Tail(backlog)
        /\ loop' = "queue"
     \/ /\ socket = "closed"
        /\ loop' = "test"
        /\ UNCHANGED <<client, backlog>>
  /\ UNCHANGED <<pool, threads, asleep, blocking, owner, socket, interrupt, connected, handled>>

\* Mutant: a connection is let go when others wait for a worker.
QueueIfIdle ==
  /\ loop = "queue"
  /\ IF queue = <<>> THEN Pool!Enqueue(client) ELSE UNCHANGED pool
  /\ loop' = "test"
  /\ client' = NoJob
  /\ UNCHANGED <<threads, asleep, blocking, owner, socket, interrupt, backlog, connected, handled>>

\* The notification of queue_job reaches a worker that sleeps.
QueueJob ==
  /\ loop = "queue"
  /\ Pool!Enqueue(client)
  /\ asleep' = {}
  /\ loop' = "test"
  /\ client' = NoJob
  /\ UNCHANGED <<threads, blocking, owner, socket, interrupt, backlog, connected, handled>>

server_loop == Test \/ Poll \/ Accept \/ QueueJob

-----------------------------------------------------------------------------
(* The workers.                                                            *)

\* The step of a worker that finds the flag of the pool down; it holds the lock of
\* the pool from there until it has taken the job.
Dispatch(w) ==
  /\ w \in threads
  /\ owner # "deleting"
  /\ Pool!Dispatch(w)
  /\ UNCHANGED <<threads, asleep, blocking, owner, socket, interrupt, backlog, loop, client, connected, handled>>

\* connection_handler: recv_msg, message_handler, close_conn.
connection_handler(w) ==
  /\ serving[w] \in Connections
  /\ Pool!Complete(w)
  /\ handled' = handled \cup {serving[w]}
  /\ UNCHANGED <<threads, asleep, blocking, owner, socket, interrupt, backlog, loop, client, connected>>

LoopReturns(w) ==
  /\ serving[w] = ServerLoop
  /\ loop = "over"
  /\ Pool!Complete(w)
  /\ UNCHANGED <<threads, asleep, blocking, owner, socket, interrupt, backlog, loop, client, connected, handled>>

Work(w) == Dispatch(w) \/ connection_handler(w) \/ LoopReturns(w)

-----------------------------------------------------------------------------
(* ~Server.                                                                *)

\* Mutant: the flag goes up before the socket is closed.
InterruptFirst ==
  /\ owner \in {"started", "failed"}
  /\ interrupt' = TRUE
  /\ owner' = "closing"
  /\ UNCHANGED <<pool, threads, asleep, blocking, socket, backlog, loop, client, connected, handled>>

\* The connections of the backlog are reset.
CloseSocket ==
  /\ owner \in {"started", "failed"}
  /\ socket' = "closed"
  /\ backlog' = <<>>
  /\ owner' = "closing"
  /\ UNCHANGED <<pool, threads, asleep, blocking, interrupt, loop, client, connected, handled>>

RaiseInterrupt ==
  /\ owner = "closing"
  /\ interrupt' = TRUE
  /\ owner' = "joining"
  /\ UNCHANGED <<pool, threads, asleep, blocking, socket, backlog, loop, client, connected, handled>>

\* delete threads: the flag of the pool and notify_all.  Whoever held the lock of
\* the pool then, with nothing in the queue and the flag still down, parks
\* after the notification.
DeletePool ==
  /\ owner = "joining"
  /\ owner' = "deleting"
  /\ \/ asleep' = {}
     \/ /\ queue = <<>>
        /\ \E w \in threads : serving[w] = NoJob /\ asleep' = {w}
  /\ UNCHANGED <<pool, threads, blocking, socket, interrupt, backlog, loop, client, connected, handled>>

SpuriousWakeup ==
  /\ asleep # {}
  /\ asleep' = {}
  /\ UNCHANGED <<pool, threads, blocking, owner, socket, interrupt, backlog, loop, client, connected, handled>>

\* Every worker has left: the queue goes with its jobs.
JoinPool ==
  /\ owner = "deleting"
  /\ asleep = {}
  /\ Pool!Close
  /\ owner' = "gone"
  /\ UNCHANGED <<threads, asleep, blocking, socket, interrupt, backlog, loop, client, connected, handled>>

Next ==
  \/ start \/ StartFails
  \/ \E c \in Connections : Connect(c)
  \/ server_loop
  \/ \E w \in Workers : Work(w)
  \/ CloseSocket \/ RaiseInterrupt \/ DeletePool \/ SpuriousWakeup \/ JoinPool

\* Every thread is scheduled, and a handler returns; nobody is forced to start,
\* to connect, to begin the destruction or to wake up without a notification.
Spec ==
  /\ Init /\ [][Next]_vars
  /\ WF_vars(server_loop)
  /\ \A w \in Workers : WF_vars(Work(w))
  /\ WF_vars(RaiseInterrupt \/ DeletePool \/ JoinPool)

-----------------------------------------------------------------------------
(* Correctness.                                                            *)

\* Every variable keeps its type; the loop runs on a socket that listens, or did.
TypeOK ==
  /\ queue \in Seq(Connections \cup {ServerLoop})
  /\ serving \in [Workers -> Connections \cup {ServerLoop, NoJob}]
  /\ accepted \in Seq(Connections \cup {ServerLoop})
  /\ closed \in BOOLEAN
  /\ threads \subseteq Workers /\ asleep \subseteq threads
  /\ blocking \in BOOLEAN
  /\ owner \in {"built", "failed", "looping", "started", "closing", "joining", "deleting", "gone"}
  /\ socket \in {"none", "listening", "closed"}
  /\ interrupt \in BOOLEAN
  /\ backlog \in Seq(Connections) /\ Len(backlog) <= Backlog
  /\ loop \in {"off", "test", "poll", "accept", "queue", "over"}
  /\ client \in Connections \cup {NoJob}
  /\ connected \in Seq(Connections)
  /\ handled \subseteq Connections
  /\ loop # "off" => socket # "none"

\* comms.c:128: accept comes after a poll that may have timed out, yet it never
\* waits on an open socket for a client that may not come: when the flag is up
\* the socket is already closed.
AcceptNeverBlocks == loop = "accept" => backlog # <<>> \/ socket = "closed"

\* The jobs after that of the loop itself.
Handed == IF blocking THEN accepted ELSE Tail(accepted)

\* server.cpp:60-69: whoever connects is handed to the pool, once, in the order
\* of arrival.
InOrderOfArrival ==
  socket = "listening" =>
    connected = Handed \o (IF loop = "queue" THEN <<client>> ELSE <<>>) \o backlog

\* A connection is handled, unless the server is destroyed first: by a server
\* that runs the loop itself, or whose pool has a worker to spare for it.
EveryConnectionHandled ==
  \A c \in Connections :
    (\E i \in DOMAIN connected : connected[i] = c) /\ (blocking \/ Cardinality(threads) > 1)
      ~> (c \in handled \/ owner \notin {"looping", "started"})

\* server.cpp:109-114: the loop sees the flag within a poll, wherever it is, every
\* handler returns, and the destructor ends; or all workers are idle for good, and
\* it waits in join for one that sleeps, see TeardownCompletes in ThreadPool.
StopEndsOrSleeps ==
  owner = "closing" ~>
    (owner = "gone" \/ [](asleep # {} /\ \A w \in Workers : serving[w] = NoJob))
=============================================================================
