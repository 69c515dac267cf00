# Verification of the P2P file sharing service

TLA+ models of the program under `src/`, the TLC configurations that check them
on small instances, and theorems about them checked by the TLA+ proof system:
every safety property that a passing run checks is also proved, for every value of
the constants.
Paths such as `src/src/comms.c` are relative to the parent of this directory.

## The system

The repository holds two versions of one service. In the *centralized* one a
peer registers its files with an index server, asks it who has a file and
downloads the file from that peer; the server orders peers to replicate files
until each has enough copies. In the *decentralized* one there is no server: a
search floods an overlay of neighbors, and only downloads go from peer to peer.
Both use the same accept loop, thread pool and message layer.

### Inventory

| Component | State it keeps | Operations | Interacts with |
|---|---|---|---|
| **Thread pool** `thread_pool.cpp` | `work_queue`, `queue_lock`, `notify_work`, `interrupt`, the threads | constructor, `queue_job`, `thread_loop`, destructor | Server queues jobs and owns it; the accept loop of a peer *runs in it* |
| **Server accept loop** `server.cpp` | listening socket, `interrupt`, the pool | `start`, `server_loop`, `connection_handler`, destructor | pool (jobs), message layer (`recv_msg`), the message handler of a peer or of the index server |
| **Index server** `index_server.cpp`, `file_index.cpp` | `peers` under `peer_lock`, `file_peer_map` under `index_lock` | `register_user`, `register_file`, `search_index`, `find_replication_peers`, `request_replication` | one connection for each message from a peer; connects to peers with replication orders |
| **Centralized peer** `centralized_peer.cpp`, `peer_cli.cpp` | the shared directory | `register_user`, `register_directory`, `search_for_file`, `request_file`, `replicate_file`, `send_file` | index server; other peers; its own command line thread and handlers share the directory |
| **Decentralized peer: search** `decentralized_peer.cpp` | `file_set`, `message_count`, `received_queries`, the `query_response` of each broadcast | `search_for_file`, `search_index`, `broadcast_query`, `get_message_id` | its neighbors, one thread and one connection for each query |
| **Decentralized peer: files** `decentralized_peer.cpp` | the shared directory, `file_set`, `neighbors` | `init_neighbors`, `init_fileset`, `request_file`, `send_file` | other peers |
| **Message layer** `comms.c`, `messages.cpp` | per call: positions and counts; the file being received | `createupdt_msg`, `createfile_msg`, `send_msg`, `recv_msg` | TCP, the file system |
| **Command line, benchmarks** `peer_cli.cpp`, `benchmarks.cpp` | none beyond the peer | menus, loops of the operations above | the peer objects |
| **Overlay configuration, scripts** `config/`, `scripts/` | data | - | read by `init_neighbors`, or deployment |

### What is hard about it, and what makes each part correct

* **Thread pool.** The destructor raises `interrupt` without the lock
  (`thread_pool.cpp:39`), `queue_job` notifies after it has released it, and a
  worker reads the flag twice. Correct: no job is lost, doubled, reordered or left
  behind a parked worker; a pop never meets an empty queue; a teardown ends.
* **Server.** Connections wait in the backlog, in the loop, in the queue and in
  handlers; a poll that times out is followed by an `accept` that would wait for
  ever. Correct: `accept` never waits for a client that may not come, connections
  are handed on once and in order and are handled, the destructor ends unless that
  of the pool does not.
* **Index server.** Handlers interleave under two locks; the round of
  `find_replication_peers` is a ring walk over a vector, with a fresh lock of the
  index at every look; each replica that is registered may order more. Correct: a
  round leaves out nobody and takes nobody twice, orders do not feed themselves,
  go from holders to users, and a search names a holder of the moment.
* **Centralized peer.** Two kinds of thread download into the directory that
  others list and upload from; peers stop in the middle and come back; the index
  remembers them. Correct: what the index lists can be served whole, what was
  downloaded is whole, a whole file stays whole, and downloads end.
* **Decentralized search.** Threads of a broadcast share one response without a
  lock; the overlay has cycles; a handler is blocked until its whole subtree has
  answered; peers stop. Correct: an address that is returned is a holder's, a
  holder that can be reached is found, a query is taken up once, a search returns.
* **Decentralized peer, files.** The threads store an answer field by field; the
  names a peer answers for are read once, when it starts. Correct: what a search
  leaves is one of the answers, only a failure leaves part of a file behind.
* **Message layer.** TCP cuts the stream where it likes; the first packet is
  padded and the rest is not; counts mix `size_t`, `long` and `int`; a message says
  nothing of its fields. Correct: the bytes arrive as they were sent, whatever the
  cuts, are parsed as they were put together, and both loops end.

`PROJECT.json` lists these hazards at their lines, with the properties aimed at
each and a note where none covers it yet.

## The modules

| Module | Models | Uses |
|---|---|---|
| `ThreadPool` | the pool, one action for each access to shared state | `JobQueue` |
| `JobQueue` | what a pool promises: an abstract specification | |
| `ThreadPoolProofs` | theorems about `ThreadPool` | `ThreadPool` |
| `Server` | start, accept loop, handlers, destructor | `JobQueue` (INSTANCE) |
| `ServerProofs` | theorems about `Server` | `Server` |
| `IndexServer` | the index server, with any clients | `Catalogue` (refinement) |
| `Catalogue` | what the index server promises: an abstract specification | |
| `IndexServerProofs` | theorems about `IndexServer` | `IndexServer` |
| `Transfers` | downloads and uploads, the same in both systems; crashes and restarts | |
| `TransfersProofs` | lemmas: what each step of a transfer, a death or a restart keeps | `Transfers` |
| `CentralizedPeer` | peers, their users and their files, around the index server | `Transfers`, `IndexServer` (INSTANCE) |
| `CentralizedPeerProofs` | theorems about `CentralizedPeer` | `CentralizedPeer`, `TransfersProofs` |
| `FloodSearch` | searches of the decentralized system hop by hop, any overlay | |
| `FloodSearchProofs` | theorems about `FloodSearch` | `FloodSearch` |
| `DecentralizedPeer` | the origin of a search, store by store, and the files | `Transfers` |
| `DecentralizedPeerProofs` | theorems about `DecentralizedPeer` | `DecentralizedPeer`, `TransfersProofs` |
| `Framing` | one message over one connection, and the layouts of messages | |
| `FramingProofs` | theorems about `Framing` | `Framing` |
| `MC...` | small instances: sets, overlays, what the users choose | |

Definitions have the name of the function they translate where there is one, and
`PROJECT.json` maps each to its lines. Definitions commented *Mutant* are not part
of any specification: they are the plausible bugs that show that the properties
can fail.

### ThreadPool and JobQueue

Threads are the workers and the owner. `pc[w]` is the place of a worker in
`thread_loop`: `start` (about to lock), `check` (predicate, locked), `block`
(predicate was false, not yet parked), `wait`, `woken`, `leave` (out of the wait,
about to read the flag), `take`, `run`, `notify` (inside `queue_job`, after the
unlock), `exited`. The critical section of `thread_loop` is split there because
the destructor, which never takes the lock, can step in between; `push` is a
single step because nothing unlocked can see half of it. `SpuriousWakeup` is a
step the standard allows. A job in `Endless` is the accept loop of
`server.cpp:91`: it queues the other jobs from inside the pool and returns only
once the server is shut down. `submitted`, `started` and `late` are history.

`JobQueue` has the queue, the job of each worker and nothing else. `Server` has
it as an instance, with `Pool!Enqueue`, `Pool!Dispatch`, `Pool!Complete` and
`Pool!Close` for the calls and returns; the other modules see their pools the same
way, as an inbox served first-in first-out by a number of handlers.

### Server

`start` in both modes: the index server's main thread becomes the loop
(`blocking`), a peer queues the loop as a job. `loop` is the place in `server_loop`
and `servacpt_conn`: `test` of the flag, `poll`, `accept`, `queue`. `Poll` is what
ends the polling: a connection, a closed socket, or a timeout that finds the flag
up; a timeout that does not is a stutter. `Accept` waits on an open socket without
a connection, as the call does; the other errors of both lead back to the test, and
are left out. The destructor closes the socket and raises the flag (`CloseSocket`,
`RaiseInterrupt`), then deletes the pool; a server that failed to start goes the
same way. `JobQueue` does not promise that the last of these ends, so `Server` has
from `ThreadPool` what matters for it. `DeletePool` is the flag of the pool and
`notify_all`: a worker that held the lock at that moment, with an empty queue, may
be `asleep` afterwards (one at most, since there is one lock), and no job is taken
any more (a job taken by a worker that had found the flag down comes before this
step, since that worker held the lock since then). `JoinPool` is the join: it waits
for who is `asleep`, and only a job queued by the loop (`QueueJob`) or a
`SpuriousWakeup` ends that. The pool has any non-empty subset of `Workers`: that is
`hardware_concurrency()`.

### IndexServer and Catalogue

One worker is one `pc[w]`: a message type while it has been taken but not handled,
then `replicate`, `scan` (holding `peer_lock`), `send`. A step is one critical
section of `index_lock`, except that `scan` holds `peer_lock` over several. The
random start of the walk and the random peer of an answer are free choices. A
`conn_t` has a `sock` that no code sets, so `Sockets` is a set of left-over values
and `contains_peer` compares them, as the code does. A replication order to a peer
that has left kills the server. `replication_factor` is a constant: it is 1 in
the code, with which nothing is ever replicated, and the README calls it
configurable.

`Catalogue` has neither queue nor locks nor walk: a registration, a search, an
order are one step each, and `budget[f][n]` is the number of orders that may still be
given for the `n`-th registration of a file, which is what that registration found
to be missing. `ImplementsCatalogue` maps the vectors to sets and `budget` to `Owed`:
what the worker whose round belongs to that registration may still order, `left`
while it walks and the peers still to be sent to once it has found them.

### Transfers

The threads of a peer are its command line `Cli` and the `Handlers` of its pool;
`stage[t]` is where each is. A file is `NoFile` or the set of blocks it holds:
`Create` makes it (open and ftruncate: full length, all holes), `Receive` fills it,
and a handler that sends reads each block when it sends it, holes included.
`channel[t]` is what is on its way to a thread that downloads. `Die` is the end
of a process however it comes about: killed by its user (`Crash`), or by SIGPIPE
when it calls or writes to somebody who is gone. `Restart` gives it its directory
back, and nothing else. `exposed` is history: the copies a peer told others of, by
registering them or by taking them for its files when it started, before they
were whole. Everything about whole files is stated under `exposed = {}`: so the
properties say that *nothing but* an announcement that came too early makes a
download leave holes.

### CentralizedPeer

`Transfers`, with the constructor's `register_user`, the menu (`register_directory`,
a registration by name, a search, a download), and a handler's `replicate_file`. The
index is the module `IndexServer` itself (`Index!Work`, `Index!Arrive`), with its
queue, its workers and its orders arriving in the inboxes of these peers. A peer
that comes back joins again and goes on with what is left of its user's choices.
What its predecessor told the server is still handled and what the server ordered
is lost with its connections; but a search is answered on the connection it came
by, so what a process asked before it ended is `Orphaned`: its answer is nobody's.

### FloodSearch

A request waits in `inbox[n]` (listen backlog and work queue, both first-in
first-out) for one of the `Handlers` workers of peer `n`; `Hit`, `Duplicate` and
`Forward` are the three ways through `search_index`, decided with the map lock
held. `Forward` keeps the worker `Busy` until `ForwardResponse`. Each neighbor
but the sender gets a thread (`spawned`, `calling`, `answered`, `joined`);
`Receive` stores an answer other than `DUP_REQUEST` into `response`, the shared
`query_response`. `StartSearch`, `FinishSearch` and `FoundLocally` are
`search_for_file` on the main thread. `Crash` stops a peer of `Unreliable`:
whoever waits for it reads a `NULL_MSG`; whoever calls it later is killed by
SIGPIPE (`CallDead`), since nobody looks at the result of `connect`.
`get_message_id` is modelled with its width (`IdSpan`) and with a counter that
starts at anything (`FirstCount`), since `message_count` is never initialised.

### DecentralizedPeer

`FloodSearch` follows a query hop by hop and takes what a thread does with its
answer for one step. Here it is the other way round. What a neighbor answers
(`Answers`) is what `FloodSearch` establishes of it: `DUP_REQUEST`, or `STATUS_OK`
with the address of a peer that has the name in its `file_set`; once somebody has
stopped, also `NULL_MSG` or a mixture. The threads of the origin receive these in
any order and store `buf` and `type` one by one, unlocked, into the
`query_response` they share (`Store`). `SearchEnds` looks at the type alone, as the
code does: a `STATUS_OK` over a missing `buf` kills the peer. `file_set` is read
from the directory at the start and at each restart (`Return`), never in between.

### Framing

A byte is its position in the message, or 0 for padding. `FirstPacket` is the
padded packet of `SENDSIZE` bytes, `NextPacket(n)` a send that takes `n` bytes,
`FirstRead(k)` and `NextRead(k)` a `recv` that returns `k`. The counts are those of
the code: `bytestosend`, the position, `bufferroom` (stale in the first round of
`sendupdt_msg`, as in the code), and `bytesleft`, an `int` (`AsInt`). `created` and
`parsed` are the layouts of the six kinds of update, from either side of
`messages.cpp`. The sender may die at any point, with its connection ended or reset,
and the receiver may have nowhere to put the message (`CannotStore`).

## The runs

`tlc -config <run>.cfg <module>` for the module named in `PROJECT.json`. The seven
runs that pass:

| Run | Instance | Shows |
|---|---|---|
| `ThreadPool_jobs` | 3 workers; an accept loop and 2 jobs, queued by the owner or by the accept loop; teardown at any time | jobs start once, in order (`FirstInFirstOut`), none is stranded (`NoStrandedJob`), pops are safe (`PopsFromNonEmpty`), at most one job starts after the flag (`OneLateJob`), the pool implements `JobQueue`, every job starts unless the pool is destroyed, and the teardown ends if nobody is between predicate and wait when the flag goes up |
| `Server_accept` | 1 to 3 workers, either mode, 3 connections, a backlog of 2; start may fail; destruction at any time | `AcceptNeverBlocks`, `InOrderOfArrival`, `EveryConnectionHandled` (given a worker beside the loop), `StopEndsOrSleeps`: the destructor ends, or all workers are idle for good and it joins one that slept through `notify_all` |
| `IndexServer_rounds` | 3 peers, 2 workers, factor 3, two left-over socks, any 4 messages in any order, one peer may leave | `OneRound`, `GivesUpLast`, `HandlersReturn`, `ImplementsCatalogue` |
| `CentralizedPeer_share` | 2 peers with 1 handler, 1 file of 2 blocks; one registers it by name; the other searches, downloads and registers its directory while a replica is ordered; both may stop, one may come back | `ListedHaveAll`, `NamedPeerServes`, `DownloadIsWholeUnlessExposed`, `WholeStaysWhole`, `DownloadsEnd` |
| `FloodSearch_two` | a triangle, two concurrent searches from different peers, 2 handlers, every placement of the file, ids that wrap, the third peer may stop | `SoundResult`, `CompleteResult`, `DupMeansSeenIfUnique`, `TakesUpOnce`, `SearchReturns` |
| `DecentralizedPeer_fetch` | a triangle, two holders; the third downloads twice, a holder downloads its own; two may stop, one may come back | `ResponseIsAnswer`, `PartialOnlyMidway`, `DownloadIsWholeUnlessExposed`, `WholeStaysWhole` |
| `Framing_whole` | packets of 5 bytes, headers of 1 and 2, every layout, updates up to 8 bytes, files up to 14, any cuts, a sender that may die, a receiver without room | `Delivered`, `Understood`, `StaysInBuffer`, `MessageArrives` |

Each also checks the `TypeOK` of its module. Five runs find what a comment, a
message or the documentation says to be false of the code; each is a finding in
`PROJECT.json`:

| Run | What happens |
|---|---|
| `ThreadPool_teardown` | `TeardownCompletes`: a worker that evaluated the predicate before the flag went up parks after `notify_all`; the destructor never joins it |
| `FloodSearch_oneworker` | `SearchReturns`: with one handler for each peer, two peers of a triangle wait for each other to refuse a duplicate: the search never returns |
| `FloodSearch_masked` | `NotFoundMeansAbsent`: the `NULL_MSG` of a neighbor that stopped overwrites a holder's answer: "Nobody had the file" |
| `CentralizedPeer_partial` | `DownloadIsWhole`: a user registers the directory while a replica is coming in: the index lists it, and a download from it succeeds with holes |
| `Framing_death` | `ReceiverReturns`: after the sender has gone `recv` returns 0 for ever and the receiver's loop never ends |

### Bounds, and why they are enough

* *Pool*: three workers are one that parks, one that steals its job and the accept
  loop; a job is queued once, so that order and duplication can be seen. The
  theorems need no bound.
* *Server*: three connections and a backlog of two are one in each of backlog, loop
  and handler, a full backlog, and two that overtake each other if they can; one
  worker, one beside the loop, and two that run handlers at the same time.
* *IndexServer*: `MaxArrivals` bounds the connections. Four are two users and two
  registrations in any order, or three users of whom one registers and is
  searched for; with factor 3 a round may find too few, enough, or meet a peer
  that is registered twice. One file: the files of the index are independent.
* *CentralizedPeer*, *DecentralizedPeer*: two blocks are the least with which a file
  can be part there; a second copy of a file needs two peers, two answers need
  three. What each user chooses is a fixed sequence (`Commands`), each choice at
  any moment; `MaxRestarts` bounds the restarts, and the orders are bounded by
  `ImplementsCatalogue`.
* *FloodSearch*: a triangle is the shortest cycle, on which a duplicate meets a peer
  that is still working; two searches meet at the third peer, and the counter of one
  wraps (`IdSpan`). Their ids differ: `CompleteResult` and `DupMeansSeenIfUnique` are
  about distinct ids. Every placement of the file is an initial state. The
  safety theorems need no bound.
* *Framing*: `MaxUpdate` is exactly the longest update that works (twice the room of
  a first packet, 2024 bytes in the code), `MaxFile` reaches a fourth packet, and
  `IntLimit` lies above them; the sizes are scaled so that header, room and packet
  keep their order.

### Fairness, deadlock

Every thread that can run is scheduled. `ThreadPool`, `Server`, `IndexServer` and
`Framing` say so thread by thread: weak fairness for each worker, the loop, the
owner once it has begun the destruction, and both ends of a connection. The owner's
join (`Join`, `JoinPool`) is fair, but not enabled while a worker sleeps, so that no
fairness makes it return. In
`ThreadPool` a worker also has strong fairness for taking the lock, since the lock
is free again and again rather than for good; without it a worker could starve,
which no mutex of the target does for ever. In `FloodSearch` and `CentralizedPeer`
one weak fairness is enough, and assumes less: while some thread can go on, some
thread does. Their work is finite, so that only a wait that nobody ends keeps a
search or a download from returning, and such waits are what the properties are
about. `DecentralizedPeer` assumes none: its properties are safety.

No fairness is assumed of users, crashes, restarts, resets, arrivals, queueing a
job, the start or the destruction of a server, or spurious wakeups: nothing obliges
them to happen, and no property depends on it.

Runs do not check for deadlock: every program here may come to rest, with its queue
empty and its users done. That nothing is stuck is said by the liveness
properties instead.

## The proofs

Every safety property of the passing runs, invariant, action property or refinement,
is a theorem for all values of the constants. The proofs assume the named
assumptions of the modules and nothing else: types of the constants, distinct
markers (`NoFile`, `NoReply` and the like), a pool of finitely many workers, a
factor of at least one, a header shorter than a packet. The one theorem with a
hypothesis of its own is `Framing`'s, see there. Each module has the same shape: an
inductive invariant `IInv` with a lemma for each action or kind of action,
`Invariance == Spec => []IInv`, and theorems drawn from it.

**ThreadPool.** None of the properties is inductive. `PopsFromNonEmpty` holds
because the worker at `take` has held the lock since it saw the queue non-empty;
`LockInv` ties `queue_lock` to the place of each worker and records what each
learnt under the lock, `OwnerInv` the stage of the teardown, `LateInv` that the one
late job uses up the only place past the second read, `JobInv` that the jobs that
wait and those that run are distinct and were all submitted. `IInv` is their
conjunction with `TypeOK` and `FirstInFirstOut`. `NoStrandedJob` compares the
length of the queue with a number of workers; `CountMove` says how that number
changes when one worker moves, and `StrandedStep` accounts for each action. The
refinement maps each step to the step of `JobQueue` it implements, or to a stutter:
`Join` needs `OwnerInv`, `TakeJob` needs `JobInv`.

| Theorem | For any workers and jobs |
|---|---|
| `TypeCorrect` | `TypeOK` |
| `EachJobOnceInOrder` | `FirstInFirstOut`, and `OneWorkerPerJob` |
| `CriticalSection`, `OneSlipsThrough` | `PopsFromNonEmpty`, `OneLateJob` |
| `NoJobStranded` | `NoStrandedJob` |
| `Refinement` | `ImplementsJobQueue` |

**FloodSearch.** `SeenInv`, `ClientInv`, `IdsInv` and `SoundInv` hold whatever
crashes: a peer does nothing for a search before it has recorded its id, an id a
peer has seen is the id of a search it took up, and every address that travels is
a holder's. They give soundness and the two properties of duplicates.
Completeness holds of runs without a crash (`up = Peers`) and is the hard one: a
peer that is refused as a duplicate learns nothing, so why is nothing lost? Call a
peer *promising* if it is still at work, or has answered with a holder. `PathInv`:
whoever asked a promising peer is promising itself. `RootInv`: following who asked
leads to the origin. So if any peer that took up the query is a holder, the origin
is promising; and once it has finished, it has an address. If none is, every peer
that took it up has forwarded it, the set of those peers is closed under
`Neighbors`, and contains everybody the overlay leads to. `CallInv`, `WaitInv`,
`OnceInv`, `TakenInv`, `BroadcastInv` and `AnswerInv` keep the bookkeeping of
requests, threads and answers on which this rests; `FaultFree` is their
conjunction.

| Theorem | For any overlay, placement, handlers and searches |
|---|---|
| `TypeCorrect` | `TypeOK` |
| `SearchIsSound` | `SoundResult`, crashes or not |
| `SearchIsComplete` | `CompleteResult` |
| `DuplicatesAreSeen` | `DupMeansSeenIfUnique`, crashes or not |
| `NobodySearchesTwice` | `TakesUpOnce`, crashes or not |

**IndexServer.** A round of `find_replication_peers` walks a ring from a random
start, and any worker may register files between two looks. `Visited(w)` is the arc
of places the walk has been to (`ArcGrows`: one step adds one place, or the arc is
the whole ring and the walk is back where it began). `RoundOf` says that the peers
found come from different visited places (`Origin`, an injection): hence
`OneRound`. `SeenOf` says that whoever was passed is in the index or was taken:
registrations only add to the index, so this survives them, and at the end of a full
circle it is `GivesUpLast`. That `idx` stays inside the vector, which does not change
while the walk holds `peer_lock`, is part of `TypeOK`. For the refinement one more
thing is needed: whose orders are these? A worker in a round has `left` copies to
find for the registration number `ReplicationFactor - left` of its file (`CopyOf`), and
no two workers are in the round of the same registration (`OwnRegistration`),
because the numbers are counted under `index_lock` and never given twice. So
`Budget` changes at one place for each step, and each step of the server is a step
of `Catalogue` or a stutter.

| Theorem | For any peers, files, workers, left-over socks and factor |
|---|---|
| `TypeCorrect` | `TypeOK`: `peers.at` never throws |
| `RoundTakesNobodyTwice`, `RoundGivesUpLast` | `OneRound`, `GivesUpLast` |
| `Refinement` | `ImplementsCatalogue` |

**Framing.** `Got` is the number of bytes the receiver has taken. `WireInv`: what is on
the wire are the bytes of the message from `Got` on, up to where the sender is, and
padding only at the end of a first packet. `RecvInv`: the buffer is the message up
to `Got`. `SendInv` has the counters, with the stale `bufferroom` of the first round of
`sendupdt_msg`. All but `TypeCorrect` are proved under `Fits`, which says when the
numbers of the code have room: the part of an update that does not fit its first
packet is no longer than the part that does (2024 bytes in all; the longest name has
255 and a peer is a few words, so every update of this program is shorter), and
lengths are below 2^31. Without the first the stale `bufferroom` loses bytes, without
the second `bytesleft` wraps; both are among the limits below. The instance of
`Framing_whole` satisfies `Fits` with the longest update it allows.

| Theorem | For any packet, headers, lengths and cuts |
|---|---|
| `TypeCorrect` | `TypeOK`, with or without `Fits` |
| `EveryByte`, `NoOverrun` | `Delivered`, `StaysInBuffer`, given `Fits` |
| `FieldByField` | `Understood`, given `Fits` |

**Server.** `AcceptNeverBlocks` is about a timeout of the poll, and holds because the
socket is closed before the flag goes up (`SocketInv`): a poll that ends with the
flag finds a closed socket. `InOrderOfArrival` is inductive with `LoopInv`, which says
where the connection is that has been accepted and not yet handed over, and that
the loop itself is the first job of a pool that runs it.

| Theorem | For any connections, workers, backlog and mode |
|---|---|
| `TypeCorrect` | `TypeOK` |
| `AcceptIsPrompt`, `ArrivalOrder` | `AcceptNeverBlocks`, `InOrderOfArrival` |

**Transfers.** Neither peer module can be reasoned about by its downloads alone. While
nothing is `exposed` (`Sound`): whoever a thread is about to connect to has the whole
file (`NamedIsWhole`), and so has whoever has a request waiting (`AskedIsWhole`) or
is sending (`SentIsWhole`); therefore nothing but data is on any connection
(`OnlyData`), a block that was received is there (`ReceivedIsThere`), although other
threads write the same file at the same time, and nobody is refused. `Kept` is what
a step leaves of this, and there is a lemma for each action, `Die` and `Restart`
included: `RestartKeeps` rests on the fact that a process comes back with its files
as they were, and none of its connections. Two lemmas make the action properties:
`TransferKeepsWhole`, no step takes a block of a whole file, and `SuccessIsWhole`,
after the last block all blocks are there. They hold for any `stage` of the rest of
a thread, so that both systems use them.

**DecentralizedPeer.** Its own part is what a search may be told. `SearchSound`: the
names in a `file_set` are those of whole files, and so are the answers. `Response`
is the unlocked `query_response`, while nobody has stopped: a thread has stored
exactly the answers that are not `DUP_REQUEST` (`Storing`), and each field of the
response is a field of one of these or has never been stored (`Left`). All
stored types are `STATUS_OK`, so that one stored `buf` and one stored `type` make
an answer, whoever they came from.

**CentralizedPeer.** What is true of an index that is told things over connections of
their own, in any order, by peers that stop and come back? `IndexSound` follows a
copy through everything that carries it: who is to be registered (`QueuedIsWhole`,
`TakenIsWhole`), is listed (`ListedIsWhole`), is named in an order
(`OrderedIsWhole`) or in an answer (`AnswerIsWhole`), and who has just made a replica
(`ReplicaIsWhole`), has all of the file. An answer names no file, so it must belong to
the question that is open: `Asked` says that a peer has one question at a time in the
queue or with a worker, none once it is answered, and that it is about the file the
command line is asking for (`OneQuestion`, `Quiet`). That is why a search answered on
its own connection matters, see `Orphaned`; with an answer that could reach the
next process of the same peer the invariant would not be inductive.

| Theorem | For any peers, files, blocks, threads and commands, crashed and restarted |
|---|---|
| `TypeCorrect`, in both | `TypeOK` |
| `WholeKept`, `DownloadsAreWhole`, in both | `WholeStaysWhole`, `DownloadIsWholeUnlessExposed` |
| `NamedServes`, in both | `NamedPeerServes` |
| `ListedHave` (centralized) | `ListedHaveAll` |
| `OneAnswer`, `Midway` (decentralized) | `ResponseIsAnswer`, `PartialOnlyMidway` |

**Only model-checked.** All liveness (`EveryJobStarts`, `TeardownOutsideWindow`,
`EveryConnectionHandled`, `StopEndsOrSleeps`, `SearchReturns`, `HandlersReturn`,
`DownloadsEnd`, `MessageArrives`): the proof system does not reach liveness under
fairness, nor `ENABLED`. No module declares a recursive operator, since the provers
can neither unfold one nor do induction over data.

## What is abstracted or left out

* The three stores into `query_response` are one step in `FloodSearch`, at every
  hop; `DecentralizedPeer` has them apart at the origin (`buf` and `type`: `size`
  is the same in every answer with an address). Joining and creating threads
  cost nothing.
* `connect` and the send of a small message are one step, and so are `open` and
  `ftruncate` of a download. The listen backlog is bounded in `Server` alone.
* `register_directory` reads the names at `opendir`; copies of one name have one
  length; a restarted peer has its old address and port.
* An address is one value, and so is a name; a header's contents are known to the
  receiver, which reads them at once: `FirstReads` has at least a header.
* `DownloadsEnd` is about peers that run: a download from a peer that closed its
  end in order is read for ever, as `Framing_death` shows, so `Reset` is not fair.

## Not modelled

* The choice of a port and of an address in `start`, and the parsing of the overlay
  (`init_neighbors`): input. That they fail is modelled (`StartFails`), what
  they find is a constant (`Neighbors`).
* Reading and wording of the command line, the clock of the benchmarks. Both call the
  operations of a peer one after the other, which is what `Commands` stands for.
* `clntinit_conn`, `servinit_conn` and the other code of `comms.c` that nobody calls.
* `config/` and `scripts/`: data, deployment.

## Limits of the code seen while modelling

Beside the findings, these are behaviours of the code that the models reproduce
or delimit, and that no run of the list above shows by itself:

* `hardware_concurrency() = 1` gives a pool of one worker, which the accept loop
  of a peer occupies: no connection is ever handled. `EveryConnectionHandled`
  fails without its condition on the pool.
* When a server is destroyed the connections still in its queue go with the pool,
  neither answered nor closed.
* `contains_peer` compares a `sock` that nobody has set (`file_index.cpp:60`): with two
  left-over values a peer that has a file may be ordered to replicate it. It then
  downloads a file it has, which `WholeStaysWhole` says is harmless.
* `replication_factor` is 1 (`file_index.cpp:8`), so that `register_file` never
  replicates: the resilience the README promises is off. With a larger factor, a
  peer that joins after the last registration never gets a replica, and a
  registration that is handled before the other users' `NEW_USER` orders none.
* A file registered twice by its peer counts as two copies.
* `replicate_file` waits inside a handler for a handler of the other peer: two
  peers with one handler each that are ordered to replicate from each other wait
  for ever. `CentralizedPeer_share` orders replicas one way only.
* A connection to a peer that has stopped is written to unchecked: SIGPIPE ends
  the caller, the index server included; and a peer whose download is given up
  by the other end ends with all its threads.
* A file that a crash cut short has its full length. After a restart it is
  registered or searched for like any other and served with holes. In the
  decentralized system it is also never repaired: the peer finds the name in its
  own `file_set`, and downloads it from itself.
* In the decentralized system a peer that stops may leave a `NULL_MSG` without
  `buf` that mixes with another thread's `STATUS_OK`: the peer reads an address
  from a buffer it does not have. `ResponseIsAnswer` is about runs without that.
* Message ids are a counter that nobody initialises plus `peer_id << 24`: they
  may collide, and then a peer refuses a query it has not seen: with counters of 4 and
  0 for `a` and `b` in the instance of `FloodSearch_two`, TLC refutes `DupMeansSeen`.
  `DupMeansSeenIfUnique` and `CompleteResult` are
  about distinct ids.
* Several neighbors may answer a query with a holder, though the comment at
  `decentralized_peer.cpp:116` says only one response should: copies of a file at
  two neighbors are enough. `SoundResult`, `CompleteResult` and `ResponseIsAnswer`
  hold nevertheless.
* An update of more than 2024 bytes loses 12 of them (`sendupdt_msg` copies
  `bufferroom` and sends `sending`): `Delivered` fails with `MaxUpdate = 9`.
* A file of 2 GiB or more is taken for complete after its first packet
  (`bytesleft` is an `int`): `Delivered` fails with an `IntLimit` below `MaxFile`.
* When the first packet comes in pieces its padding is read as if it were message:
  the bytes of the message are right, but the rest of the packet is copied over the end
  of the buffer (`StaysInBuffer` says how far).
* A file of no bytes cannot be mapped and is answered `STATUS_BAD`, as if it were
  not there.

## The plan

Done: every component but the overlay files and the scripts; every safety property of
the passing runs proved.

What is left to prove:
1. That the pieces fit: `DecentralizedPeer` takes the answers of neighbors from
   what `FloodSearch` establishes of them, `Server` takes its pool from `JobQueue`; state
   the first as a theorem of `FloodSearch` in the terms of `Answers`, and that the
   server of `Server` uses `JobQueue` as `JobQueue` allows.
2. That the orders of the server inside `CentralizedPeer`, too, are bounded by what
   `Catalogue` promises.
3. The facts behind the liveness properties that are safety: that a thread that waits
   has somebody to wait for.
