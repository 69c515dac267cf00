----------------------------- MODULE ThreadPool -----------------------------
(***************************************************************************)
(* The worker pool of src/src/thread_pool.cpp: a queue of jobs guarded by  *)
(* queue_lock, workers parked on the condition variable notify_work, and a *)
(* destructor that raises a flag, notifies and joins.                      *)
(*                                                                         *)
(* Threads are the workers and the owner, the thread that builds and       *)
(* destroys the pool (the main thread, through Server).  A job may call    *)
(* queue_job itself: the accept loop of a peer runs as a job of the pool   *)
(* it feeds (server.cpp:91).                                               *)
(*                                                                         *)
(* An action is one access to shared state.  The critical section of       *)
(* queue_job holds a single push, so it is one step that needs the lock    *)
(* free; the one of thread_loop is split where the destructor, which never *)
(* takes the lock, can get in between.                                     *)
(***************************************************************************)
EXTENDS Naturals, Sequences, FiniteSets

CONSTANTS
  Workers,  \* the threads of the pool
  Jobs,     \* the jobs that may be queued, each at most once
  Endless,  \* the jobs that return only once the server is being destroyed
  Owner,    \* the thread that owns the pool
  Nobody,   \* "queue_lock is free"
  NoJob     \* "the worker holds no job"

ASSUME PoolAssumption ==
  /\ IsFiniteSet(Workers)
  /\ Endless \subseteq Jobs
  /\ Owner \notin Workers
  /\ Nobody \notin Workers \cup {Owner}
  /\ NoJob \notin Jobs

VARIABLES
  work_queue,  \* the jobs waiting for a worker, oldest first
  queue_lock,  \* the worker inside its critical section, or Nobody
  interrupt,   \* the flag raised by the destructor
  pc,          \* where each worker is in thread_loop
  job,         \* the job each worker executes
  owner,       \* where the owner is
  submitted,   \* history: every job pushed, in order
  started,     \* history: every job handed to a worker, in order
  late         \* history: how many of them after the flag went up

vars ==
  <<work_queue, queue_lock, interrupt, pc, job, owner, submitted, started, late>>

\* A worker holds queue_lock in these states.
Locked == {"check", "block", "leave", "take"}
\* A worker that is on its way to look at the queue.
Alert == {"start", "woken", "check", "leave", "take"}
\* A worker that executes a job; in "notify" the job is inside queue_job,
\* between the unlock and the notification.
Executing == {"run", "notify"}

Waiting == {w \in Workers : pc[w] = "wait"}

\* Mutant: the constructor leaves the lock to the thread that builds the pool.
InitLocked ==
  /\ work_queue = <<>>
  /\ queue_lock = Owner
  /\ interrupt = FALSE
  /\ pc = [w \in Workers |-> "start"]
  /\ job = [w \in Workers |-> NoJob]
  /\ owner = "idle"
  /\ submitted = <<>>
  /\ started = <<>>
  /\ late = 0

Init ==
  /\ work_queue = <<>>
  /\ queue_lock = Nobody
  /\ interrupt = FALSE
  /\ pc = [w \in Workers |-> "start"]
  /\ job = [w \in Workers |-> NoJob]
  /\ owner = "idle"
  /\ submitted = <<>>
  /\ started = <<>>
  /\ late = 0

-----------------------------------------------------------------------------
(* queue_job: push under the lock, then notify one waiter.                 *)

Fresh(j) == \A i \in DOMAIN submitted : submitted[i] # j

push(j) ==
  /\ queue_lock = Nobody
  /\ Fresh(j)
  /\ work_queue' = Append(work_queue, j)
  /\ submitted' = Append(submitted, j)
  /\ UNCHANGED <<queue_lock, interrupt, job, started, late>>

OwnerPush(j) ==
  /\ owner = "idle"
  /\ push(j)
  /\ owner' = "notify"
  /\ UNCHANGED pc

\* Of the jobs, only the accept loop queues others.
WorkerPush(w, j) ==
  /\ pc[w] = "run"
  /\ job[w] \in Endless
  /\ push(j)
  /\ pc' = [pc EXCEPT ![w] = "notify"]
  /\ UNCHANGED owner

\* notify_one: wakes some waiter, and is lost when there is none.
notify_one(p) ==
  IF Waiting = {} THEN pc' = p
  ELSE \E v \in Waiting : pc' = [p EXCEPT ![v] = "woken"]

\* Mutant: queue_job forgets to notify.
OwnerForgets ==
  /\ owner = "notify"
  /\ owner' = "idle"
  /\ UNCHANGED <<work_queue, queue_lock, interrupt, pc, job, submitted, started, late>>

OwnerNotify ==
  /\ owner = "notify"
  /\ owner' = "idle"
  /\ notify_one(pc)
  /\ UNCHANGED <<work_queue, queue_lock, interrupt, job, submitted, started, late>>

WorkerNotify(w) ==
  /\ pc[w] = "notify"
  /\ notify_one([pc EXCEPT ![w] = "run"])
  /\ UNCHANGED <<work_queue, queue_lock, interrupt, job, owner, submitted, started, late>>

-----------------------------------------------------------------------------
(* thread_loop                                                             *)

\* Mutant: a wait without a loop, that trusts the wakeup.
AcquireTrusting(w) ==
  /\ pc[w] \in {"start", "woken"}
  /\ queue_lock = Nobody
  /\ queue_lock' = w
  /\ pc' = [pc EXCEPT ![w] = IF pc[w] = "woken" THEN "leave" ELSE "check"]
  /\ UNCHANGED <<work_queue, interrupt, job, owner, submitted, started, late>>

\* The lock is taken on entry to the loop body, and again on the way out of
\* the condition variable.
Acquire(w) ==
  /\ pc[w] \in {"start", "woken"}
  /\ queue_lock = Nobody
  /\ queue_lock' = w
  /\ pc' = [pc EXCEPT ![w] = "check"]
  /\ UNCHANGED <<work_queue, interrupt, job, owner, submitted, started, late>>

\* The predicate of the wait, evaluated with the lock held.
Check(w) ==
  /\ pc[w] = "check"
  /\ pc' = [pc EXCEPT ![w] = IF work_queue # <<>> \/ interrupt
                             THEN "leave" ELSE "block"]
  /\ UNCHANGED <<work_queue, queue_lock, interrupt, job, owner, submitted, started, late>>

\* The wait proper: releases the lock and parks, atomically.
Block(w) ==
  /\ pc[w] = "block"
  /\ pc' = [pc EXCEPT ![w] = "wait"]
  /\ queue_lock' = Nobody
  /\ UNCHANGED <<work_queue, interrupt, job, owner, submitted, started, late>>

SpuriousWakeup(w) ==
  /\ pc[w] = "wait"
  /\ pc' = [pc EXCEPT ![w] = "woken"]
  /\ UNCHANGED <<work_queue, queue_lock, interrupt, job, owner, submitted, started, late>>

\* The second read of the flag: leave the loop, or go on to the queue.
Exit(w) ==
  /\ pc[w] = "leave"
  /\ interrupt
  /\ pc' = [pc EXCEPT ![w] = "exited"]
  /\ queue_lock' = Nobody
  /\ UNCHANGED <<work_queue, interrupt, job, owner, submitted, started, late>>

\* Mutant: the flag is not read again.
GoOnBlindly(w) ==
  /\ pc[w] = "leave"
  /\ work_queue # <<>>
  /\ pc' = [pc EXCEPT ![w] = "take"]
  /\ UNCHANGED <<work_queue, queue_lock, interrupt, job, owner, submitted, started, late>>

GoOn(w) ==
  /\ pc[w] = "leave"
  /\ ~interrupt
  /\ pc' = [pc EXCEPT ![w] = "take"]
  /\ UNCHANGED <<work_queue, queue_lock, interrupt, job, owner, submitted, started, late>>

\* Mutant: front without pop.
TakeWithoutPop(w) ==
  /\ pc[w] = "take"
  /\ work_queue # <<>>
  /\ job' = [job EXCEPT ![w] = Head(work_queue)]
  /\ started' = Append(started, Head(work_queue))
  /\ pc' = [pc EXCEPT ![w] = "run"]
  /\ queue_lock' = Nobody
  /\ late' = IF interrupt THEN late + 1 ELSE late
  /\ UNCHANGED <<work_queue, interrupt, owner, submitted>>

\* front, pop and the end of the critical section.
TakeJob(w) ==
  /\ pc[w] = "take"
  /\ work_queue # <<>>
  /\ job' = [job EXCEPT ![w] = Head(work_queue)]
  /\ started' = Append(started, Head(work_queue))
  /\ work_queue' = Tail(work_queue)
  /\ pc' = [pc EXCEPT ![w] = "run"]
  /\ queue_lock' = Nobody
  /\ late' = IF interrupt THEN late + 1 ELSE late
  /\ UNCHANGED <<interrupt, owner, submitted>>

\* job() returns.  The accept loop returns only after ~Server has raised the
\* flag of the server, which it does before it deletes the pool.
Return(w) ==
  /\ pc[w] = "run"
  /\ job[w] \in Endless => owner \notin {"idle", "notify"}
  /\ job' = [job EXCEPT ![w] = NoJob]
  /\ pc' = [pc EXCEPT ![w] = "start"]
  /\ UNCHANGED <<work_queue, queue_lock, interrupt, owner, submitted, started, late>>

-----------------------------------------------------------------------------
(* ~ThreadPool, called from ~Server.                                       *)

StopServer ==
  /\ owner = "idle"
  /\ owner' = "stop"
  /\ UNCHANGED <<work_queue, queue_lock, interrupt, pc, job, submitted, started, late>>

RaiseInterrupt ==
  /\ owner = "stop"
  /\ interrupt' = TRUE
  /\ owner' = "notify_all"
  /\ UNCHANGED <<work_queue, queue_lock, pc, job, submitted, started, late>>

\* Mutant: notify_one in the destructor.
NotifyOnlyOne ==
  /\ owner = "notify_all"
  /\ notify_one(pc)
  /\ owner' = "join"
  /\ UNCHANGED <<work_queue, queue_lock, interrupt, job, submitted, started, late>>

NotifyAll ==
  /\ owner = "notify_all"
  /\ pc' = [w \in Workers |-> IF pc[w] = "wait" THEN "woken" ELSE pc[w]]
  /\ owner' = "join"
  /\ UNCHANGED <<work_queue, queue_lock, interrupt, job, submitted, started, late>>

Join ==
  /\ owner = "join"
  /\ \A w \in Workers : pc[w] = "exited"
  /\ owner' = "done"
  /\ work_queue' = <<>>
  /\ UNCHANGED <<queue_lock, interrupt, pc, job, submitted, started, late>>

-----------------------------------------------------------------------------
thread_loop(w) ==
  \/ Acquire(w) \/ Check(w) \/ Block(w) \/ Exit(w) \/ GoOn(w)
  \/ TakeJob(w) \/ Return(w) \/ WorkerNotify(w)

destructor == RaiseInterrupt \/ NotifyAll \/ Join

Next ==
  \/ \E j \in Jobs : OwnerPush(j)
  \/ \E w \in Workers, j \in Jobs : WorkerPush(w, j)
  \/ OwnerNotify
  \/ \E w \in Workers : thread_loop(w) \/ SpuriousWakeup(w)
  \/ StopServer
  \/ destructor

\* Every thread that can run is eventually scheduled, and the lock is handed
\* on to each worker that keeps asking for it.  Nothing obliges anybody to
\* queue a job or to destroy the pool, and no wakeup is owed without a
\* notification.
Fairness ==
  /\ \A w \in Workers : WF_vars(thread_loop(w)) /\ SF_vars(Acquire(w))
  /\ WF_vars(OwnerNotify)
  /\ WF_vars(destructor)

Spec == Init /\ [][Next]_vars /\ Fairness

-----------------------------------------------------------------------------
(* What the pool promises its users: JobQueue, with the threads, the lock   *)
(* and the condition variable hidden.                                       *)

Promise == INSTANCE JobQueue
  WITH queue <- work_queue, serving <- job, accepted <- submitted,
       closed <- (owner = "done")

\* thread_pool.cpp:25-66: every step of the pool is a step of JobQueue or
\* changes nothing that JobQueue knows of.
ImplementsJobQueue == Promise!Spec

-----------------------------------------------------------------------------
TypeOK ==
  /\ work_queue \in Seq(Jobs)
  /\ queue_lock \in Workers \cup {Nobody}
  /\ interrupt \in BOOLEAN
  /\ pc \in [Workers -> Alert \cup {"block", "wait", "exited"} \cup Executing]
  /\ job \in [Workers -> Jobs \cup {NoJob}]
  /\ owner \in {"idle", "notify", "stop", "notify_all", "join", "done"}
  /\ submitted \in Seq(Jobs)
  /\ started \in Seq(Jobs)
  /\ late \in Nat

\* thread_pool.cpp:25-33 and 62-66: until the destructor empties the queue,
\* what was pushed is exactly what workers took followed by what still waits:
\* no job is lost, started twice or started out of order.
FirstInFirstOut ==
  owner # "done" => submitted = started \o work_queue

\* thread_pool.cpp:62-66: a job is executed by one worker at most.
OneWorkerPerJob ==
  \A v, w \in Workers : v # w /\ job[v] # NoJob => job[v] # job[w]

\* How many workers are in one of the states A.
Count(p, A) == Cardinality({w \in Workers : p[w] \in A})

\* The notifications that queue_job still owes.
Owed == Count(pc, {"notify"}) + (IF owner = "notify" THEN 1 ELSE 0)

\* thread_pool.cpp:29-32: queue_job notifies after it has released the lock,
\* and a notification is lost when nobody waits.  Still, while a worker is
\* parked, every queued job is matched by a worker about to look at the queue
\* or by a notification about to be sent: no job is stranded behind an idle
\* worker.
NoStrandedJob ==
  ~interrupt /\ Waiting # {}
    => Len(work_queue) <= Count(pc, Alert) + Owed

\* thread_pool.cpp:59-63: a worker pops only after it has read the flag, and
\* pops from a queue that is not empty: TakeJob is never stuck.  The queue was
\* seen non-empty one read earlier, and the lock was not released in between.
PopsFromNonEmpty ==
  \A w \in Workers : pc[w] = "take" => work_queue # <<>>

\* thread_pool.cpp:39 and 59: the destructor raises the flag without the lock,
\* so a worker past its second read still starts a job; the lock admits one
\* such worker, and no other job starts after the flag.
OneLateJob == late <= 1

\* A queued job is eventually executed, unless the pool is destroyed first.
EveryJobStarts ==
  \A j \in Jobs :
    (\E i \in DOMAIN submitted : submitted[i] = j)
      ~> ((\E i \in DOMAIN started : started[i] = j) \/ owner \notin {"idle", "notify"})

\* thread_pool.cpp:37: the destructor joins all threads.
TeardownCompletes == owner = "stop" ~> owner = "done"

\* The destructor does complete whenever no worker stood between the predicate
\* and the wait when the flag went up (line 39): that window is the only one.
TeardownOutsideWindow ==
  (owner = "notify_all" /\ \A w \in Workers : pc[w] # "block") ~> owner = "done"
=============================================================================
