------------------------------ MODULE JobQueue ------------------------------
(***************************************************************************)
(* What src/src/thread_pool.cpp promises to Server, with no thread, lock   *)
(* or condition variable: jobs are taken in the order in which they were   *)
(* queued, each by one worker that has nothing else to do, and the queue   *)
(* is dropped only when every worker is idle, for good.                    *)
(*                                                                         *)
(* ThreadPool implements this specification; the models of the peers see   *)
(* their pool through it: a first-in first-out queue and a number of       *)
(* workers, each busy until its handler returns.                           *)
(***************************************************************************)
EXTENDS Naturals, Sequences

CONSTANTS Workers, Jobs, NoJob

VARIABLES
  queue,     \* the jobs not yet taken, oldest first
  serving,   \* the job of each worker, or NoJob
  accepted,  \* every job ever queued, in order
  closed     \* the pool is gone

vars == <<queue, serving, accepted, closed>>

Init ==
  /\ queue = <<>>
  /\ serving = [w \in Workers |-> NoJob]
  /\ accepted = <<>>
  /\ closed = FALSE

Enqueue(j) ==
  /\ ~closed
  /\ \A i \in DOMAIN accepted : accepted[i] # j
  /\ queue' = Append(queue, j)
  /\ accepted' = Append(accepted, j)
  /\ UNCHANGED <<serving, closed>>

Dispatch(w) ==
  /\ ~closed
  /\ queue # <<>>
  /\ serving[w] = NoJob
  /\ serving' = [serving EXCEPT ![w] = Head(queue)]
  /\ queue' = Tail(queue)
  /\ UNCHANGED <<accepted, closed>>

Complete(w) ==
  /\ ~closed
  /\ serving[w] # NoJob
  /\ serving' = [serving EXCEPT ![w] = NoJob]
  /\ UNCHANGED <<queue, accepted, closed>>

Close ==
  /\ ~closed
  /\ \A w \in Workers : serving[w] = NoJob
  /\ closed' = TRUE
  /\ queue' = <<>>
  /\ UNCHANGED <<serving, accepted>>

Next ==
  \/ \E j \in Jobs : Enqueue(j)
  \/ \E w \in Workers : Dispatch(w) \/ Complete(w)
  \/ Close

Spec == Init /\ [][Next]_vars
=============================================================================
