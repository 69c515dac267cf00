-------------------------- MODULE ThreadPoolProofs --------------------------
(***************************************************************************)
(* Theorems about ThreadPool, for any finite set of workers and any set of *)
(* jobs.  The invariants of ThreadPool are not inductive one by one: they  *)
(* rest on who holds the lock, and IInv collects what is needed.           *)
(***************************************************************************)
EXTENDS ThreadPool, FiniteSetTheorems, SequenceTheorems, TLAPS

\* The lock is held exactly in the states of Locked, and the worker that holds
\* it knows what it read under it.
LockInv ==
  /\ \A w \in Workers : pc[w] \in Locked <=> queue_lock = w
  /\ \A w \in Workers : pc[w] = "block" => work_queue = <<>>
  /\ \A w \in Workers : pc[w] = "leave" => work_queue # <<>> \/ interrupt
  /\ PopsFromNonEmpty

\* The stages of the destructor.
OwnerInv ==
  /\ interrupt <=> owner \in {"notify_all", "join", "done"}
  /\ owner = "done" => \A w \in Workers : pc[w] = "exited"

\* Where the jobs are.
JobInv ==
  /\ \A w \in Workers : job[w] # NoJob <=> pc[w] \in Executing
  /\ \A i \in DOMAIN work_queue : ~Fresh(work_queue[i])
  /\ \A w \in Workers : job[w] # NoJob => ~Fresh(job[w])
  /\ \A i, k \in DOMAIN work_queue : i # k => work_queue[i] # work_queue[k]
  /\ \A w \in Workers : \A i \in DOMAIN work_queue : work_queue[i] # job[w]
  /\ OneWorkerPerJob

LateInv ==
  /\ ~interrupt => late = 0
  /\ late <= 1
  /\ late = 1 => \A w \in Workers : pc[w] # "take"

IInv == TypeOK /\ LockInv /\ OwnerInv /\ JobInv /\ LateInv /\ FirstInFirstOut

-----------------------------------------------------------------------------
(* Counting workers.                                                       *)

\* A count of workers is a natural number.
LEMMA CountType ==
  ASSUME NEW p, NEW A
  PROVE  Count(p, A) \in Nat
<1>1. IsFiniteSet({w \in Workers : p[w] \in A})
  BY PoolAssumption, FS_Subset
<1>2. QED
  BY <1>1, FS_CardinalityType DEF Count

\* When one worker changes state, the count changes by what that worker adds.
LEMMA CountMove ==
  ASSUME NEW p, NEW q, NEW w \in Workers, NEW A,
         DOMAIN p = Workers, DOMAIN q = Workers,
         \A v \in Workers \ {w} : q[v] = p[v]
  PROVE  /\ q[w] \in A /\ p[w] \notin A => Count(q, A) = Count(p, A) + 1
         /\ q[w] \notin A /\ p[w] \in A => Count(q, A) = Count(p, A) - 1
         /\ (q[w] \in A <=> p[w] \in A) => Count(q, A) = Count(p, A)
<1> DEFINE P == {v \in Workers : p[v] \in A}
           Q == {v \in Workers : q[v] \in A}
<1>1. IsFiniteSet(P) /\ IsFiniteSet(Q)
  BY PoolAssumption, FS_Subset
<1>2. Cardinality(P) \in Nat /\ Cardinality(Q) \in Nat
  BY <1>1, FS_CardinalityType
<1>3. CASE q[w] \in A /\ p[w] \notin A
  <2>1. Q = P \cup {w} /\ w \notin P
    BY <1>3
  <2>2. QED
    BY <1>1, <1>2, <1>3, <2>1, FS_AddElement DEF Count
<1>4. CASE q[w] \notin A /\ p[w] \in A
  <2>1. P = Q \cup {w} /\ w \notin Q
    BY <1>4
  <2>2. Cardinality(P) = Cardinality(Q) + 1
    BY <1>1, <2>1, FS_AddElement
  <2>3. QED
    BY <1>2, <1>4, <2>2 DEF Count
<1>5. CASE q[w] \in A <=> p[w] \in A
  <2>1. P = Q
    BY <1>5
  <2>2. QED
    BY <1>5, <2>1 DEF Count
<1>6. QED
  BY <1>3, <1>4, <1>5

-----------------------------------------------------------------------------
(* Type correctness.                                                       *)

\* Every variable keeps its type, whatever the workers and the jobs.
THEOREM TypeCorrect == Spec => []TypeOK
<1> USE PoolAssumption DEF TypeOK, Alert, Executing
<1>1. Init => TypeOK
  <2> SUFFICES ASSUME Init PROVE TypeOK
    OBVIOUS
  <2>1. <<>> \in Seq(Jobs)
    BY EmptySeq
  <2>2. pc \in [Workers -> {"start"}] /\ job \in [Workers -> {NoJob}]
    BY DEF Init
  <2>3. QED
    BY <2>1, <2>2 DEF Init
<1>2. TypeOK /\ [Next]_vars => TypeOK'
  <2> SUFFICES ASSUME TypeOK, [Next]_vars
               PROVE  TypeOK'
    OBVIOUS
  <2>1. ASSUME NEW j \in Jobs, OwnerPush(j) PROVE TypeOK'
    BY <2>1 DEF OwnerPush, push
  <2>2. ASSUME NEW w \in Workers, NEW j \in Jobs, WorkerPush(w, j) PROVE TypeOK'
    BY <2>2 DEF WorkerPush, push
  <2>3. CASE OwnerNotify
    BY <2>3 DEF OwnerNotify, notify_one, Waiting
  <2>4. ASSUME NEW w \in Workers, WorkerNotify(w) PROVE TypeOK'
    BY <2>4 DEF WorkerNotify, notify_one, Waiting
  <2>5. ASSUME NEW w \in Workers, Acquire(w) PROVE TypeOK'
    BY <2>5 DEF Acquire
  <2>6. ASSUME NEW w \in Workers, Check(w) PROVE TypeOK'
    BY <2>6 DEF Check
  <2>7. ASSUME NEW w \in Workers, Block(w) PROVE TypeOK'
    BY <2>7 DEF Block
  <2>8. ASSUME NEW w \in Workers, SpuriousWakeup(w) PROVE TypeOK'
    BY <2>8 DEF SpuriousWakeup
  <2>9. ASSUME NEW w \in Workers, Exit(w) \/ GoOn(w) PROVE TypeOK'
    BY <2>9 DEF Exit, GoOn
  <2>10. ASSUME NEW w \in Workers, TakeJob(w) PROVE TypeOK'
    <3>1. Head(work_queue) \in Jobs /\ Tail(work_queue) \in Seq(Jobs)
      BY <2>10 DEF TakeJob
    <3>2. QED
      BY <2>10, <3>1 DEF TakeJob
  <2>11. ASSUME NEW w \in Workers, Return(w) PROVE TypeOK'
    BY <2>11 DEF Return
  <2>12. CASE StopServer \/ RaiseInterrupt \/ NotifyAll \/ Join
    BY <2>12, EmptySeq DEF StopServer, RaiseInterrupt, NotifyAll, Join
  <2>13. CASE UNCHANGED vars
    BY <2>13 DEF vars
  <2>14. QED
    BY <2>1, <2>2, <2>3, <2>4, <2>5, <2>6, <2>7, <2>8, <2>9, <2>10, <2>11, <2>12, <2>13
       DEF Next, thread_loop, destructor
<1>3. QED
  BY <1>1, <1>2, PTL DEF Spec

-----------------------------------------------------------------------------
(* Sequences.                                                              *)

\* Appending adds one element at the end and moves no other.
LEMMA AppendFacts ==
  ASSUME NEW S, NEW q \in Seq(S), NEW e \in S
  PROVE  /\ Append(q, e) # <<>>
         /\ DOMAIN q = 1..Len(q) /\ Len(q) \in Nat
         /\ DOMAIN Append(q, e) = 1..(Len(q) + 1)
         /\ \A i \in 1..Len(q) : Append(q, e)[i] = q[i]
         /\ Append(q, e)[Len(q) + 1] = e
BY AppendProperties, LenProperties

\* Removing the head shifts every other element by one.
LEMMA TailFacts ==
  ASSUME NEW S, NEW q \in Seq(S), q # <<>>
  PROVE  /\ DOMAIN q = 1..Len(q) /\ Len(q) \in Nat \ {0}
         /\ Head(q) = q[1] /\ q[1] \in S
         /\ Tail(q) \in Seq(S)
         /\ DOMAIN Tail(q) = 1..(Len(q) - 1)
         /\ Len(Tail(q)) = Len(q) - 1
         /\ \A i \in 1..(Len(q) - 1) : Tail(q)[i] = q[i + 1]
<1>1. Len(q) \in Nat \ {0}
  BY EmptySeq
<1>2. Head(q) = q[1]
  BY <1>1
<1>3. q[1] \in S
  BY <1>1, ElementOfSeq
<1>4. Tail(q) \in Seq(S) /\ Len(Tail(q)) = Len(q) - 1
  BY HeadTailProperties
<1>5. DOMAIN Tail(q) = 1..(Len(q) - 1)
  BY <1>4, LenProperties
<1>6. QED
  BY <1>1, <1>2, <1>3, <1>4, <1>5, HeadTailProperties, LenProperties

\* Handing the oldest job over keeps the order of all the jobs.
LEMMA HandOver ==
  ASSUME NEW S, NEW s \in Seq(S), NEW q \in Seq(S), q # <<>>
  PROVE  s \o q = Append(s, Head(q)) \o Tail(q)
<1> DEFINE h == Head(q)
           t == Tail(q)
<1>1. h \in S /\ t \in Seq(S) /\ <<h>> \in Seq(S)
  BY TailFacts
<1>2. q = <<h>> \o t
  <2>1. SubSeq(q, 1, Len(q)) = <<q[1]>> \o SubSeq(q, 2, Len(q))
    BY TailFacts, SubSeqRecursiveFirst
  <2>2. QED
    BY <2>1, TailFacts, SubSeqFull, TailIsSubSeq
<1>3. Append(s, h) = s \o <<h>>
  BY <1>1, AppendIsConcat
<1>4. QED
  BY <1>1, <1>2, <1>3, ConcatAssociative

\* Pushing a job appends it to the history of all the jobs.
LEMMA ConcatAppend ==
  ASSUME NEW S, NEW s \in Seq(S), NEW q \in Seq(S), NEW e \in S
  PROVE  s \o Append(q, e) = Append(s \o q, e)
<1>1. <<e>> \in Seq(S) /\ s \o q \in Seq(S)
  BY ConcatProperties
<1>2. QED
  BY <1>1, AppendIsConcat, ConcatAssociative

-----------------------------------------------------------------------------
(* The inductive invariant, one conjunct at a time.                        *)

LEMMA LockStep == TypeOK /\ LockInv /\ [Next]_vars => LockInv'
<1> SUFFICES ASSUME TypeOK, LockInv, [Next]_vars
             PROVE  LockInv'
  OBVIOUS
<1> USE PoolAssumption DEF TypeOK, LockInv, Locked, PopsFromNonEmpty, Alert, Executing
<1>1. ASSUME NEW j \in Jobs, OwnerPush(j) PROVE LockInv'
  BY <1>1, AppendFacts DEF OwnerPush, push
<1>2. ASSUME NEW w \in Workers, NEW j \in Jobs, WorkerPush(w, j) PROVE LockInv'
  BY <1>2, AppendFacts DEF WorkerPush, push
<1>3. CASE OwnerNotify
  BY <1>3 DEF OwnerNotify, notify_one, Waiting
<1>4. ASSUME NEW w \in Workers, WorkerNotify(w) PROVE LockInv'
  BY <1>4 DEF WorkerNotify, notify_one, Waiting
<1>5. ASSUME NEW w \in Workers, Acquire(w) PROVE LockInv'
  BY <1>5 DEF Acquire
<1>6. ASSUME NEW w \in Workers, Check(w) PROVE LockInv'
  BY <1>6 DEF Check
<1>7. ASSUME NEW w \in Workers, Block(w) \/ SpuriousWakeup(w) PROVE LockInv'
  BY <1>7 DEF Block, SpuriousWakeup
<1>8. ASSUME NEW w \in Workers, Exit(w) \/ GoOn(w) \/ TakeJob(w) PROVE LockInv'
  BY <1>8 DEF Exit, GoOn, TakeJob
<1>9. ASSUME NEW w \in Workers, Return(w) PROVE LockInv'
  BY <1>9 DEF Return
<1>10. CASE StopServer \/ RaiseInterrupt \/ NotifyAll \/ Join
  BY <1>10 DEF StopServer, RaiseInterrupt, NotifyAll, Join
<1>11. CASE UNCHANGED vars
  BY <1>11 DEF vars
<1>12. QED
  BY <1>1, <1>2, <1>3, <1>4, <1>5, <1>6, <1>7, <1>8, <1>9, <1>10, <1>11
     DEF Next, thread_loop, destructor

LEMMA OwnerStep == TypeOK /\ OwnerInv /\ [Next]_vars => OwnerInv'
<1> SUFFICES ASSUME TypeOK, OwnerInv, [Next]_vars
             PROVE  OwnerInv'
  OBVIOUS
<1> USE DEF TypeOK, OwnerInv
<1>1. ASSUME NEW j \in Jobs, OwnerPush(j) PROVE OwnerInv'
  BY <1>1 DEF OwnerPush, push
<1>2. ASSUME NEW w \in Workers, NEW j \in Jobs, WorkerPush(w, j) PROVE OwnerInv'
  BY <1>2 DEF WorkerPush, push
<1>3. CASE OwnerNotify
  BY <1>3 DEF OwnerNotify
<1>4. ASSUME NEW w \in Workers, thread_loop(w) \/ SpuriousWakeup(w) PROVE OwnerInv'
  BY <1>4 DEF thread_loop, Acquire, Check, Block, Exit, GoOn, TakeJob, Return,
              WorkerNotify, notify_one, Waiting, SpuriousWakeup
<1>5. CASE StopServer \/ RaiseInterrupt \/ NotifyAll \/ Join
  BY <1>5 DEF StopServer, RaiseInterrupt, NotifyAll, Join
<1>6. CASE UNCHANGED vars
  BY <1>6 DEF vars
<1>7. QED
  BY <1>1, <1>2, <1>3, <1>4, <1>5, <1>6 DEF Next, destructor

LEMMA LateStep == TypeOK /\ LockInv /\ LateInv /\ [Next]_vars => LateInv'
<1> SUFFICES ASSUME TypeOK, LockInv, LateInv, [Next]_vars
             PROVE  LateInv'
  OBVIOUS
<1> USE DEF TypeOK, LockInv, LateInv, Locked
<1>1. ASSUME NEW j \in Jobs, OwnerPush(j) PROVE LateInv'
  BY <1>1 DEF OwnerPush, push
<1>2. ASSUME NEW w \in Workers, NEW j \in Jobs, WorkerPush(w, j) PROVE LateInv'
  BY <1>2 DEF WorkerPush, push
<1>3. CASE OwnerNotify
  BY <1>3 DEF OwnerNotify, notify_one, Waiting
<1>4. ASSUME NEW w \in Workers, WorkerNotify(w) PROVE LateInv'
  BY <1>4 DEF WorkerNotify, notify_one, Waiting
<1>5. ASSUME NEW w \in Workers,
             Acquire(w) \/ Check(w) \/ Block(w) \/ SpuriousWakeup(w) \/ Return(w)
      PROVE LateInv'
  BY <1>5 DEF Acquire, Check, Block, SpuriousWakeup, Return
<1>6. ASSUME NEW w \in Workers, Exit(w) \/ GoOn(w) PROVE LateInv'
  BY <1>6 DEF Exit, GoOn
<1>7. ASSUME NEW w \in Workers, TakeJob(w) PROVE LateInv'
  <2>1. \A v \in Workers : v # w => pc[v] # "take"
    BY <1>7 DEF TakeJob
  <2>2. late = 0
    BY <1>7 DEF TakeJob
  <2>3. QED
    BY <1>7, <2>1, <2>2 DEF TakeJob
<1>8. CASE StopServer \/ RaiseInterrupt \/ NotifyAll \/ Join
  BY <1>8 DEF StopServer, RaiseInterrupt, NotifyAll, Join
<1>9. CASE UNCHANGED vars
  BY <1>9 DEF vars
<1>10. QED
  BY <1>1, <1>2, <1>3, <1>4, <1>5, <1>6, <1>7, <1>8, <1>9 DEF Next, thread_loop, destructor

LEMMA FifoStep == TypeOK /\ FirstInFirstOut /\ [Next]_vars => FirstInFirstOut'
<1> SUFFICES ASSUME TypeOK, FirstInFirstOut, [Next]_vars
             PROVE  FirstInFirstOut'
  OBVIOUS
<1> USE DEF TypeOK, FirstInFirstOut
<1>1. ASSUME NEW j \in Jobs, push(j), owner # "done" PROVE FirstInFirstOut'
  <2>1. submitted = started \o work_queue /\ owner # "done"
    BY <1>1
  <2>2. started \o Append(work_queue, j) = Append(started \o work_queue, j)
    BY ConcatAppend
  <2>3. started' = started /\ work_queue' = Append(work_queue, j)
        /\ submitted' = Append(submitted, j)
    BY <1>1 DEF push
  <2>4. QED
    BY <2>1, <2>2, <2>3
<1>2. ASSUME NEW j \in Jobs, OwnerPush(j) PROVE FirstInFirstOut'
  BY <1>1, <1>2 DEF OwnerPush
<1>3. ASSUME NEW w \in Workers, NEW j \in Jobs, WorkerPush(w, j) PROVE FirstInFirstOut'
  BY <1>1, <1>3 DEF WorkerPush
<1>4. ASSUME NEW w \in Workers, TakeJob(w) PROVE FirstInFirstOut'
  BY <1>4, HandOver DEF TakeJob
<1>5. ASSUME NEW w \in Workers, thread_loop(w) \/ SpuriousWakeup(w), ~TakeJob(w)
      PROVE FirstInFirstOut'
  BY <1>5 DEF thread_loop, Acquire, Check, Block, Exit, GoOn, Return,
              WorkerNotify, SpuriousWakeup
<1>6. CASE OwnerNotify \/ StopServer \/ RaiseInterrupt \/ NotifyAll \/ Join
  BY <1>6 DEF OwnerNotify, StopServer, RaiseInterrupt, NotifyAll, Join
<1>7. CASE UNCHANGED vars
  BY <1>7 DEF vars
<1>8. QED
  BY <1>2, <1>3, <1>4, <1>5, <1>6, <1>7 DEF Next, destructor

\* Pushing a job that was never pushed before keeps jobs apart.
LEMMA PushJobInv ==
  ASSUME TypeOK, JobInv, NEW j \in Jobs, push(j),
         \A w \in Workers : pc'[w] \in Executing <=> pc[w] \in Executing
  PROVE  JobInv'
<1> USE PoolAssumption DEF TypeOK, JobInv, push, Fresh, OneWorkerPerJob
<1>1. /\ DOMAIN work_queue = 1..Len(work_queue)
      /\ Len(work_queue) \in Nat
      /\ DOMAIN work_queue' = 1..(Len(work_queue) + 1)
      /\ \A i \in 1..Len(work_queue) : work_queue'[i] = work_queue[i]
      /\ work_queue'[Len(work_queue) + 1] = j
  BY AppendFacts
<1>2. /\ DOMAIN submitted = 1..Len(submitted)
      /\ Len(submitted) \in Nat
      /\ DOMAIN submitted' = 1..(Len(submitted) + 1)
      /\ \A i \in 1..Len(submitted) : submitted'[i] = submitted[i]
      /\ submitted'[Len(submitted) + 1] = j
  BY AppendFacts
<1>5. (\A i \in DOMAIN work_queue : ~Fresh(work_queue[i]))'
  <2> SUFFICES ASSUME NEW i \in DOMAIN work_queue'
               PROVE  \E m \in DOMAIN submitted' : submitted'[m] = work_queue'[i]
    OBVIOUS
  <2>1. CASE i \in 1..Len(work_queue)
    <3>1. PICK m \in DOMAIN submitted : submitted[m] = work_queue[i]
      BY <1>1, <2>1
    <3>2. m \in DOMAIN submitted' /\ submitted'[m] = work_queue'[i]
      BY <1>1, <1>2, <2>1, <3>1
    <3>3. QED
      BY <3>2
  <2>2. CASE i = Len(work_queue) + 1
    <3>1. Len(submitted) + 1 \in DOMAIN submitted'
      BY <1>2
    <3>2. submitted'[Len(submitted) + 1] = work_queue'[i]
      BY <1>1, <1>2, <2>2
    <3>3. QED
      BY <3>1, <3>2
  <2>3. QED
    BY <1>1, <2>1, <2>2
<1>6. (\A w \in Workers : job[w] # NoJob => ~Fresh(job[w]))'
  BY <1>2
<1>7. \A i \in DOMAIN work_queue : work_queue[i] # j
  BY DEF Fresh
<1>8. \A w \in Workers : job[w] # j
  OBVIOUS
<1>9. \A i, k \in DOMAIN work_queue' : i # k => work_queue'[i] # work_queue'[k]
  BY <1>1, <1>7
<1>10. \A w \in Workers : \A i \in DOMAIN work_queue' : work_queue'[i] # job'[w]
  BY <1>1, <1>8
<1>11. (\A w \in Workers : job[w] # NoJob <=> pc[w] \in Executing)'
  OBVIOUS
<1>12. OneWorkerPerJob'
  OBVIOUS
<1>13. QED
  BY <1>5, <1>6, <1>9, <1>10, <1>11, <1>12

\* Taking the oldest job gives it to one worker and leaves the rest in place.
LEMMA TakeJobInv ==
  ASSUME TypeOK, LockInv, JobInv, NEW w \in Workers, TakeJob(w)
  PROVE  JobInv'
<1> USE PoolAssumption DEF TypeOK, JobInv, TakeJob, Fresh, OneWorkerPerJob
<1> DEFINE n == Len(work_queue)
<1>1. /\ DOMAIN work_queue = 1..n
      /\ n \in Nat \ {0}
      /\ Head(work_queue) = work_queue[1]
      /\ work_queue[1] \in Jobs
      /\ DOMAIN work_queue' = 1..(n - 1)
      /\ \A i \in 1..(n - 1) : work_queue'[i] = work_queue[i + 1]
  BY TailFacts
<1>2. job' = [job EXCEPT ![w] = work_queue[1]]
  BY <1>1
<1>3. \A i \in DOMAIN work_queue' : i + 1 \in DOMAIN work_queue /\ i + 1 # 1
  BY <1>1
<1>4. \A v \in Workers : job'[v] # NoJob <=> pc'[v] \in Executing
  BY <1>1, <1>2 DEF Executing
<1>5. (\A i \in DOMAIN work_queue : ~Fresh(work_queue[i]))'
  BY <1>1, <1>3
<1>6. (\A v \in Workers : job[v] # NoJob => ~Fresh(job[v]))'
  BY <1>1, <1>2
<1>7. \A i, k \in DOMAIN work_queue' : i # k => work_queue'[i] # work_queue'[k]
  BY <1>1, <1>3
<1>8. \A v \in Workers : \A i \in DOMAIN work_queue' : work_queue'[i] # job'[v]
  BY <1>1, <1>2, <1>3
<1>9. OneWorkerPerJob'
  BY <1>1, <1>2
<1>10. QED
  BY <1>4, <1>5, <1>6, <1>7, <1>8, <1>9

LEMMA JobStep ==
  TypeOK /\ LockInv /\ OwnerInv /\ JobInv /\ [Next]_vars => JobInv'
<1> SUFFICES ASSUME TypeOK, LockInv, OwnerInv, JobInv, [Next]_vars
             PROVE  JobInv'
  OBVIOUS
<1>1. ASSUME NEW j \in Jobs, OwnerPush(j) PROVE JobInv'
  BY <1>1, PushJobInv DEF OwnerPush
<1>2. ASSUME NEW w \in Workers, NEW j \in Jobs, WorkerPush(w, j) PROVE JobInv'
  <2>1. push(j)
    BY <1>2 DEF WorkerPush
  <2>2. \A v \in Workers : pc'[v] \in Executing <=> pc[v] \in Executing
    BY <1>2 DEF WorkerPush, TypeOK, Executing
  <2>3. QED
    BY <2>1, <2>2, PushJobInv
<1>3. ASSUME NEW w \in Workers, TakeJob(w) PROVE JobInv'
  BY <1>3, TakeJobInv
<1>4. ASSUME NEW w \in Workers, Return(w) PROVE JobInv'
  BY <1>4, PoolAssumption
     DEF Return, TypeOK, JobInv, OneWorkerPerJob, Fresh, Executing
<1>5. CASE Join
  BY <1>5 DEF Join, TypeOK, JobInv, OneWorkerPerJob, Fresh, Executing
<1>6. ASSUME UNCHANGED <<work_queue, job, submitted>>,
             \A w \in Workers : pc'[w] \in Executing <=> pc[w] \in Executing
      PROVE JobInv'
  BY <1>6 DEF JobInv, OneWorkerPerJob, Fresh
<1>7. ASSUME NEW w \in Workers,
             Acquire(w) \/ Check(w) \/ Block(w) \/ SpuriousWakeup(w) \/ Exit(w) \/ GoOn(w)
      PROVE JobInv'
  BY <1>6, <1>7 DEF TypeOK, Executing, Acquire, Check, Block, SpuriousWakeup, Exit, GoOn
<1>8. ASSUME NEW w \in Workers, WorkerNotify(w) PROVE JobInv'
  BY <1>6, <1>8 DEF TypeOK, Executing, WorkerNotify, notify_one, Waiting
<1>9. CASE OwnerNotify
  BY <1>6, <1>9 DEF TypeOK, Executing, OwnerNotify, notify_one, Waiting
<1>10. CASE StopServer \/ RaiseInterrupt \/ NotifyAll
  BY <1>6, <1>10 DEF TypeOK, Executing, StopServer, RaiseInterrupt, NotifyAll
<1>11. CASE UNCHANGED vars
  BY <1>6, <1>11 DEF vars
<1>12. QED
  BY <1>1, <1>2, <1>3, <1>4, <1>5, <1>7, <1>8, <1>9, <1>10, <1>11
     DEF Next, thread_loop, destructor

-----------------------------------------------------------------------------
(* No stranded job.                                                        *)

\* While a worker waits, each queued job has a worker or a notification on its
\* way; the destructor notifies every waiter and is not counted on here.
LEMMA StrandedStep ==
  TypeOK /\ LockInv /\ OwnerInv /\ NoStrandedJob /\ [Next]_vars => NoStrandedJob'
<1> SUFFICES ASSUME TypeOK, LockInv, OwnerInv, NoStrandedJob, [Next]_vars
             PROVE  NoStrandedJob'
  OBVIOUS
<1> DEFINE A == Count(pc, Alert)
           O == Count(pc, {"notify"})
           B == IF owner = "notify" THEN 1 ELSE 0
<1> USE DEF TypeOK
<1>1. A \in Nat /\ O \in Nat /\ A' \in Nat /\ O' \in Nat /\ Len(work_queue) \in Nat
  BY CountType, LenProperties
<1>2. ~interrupt /\ Waiting # {} => Len(work_queue) <= A + O + B
  BY <1>1 DEF NoStrandedJob, Owed
<1>3. (~interrupt' /\ Waiting' # {} => Len(work_queue)' <= A' + O' + B') => NoStrandedJob'
  BY <1>1 DEF NoStrandedJob, Owed
\* A single worker moves: the counts follow.
<1> DEFINE Moves(w) == DOMAIN pc' = Workers /\ \A v \in Workers \ {w} : pc'[v] = pc[v]
<1>4. ASSUME NEW w \in Workers, Moves(w)
      PROVE  /\ pc'[w] \in Alert /\ pc[w] \notin Alert => A' = A + 1
             /\ pc'[w] \notin Alert /\ pc[w] \in Alert => A' = A - 1
             /\ (pc'[w] \in Alert <=> pc[w] \in Alert) => A' = A
             /\ pc'[w] = "notify" /\ pc[w] # "notify" => O' = O + 1
             /\ (pc'[w] = "notify" <=> pc[w] = "notify") => O' = O
             /\ pc'[w] # "wait" => Waiting' = Waiting \ {w}
  <2>1. DOMAIN pc = Workers
    OBVIOUS
  <2>2. /\ pc'[w] \in Alert /\ pc[w] \notin Alert => A' = A + 1
        /\ pc'[w] \notin Alert /\ pc[w] \in Alert => A' = A - 1
        /\ (pc'[w] \in Alert <=> pc[w] \in Alert) => A' = A
    BY ONLY <1>4, <2>1, CountMove, w \in Workers
  <2>3. /\ pc'[w] \in {"notify"} /\ pc[w] \notin {"notify"} => O' = O + 1
        /\ (pc'[w] \in {"notify"} <=> pc[w] \in {"notify"}) => O' = O
    BY ONLY <1>4, <2>1, CountMove, w \in Workers
  <2>4. pc'[w] # "wait" => Waiting' = Waiting \ {w}
    BY <1>4 DEF Waiting
  <2>5. QED
    BY <2>2, <2>3, <2>4
<1> HIDE DEF A, O
<1> USE DEF Alert
<1>5. ASSUME NEW j \in Jobs, OwnerPush(j) PROVE NoStrandedJob'
  <2>1. A' = A /\ O' = O /\ Waiting' = Waiting /\ interrupt' = interrupt
    BY <1>5 DEF OwnerPush, push, Waiting, A, O, Count
  <2>2. Len(work_queue') = Len(work_queue) + 1 /\ B' = B + 1
    BY <1>5, AppendProperties DEF OwnerPush, push
  <2>3. QED
    BY <1>1, <1>2, <1>3, <2>1, <2>2
<1>6. ASSUME NEW w \in Workers, NEW j \in Jobs, WorkerPush(w, j) PROVE NoStrandedJob'
  <2>1. Moves(w) /\ pc'[w] = "notify" /\ pc[w] = "run"
    BY <1>6 DEF WorkerPush
  <2>2. A' = A /\ O' = O + 1 /\ Waiting' = Waiting \ {w}
    BY ONLY <1>4, <2>1, w \in Workers DEF Alert
  <2>3. Len(work_queue') = Len(work_queue) + 1 /\ B' = B /\ interrupt' = interrupt
    BY <1>6, AppendProperties DEF WorkerPush, push
  <2>4. QED
    BY <1>1, <1>2, <1>3, <2>2, <2>3
<1>7. CASE OwnerNotify
  <2>1. Len(work_queue)' = Len(work_queue) /\ interrupt' = interrupt /\ B' = B - 1
    BY <1>7 DEF OwnerNotify
  <2>2. CASE Waiting = {}
    BY <1>3, <1>7, <2>2 DEF OwnerNotify, notify_one, Waiting
  <2>3. CASE Waiting # {}
    <3>1. PICK v \in Waiting : pc' = [pc EXCEPT ![v] = "woken"]
      BY <1>7, <2>3 DEF OwnerNotify, notify_one
    <3>2. v \in Workers /\ pc[v] = "wait"
      BY DEF Waiting
    <3>3. Moves(v) /\ pc'[v] = "woken"
      BY <3>1, <3>2
    <3>4. A' = A + 1 /\ O' = O
      BY ONLY <1>4, <3>2, <3>3 DEF Alert
    <3>5. QED
      BY <1>1, <1>2, <1>3, <2>1, <2>3, <3>4
  <2>4. QED
    BY <2>2, <2>3
<1>8. ASSUME NEW w \in Workers, WorkerNotify(w) PROVE NoStrandedJob'
  <2> DEFINE p == [pc EXCEPT ![w] = "run"]
  <2>1. Len(work_queue)' = Len(work_queue) /\ interrupt' = interrupt /\ B' = B
        /\ pc[w] = "notify"
    BY <1>8 DEF WorkerNotify
  <2>2. CASE Waiting = {}
    BY <1>3, <1>8, <2>2 DEF WorkerNotify, notify_one, Waiting
  <2>3. CASE Waiting # {}
    <3>1. PICK v \in Waiting : pc' = [p EXCEPT ![v] = "woken"]
      BY <1>8, <2>3 DEF WorkerNotify, notify_one
    <3>2. v \in Workers /\ pc[v] = "wait" /\ p[v] = "wait" /\ DOMAIN p = Workers
      BY <2>1 DEF Waiting
    <3>3. Count(p, Alert) = A /\ Count(p, {"notify"}) = O - 1
      <4>1. DOMAIN pc = Workers /\ p[w] = "run" /\ \A u \in Workers \ {w} : p[u] = pc[u]
        OBVIOUS
      <4>2. p[w] \notin Alert /\ pc[w] \notin Alert
            /\ p[w] \notin {"notify"} /\ pc[w] \in {"notify"}
        BY <2>1
      <4>3. QED
        <5> HIDE DEF p
        <5>1. Count(p, Alert) = A
          BY ONLY <3>2, <4>1, <4>2, CountMove, w \in Workers DEF A
        <5>2. Count(p, {"notify"}) = O - 1
          BY ONLY <3>2, <4>1, <4>2, CountMove, w \in Workers DEF O
        <5>3. QED
          BY <5>1, <5>2
    <3>4. A' = A + 1 /\ O' = O - 1
      <4>1. DOMAIN pc' = Workers /\ pc'[v] = "woken" /\ \A u \in Workers \ {v} : pc'[u] = p[u]
        BY <3>1, <3>2
      <4>2. p[v] \notin Alert /\ pc'[v] \in Alert
            /\ p[v] \notin {"notify"} /\ pc'[v] \notin {"notify"}
        BY <3>2, <4>1
      <4>3. QED
        <5> HIDE DEF p
        <5>1. A' = Count(p, Alert) + 1
          BY ONLY <3>2, <4>1, <4>2, CountMove DEF A
        <5>2. O' = Count(p, {"notify"})
          BY ONLY <3>2, <4>1, <4>2, CountMove DEF O
        <5>3. QED
          BY <3>3, <5>1, <5>2
    <3>5. QED
      BY <1>1, <1>2, <1>3, <2>1, <2>3, <3>4
  <2>4. QED
    BY <2>2, <2>3
<1>9. ASSUME NEW w \in Workers, Acquire(w) PROVE NoStrandedJob'
  <2>1. Moves(w) /\ pc'[w] = "check" /\ pc[w] \in {"start", "woken"}
        /\ work_queue' = work_queue /\ B' = B /\ interrupt' = interrupt
    BY <1>9 DEF Acquire
  <2>2. A' = A /\ O' = O /\ Waiting' = Waiting \ {w}
    BY ONLY <1>4, <2>1, w \in Workers DEF Alert
  <2>3. QED
    BY <1>1, <1>2, <1>3, <2>1, <2>2
<1>10. ASSUME NEW w \in Workers, Check(w) \/ Block(w), work_queue = <<>> PROVE NoStrandedJob'
  <2>1. Len(work_queue)' = 0
    BY <1>10, EmptySeq DEF Check, Block
  <2>2. B' \in Nat
    OBVIOUS
  <2>3. 0 <= A' + O' + B'
    <3>1. \A a, o, b \in Nat : 0 <= a + o + b
      OBVIOUS
    <3>2. QED
      BY ONLY <1>1, <2>2, <3>1, Zenon
  <2>4. QED
    BY <1>3, <2>1, <2>3
<1>11. ASSUME NEW w \in Workers, Check(w) \/ GoOn(w), work_queue # <<>> PROVE NoStrandedJob'
  <2>1. Moves(w) /\ pc'[w] \in {"leave", "take"}
    BY <1>11 DEF Check, GoOn
  <2>2. work_queue' = work_queue /\ B' = B /\ interrupt' = interrupt
        /\ pc[w] \in {"check", "leave"}
    BY <1>11 DEF Check, GoOn
  <2>3. A' = A /\ O' = O /\ Waiting' = Waiting \ {w}
    BY ONLY <1>4, <2>1, <2>2, w \in Workers DEF Alert
  <2>4. QED
    BY <1>1, <1>2, <1>3, <2>2, <2>3
<1>12. ASSUME NEW w \in Workers, SpuriousWakeup(w) \/ Return(w) PROVE NoStrandedJob'
  <2>1. Moves(w) /\ pc'[w] \in {"woken", "start"}
    BY <1>12 DEF SpuriousWakeup, Return
  <2>2. work_queue' = work_queue /\ B' = B /\ interrupt' = interrupt
        /\ pc[w] \in {"wait", "run"}
    BY <1>12 DEF SpuriousWakeup, Return
  <2>3. A' = A + 1 /\ O' = O /\ Waiting' = Waiting \ {w}
    BY ONLY <1>4, <2>1, <2>2, w \in Workers DEF Alert
  <2>4. QED
    BY <1>1, <1>2, <1>3, <2>2, <2>3
<1>13. ASSUME NEW w \in Workers, TakeJob(w) PROVE NoStrandedJob'
  <2>1. Moves(w) /\ pc'[w] = "run" /\ pc[w] = "take" /\ B' = B /\ interrupt' = interrupt
    BY <1>13 DEF TakeJob
  <2>2. Len(work_queue') = Len(work_queue) - 1
    BY <1>13, TailFacts DEF TakeJob
  <2>3. A' = A - 1 /\ O' = O /\ Waiting' = Waiting \ {w}
    BY ONLY <1>4, <2>1, w \in Workers DEF Alert
  <2>4. QED
    BY <1>1, <1>2, <1>3, <2>1, <2>2, <2>3
<1>14. ASSUME NEW w \in Workers, GoOn(w), work_queue = <<>> PROVE NoStrandedJob'
  BY <1>14 DEF GoOn, LockInv
<1>15. ASSUME NEW w \in Workers, Block(w) PROVE work_queue = <<>>
  BY <1>15 DEF Block, LockInv
<1>16. ASSUME interrupt' PROVE NoStrandedJob'
  BY <1>3, <1>16
<1>17. ASSUME NEW w \in Workers, Exit(w) PROVE interrupt'
  BY <1>17 DEF Exit
<1>18. CASE RaiseInterrupt \/ NotifyAll \/ Join
  <2>1. interrupt'
    BY <1>18 DEF RaiseInterrupt, NotifyAll, Join, OwnerInv
  <2>2. QED
    BY <1>16, <2>1
<1>19. CASE StopServer \/ UNCHANGED vars
  <2>1. A' = A /\ O' = O /\ Waiting' = Waiting /\ interrupt' = interrupt
        /\ work_queue' = work_queue /\ B' = B
    BY <1>19 DEF StopServer, vars, Waiting, A, O, Count
  <2>2. QED
    BY <1>1, <1>2, <1>3, <2>1
<1>20. QED
  BY <1>5, <1>6, <1>7, <1>8, <1>9, <1>10, <1>11, <1>12, <1>13, <1>14, <1>15, <1>16, <1>17,
     <1>18, <1>19 DEF Next, thread_loop, destructor

-----------------------------------------------------------------------------
(* The results.                                                            *)

\* IInv and NoStrandedJob hold in every reachable state.
THEOREM Invariance == Spec => [](IInv /\ NoStrandedJob)
<1>1. Init => LockInv /\ OwnerInv /\ LateInv /\ FirstInFirstOut
  <2> SUFFICES ASSUME Init PROVE LockInv /\ OwnerInv /\ LateInv /\ FirstInFirstOut
    OBVIOUS
  <2>1. LockInv
    BY PoolAssumption DEF Init, LockInv, Locked, PopsFromNonEmpty
  <2>2. OwnerInv /\ LateInv
    BY DEF Init, OwnerInv, LateInv
  <2>3. FirstInFirstOut
    BY EmptySeq, ConcatEmptySeq DEF Init, FirstInFirstOut
  <2>4. QED
    BY <2>1, <2>2, <2>3
<1>2. Init => JobInv
  BY EmptySeq DEF Init, JobInv, Executing, OneWorkerPerJob
<1>3. Init => NoStrandedJob
  BY DEF Init, NoStrandedJob, Waiting
<1>4. Spec => []TypeOK
  BY TypeCorrect
<1>5. Spec => [](LockInv /\ OwnerInv /\ JobInv /\ LateInv /\ FirstInFirstOut /\ NoStrandedJob)
  BY <1>1, <1>2, <1>3, <1>4, LockStep, OwnerStep, JobStep, LateStep, FifoStep, StrandedStep, PTL
     DEF Spec
<1>6. QED
  BY <1>4, <1>5, PTL DEF IInv

\* No job is lost, taken twice or taken out of order, and none is executed by
\* two workers.
THEOREM EachJobOnceInOrder == Spec => [](FirstInFirstOut /\ OneWorkerPerJob)
<1>1. IInv => FirstInFirstOut /\ OneWorkerPerJob
  BY DEF IInv, JobInv
<1>2. QED
  BY <1>1, Invariance, PTL

\* A worker that reached the pop finds a job there, and the unlocked flag lets
\* at most one job slip through.
THEOREM CriticalSection == Spec => [](PopsFromNonEmpty /\ OneLateJob)
<1>1. IInv => PopsFromNonEmpty /\ OneLateJob
  BY DEF IInv, LockInv, LateInv, OneLateJob
<1>2. QED
  BY <1>1, Invariance, PTL

\* The second read of the flag lets one job start after the destructor raised
\* it, and no second one.
THEOREM OneSlipsThrough == Spec => []OneLateJob
BY CriticalSection, PTL

\* No queued job is left to a worker that sleeps with no wakeup on its way.
THEOREM NoJobStranded == Spec => []NoStrandedJob
BY Invariance, PTL

\* The pool implements the job queue it promises.
THEOREM Refinement == Spec => ImplementsJobQueue
<1>1. Init => Promise!Init
  BY DEF Init, Promise!Init
<1>2. IInv /\ [Next]_vars => [Promise!Next]_(Promise!vars)
  <2> SUFFICES ASSUME IInv, [Next]_vars
               PROVE  Promise!Next \/ UNCHANGED Promise!vars
    OBVIOUS
  <2> USE DEF IInv, TypeOK, Promise!vars
  <2>1. ASSUME NEW j \in Jobs, push(j), owner # "done", owner' # "done" PROVE Promise!Enqueue(j)
    BY <2>1 DEF push, Fresh, Promise!Enqueue
  <2>2. ASSUME NEW j \in Jobs, OwnerPush(j) PROVE Promise!Next
    BY <2>1, <2>2 DEF OwnerPush, Promise!Next
  <2>3. ASSUME NEW w \in Workers, NEW j \in Jobs, WorkerPush(w, j) PROVE Promise!Next
    BY <2>1, <2>3 DEF WorkerPush, OwnerInv, Promise!Next
  <2>4. ASSUME NEW w \in Workers, TakeJob(w) PROVE Promise!Next
    <3>1. Promise!Dispatch(w)
      BY <2>4 DEF TakeJob, JobInv, OwnerInv, Executing, Promise!Dispatch
    <3>2. QED
      BY <3>1 DEF Promise!Next
  <2>5. ASSUME NEW w \in Workers, Return(w) PROVE Promise!Next
    <3>1. Promise!Complete(w)
      BY <2>5 DEF Return, JobInv, OwnerInv, Executing, Promise!Complete
    <3>2. QED
      BY <3>1 DEF Promise!Next
  <2>6. CASE Join
    <3>1. Promise!Close
      BY <2>6 DEF Join, JobInv, Executing, Promise!Close
    <3>2. QED
      BY <3>1 DEF Promise!Next
  <2>7. ASSUME NEW w \in Workers,
               thread_loop(w) \/ SpuriousWakeup(w), ~TakeJob(w), ~Return(w)
        PROVE  UNCHANGED Promise!vars
    BY <2>7 DEF thread_loop, Acquire, Check, Block, Exit, GoOn, WorkerNotify, SpuriousWakeup
  <2>8. CASE OwnerNotify \/ StopServer \/ RaiseInterrupt \/ NotifyAll \/ UNCHANGED vars
    BY <2>8 DEF OwnerNotify, StopServer, RaiseInterrupt, NotifyAll, vars
  <2>9. QED
    BY <2>2, <2>3, <2>4, <2>5, <2>6, <2>7, <2>8 DEF Next, destructor
<1>3. QED
  BY <1>1, <1>2, Invariance, PTL DEF Spec, ImplementsJobQueue, Promise!Spec
=============================================================================
