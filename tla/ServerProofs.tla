---------------------------- MODULE ServerProofs ----------------------------
(***************************************************************************)
(* Theorems about Server, for any set of workers, any connections and any  *)
(* length of the backlog.                                                  *)
(***************************************************************************)
EXTENDS Server, SequenceTheorems, TLAPS

Jobs == Connections \cup {ServerLoop}

\* Nothing has happened to a server that has not been started.
BuiltInv ==
  owner = "built" => socket = "none" /\ accepted = <<>> /\ connected = <<>> /\ backlog = <<>> /\ loop = "off"

\* A socket that listens is that of a server that has started and not been stopped;
\* the flag goes up after it is closed.
SocketInv ==
  /\ socket = "listening" => owner \in {"looping", "started"}
  /\ interrupt => socket = "closed"
  /\ owner \in {"closing", "joining", "deleting", "gone"} => socket = "closed"

\* The loop holds a connection between accept and queue_job, and is the first job of
\* the pool that runs it.
LoopInv ==
  /\ loop = "queue" => client \in Connections
  /\ socket = "listening" /\ ~blocking => accepted # <<>>

IInv == TypeOK /\ BuiltInv /\ SocketInv /\ LoopInv /\ AcceptNeverBlocks /\ InOrderOfArrival

-----------------------------------------------------------------------------
(* Type correctness.                                                       *)

LEMMA InitType == Init => TypeOK
<1> SUFFICES ASSUME Init PROVE TypeOK
  OBVIOUS
<1>1. <<>> \in Seq(Connections \cup {ServerLoop}) /\ <<>> \in Seq(Connections) /\ Len(<<>>) = 0
  BY EmptySeq
<1>2. Backlog \in Nat
  BY ServerAssumption
<1>3. serving \in [Workers -> Connections \cup {ServerLoop, NoJob}]
  BY DEF Init, Pool!Init
<1>4. queue = <<>> /\ accepted = <<>> /\ backlog = <<>> /\ connected = <<>> /\ closed = FALSE
  BY DEF Init, Pool!Init
<1>5. /\ threads \subseteq Workers /\ asleep = {} /\ blocking \in BOOLEAN /\ owner = "built" /\ socket = "none"
      /\ interrupt = FALSE /\ loop = "off" /\ client = NoJob /\ handled = {}
  BY DEF Init
<1>6. /\ queue \in Seq(Connections \cup {ServerLoop}) /\ accepted \in Seq(Connections \cup {ServerLoop})
      /\ backlog \in Seq(Connections) /\ connected \in Seq(Connections) /\ Len(backlog) = 0
  BY <1>1, <1>4, Zenon
<1>7. Len(backlog) <= Backlog
  BY <1>2, <1>6
<1>8. closed \in BOOLEAN /\ interrupt \in BOOLEAN
  BY <1>4, <1>5, Zenon
<1> QED BY <1>3, <1>5, <1>6, <1>7, <1>8 DEF TypeOK

LEMMA EnqueueType ==
  ASSUME TypeOK, NEW j \in Jobs, Pool!Enqueue(j)
  PROVE  queue' \in Seq(Jobs) /\ accepted' \in Seq(Jobs) /\ UNCHANGED <<serving, closed>>
<1>1. queue \in Seq(Jobs) /\ accepted \in Seq(Jobs)
  BY DEF TypeOK, Jobs
<1>2. Append(queue, j) \in Seq(Jobs) /\ Append(accepted, j) \in Seq(Jobs)
  BY <1>1, AppendProperties
<1> QED BY <1>2 DEF Pool!Enqueue

\* The client in the loop is one, as the loop is at queue_job.
LEMMA TypeStep ==
  ASSUME TypeOK, LoopInv, [Next]_vars
  PROVE  TypeOK'
<1>1. CASE start
  <2>1. /\ threads' = threads /\ asleep' = asleep /\ blocking' = blocking /\ interrupt' = interrupt /\ backlog' = backlog
        /\ client' = client /\ connected' = connected /\ handled' = handled
        /\ owner' \in {"looping", "started"} /\ socket' = "listening" /\ loop' = "test"
    BY <1>1 DEF start
  <2>2. /\ queue' \in Seq(Jobs) /\ accepted' \in Seq(Jobs) /\ UNCHANGED <<serving, closed>>
    BY <1>1, EnqueueType DEF start, pool, TypeOK, Jobs
  <2> QED BY <2>1, <2>2 DEF TypeOK, Jobs
<1>2. CASE StartFails
  BY <1>2 DEF StartFails, pool, TypeOK
<1>3. ASSUME NEW c \in Connections, Connect(c) PROVE TypeOK'
  <2>1. backlog \in Seq(Connections) /\ connected \in Seq(Connections)
    BY DEF TypeOK
  <2>2. /\ backlog' \in Seq(Connections) /\ Len(backlog') = Len(backlog) + 1 /\ Len(backlog) \in Nat
        /\ connected' \in Seq(Connections)
    BY <1>3, <2>1, AppendProperties, LenProperties DEF Connect
  <2>3. Len(backlog') <= Backlog
    BY <1>3, <2>2, ServerAssumption DEF Connect
  <2> QED BY <1>3, <2>2, <2>3 DEF Connect, pool, TypeOK
<1>4. CASE Test \/ Poll
  BY <1>4 DEF Test, Poll, pool, TypeOK
<1>5. CASE Accept
  <2>1. client' \in Connections \cup {NoJob} /\ backlog' \in Seq(Connections) /\ Len(backlog') <= Backlog
    <3>1. CASE backlog # <<>> /\ client' = Head(backlog) /\ backlog' = Tail(backlog)
      <4>1. /\ backlog \in Seq(Connections) /\ Len(backlog) \in Nat /\ Len(backlog) <= Backlog
            /\ Backlog \in Nat
        BY LenProperties, ServerAssumption DEF TypeOK
      <4>2. /\ Head(backlog) \in Connections /\ Tail(backlog) \in Seq(Connections)
            /\ Len(Tail(backlog)) = Len(backlog) - 1
        BY <3>1, <4>1, HeadTailProperties
      <4> QED BY <3>1, <4>1, <4>2
    <3>2. CASE UNCHANGED <<client, backlog>>
      BY <3>2 DEF TypeOK
    <3> QED BY <1>5, <3>1, <3>2 DEF Accept
  <2> QED BY <1>5, <2>1 DEF Accept, pool, TypeOK
<1>6. CASE QueueJob
  <2>1. client \in Jobs
    BY <1>6 DEF QueueJob, LoopInv, Jobs
  <2>2. queue' \in Seq(Jobs) /\ accepted' \in Seq(Jobs) /\ UNCHANGED <<serving, closed>>
    BY <1>6, <2>1, EnqueueType DEF QueueJob
  <2> QED BY <1>6, <2>2 DEF QueueJob, TypeOK, Jobs
<1>7. ASSUME NEW w \in Workers, Dispatch(w) PROVE TypeOK'
  <2>1. Head(queue) \in Jobs /\ Tail(queue) \in Seq(Jobs)
    BY <1>7, HeadTailProperties DEF Dispatch, Pool!Dispatch, TypeOK, Jobs
  <2> QED BY <1>7, <2>1 DEF Dispatch, Pool!Dispatch, TypeOK, Jobs
<1>8. ASSUME NEW w \in Workers, connection_handler(w) \/ LoopReturns(w) PROVE TypeOK'
  BY <1>8 DEF connection_handler, LoopReturns, Pool!Complete, TypeOK
<1>9. CASE CloseSocket
  <2>1. backlog' \in Seq(Connections) /\ Len(backlog') <= Backlog
    BY <1>9, EmptySeq, ServerAssumption DEF CloseSocket
  <2> QED BY <1>9, <2>1 DEF CloseSocket, pool, TypeOK
<1>10. CASE RaiseInterrupt
  BY <1>10 DEF RaiseInterrupt, pool, TypeOK
<1>11. CASE DeletePool \/ SpuriousWakeup
  BY <1>11 DEF DeletePool, SpuriousWakeup, pool, TypeOK
<1>12. CASE JoinPool
  <2>1. queue' \in Seq(Jobs)
    BY <1>12, EmptySeq DEF JoinPool, Pool!Close
  <2> QED BY <1>12, <2>1 DEF JoinPool, Pool!Close, TypeOK, Jobs
<1>13. CASE UNCHANGED vars
  BY <1>13 DEF vars, pool, TypeOK
<1> QED BY <1>1, <1>2, <1>3, <1>4, <1>5, <1>6, <1>7, <1>8, <1>9, <1>10, <1>11, <1>12, <1>13
    DEF Next, server_loop, Work

-----------------------------------------------------------------------------
(* The life of a server.                                                   *)

LEMMA LifeStep ==
  ASSUME TypeOK, BuiltInv, SocketInv, [Next]_vars
  PROVE  BuiltInv' /\ SocketInv'
<1>1. CASE start
  BY <1>1 DEF start, BuiltInv, SocketInv
<1>2. CASE StartFails \/ (\E c \in Connections : Connect(c))
  BY <1>2 DEF StartFails, Connect, pool, BuiltInv, SocketInv
<1>3. CASE server_loop
  BY <1>3 DEF server_loop, Test, Poll, Accept, QueueJob, pool, BuiltInv, SocketInv, TypeOK, Looping
<1>4. ASSUME NEW w \in Workers, Work(w) PROVE BuiltInv' /\ SocketInv'
  BY <1>4 DEF Work, Dispatch, connection_handler, LoopReturns, Pool!Dispatch, Pool!Complete,
              BuiltInv, SocketInv
<1>5. CASE CloseSocket \/ RaiseInterrupt \/ DeletePool \/ JoinPool
  BY <1>5 DEF CloseSocket, RaiseInterrupt, DeletePool, JoinPool, BuiltInv, SocketInv
<1>6. CASE SpuriousWakeup \/ UNCHANGED vars
  BY <1>6 DEF SpuriousWakeup, vars, pool, BuiltInv, SocketInv
<1> QED BY <1>1, <1>2, <1>3, <1>4, <1>5, <1>6 DEF Next

\* The socket is closed before the flag goes up, and nobody but the loop empties the
\* backlog of one that is open.
LEMMA AcceptStep ==
  ASSUME TypeOK, SocketInv, AcceptNeverBlocks, [Next]_vars
  PROVE  AcceptNeverBlocks'
<1>1. CASE start \/ StartFails
  BY <1>1 DEF start, StartFails, AcceptNeverBlocks
<1>2. ASSUME NEW c \in Connections, Connect(c) PROVE AcceptNeverBlocks'
  <2>1. backlog' # <<>>
    BY <1>2, AppendProperties DEF Connect, TypeOK
  <2> QED BY <2>1 DEF AcceptNeverBlocks
<1>3. CASE server_loop
  BY <1>3 DEF server_loop, Test, Poll, ready, Accept, QueueJob, AcceptNeverBlocks, SocketInv
<1>4. ASSUME NEW w \in Workers, Work(w) PROVE AcceptNeverBlocks'
  BY <1>4 DEF Work, Dispatch, connection_handler, LoopReturns, AcceptNeverBlocks
<1>5. CASE CloseSocket \/ RaiseInterrupt \/ DeletePool \/ JoinPool
  BY <1>5 DEF CloseSocket, RaiseInterrupt, DeletePool, JoinPool, AcceptNeverBlocks
<1>6. CASE SpuriousWakeup \/ UNCHANGED vars
  BY <1>6 DEF SpuriousWakeup, vars, AcceptNeverBlocks
<1> QED BY <1>1, <1>2, <1>3, <1>4, <1>5, <1>6 DEF Next

-----------------------------------------------------------------------------
(* The order of arrival.                                                   *)

\* The connection in the loop, if there is one.
Held == IF loop = "queue" THEN <<client>> ELSE <<>>

LEMMA OneElement ==
  ASSUME NEW S, NEW e \in S
  PROVE  <<e>> \in Seq(S)
OBVIOUS

\* The order is about jobs, whatever they are.
LEMMA OrderTypes ==
  ASSUME TypeOK, LoopInv
  PROVE  /\ accepted \in Seq(Jobs) /\ backlog \in Seq(Jobs) /\ connected \in Seq(Jobs)
         /\ Held \in Seq(Jobs)
         /\ socket = "listening" => Handed \in Seq(Jobs)
<1>1. accepted \in Seq(Jobs) /\ backlog \in Seq(Jobs) /\ connected \in Seq(Jobs)
  BY SeqMonotonic DEF TypeOK, Jobs
<1>2. Held \in Seq(Jobs)
  BY OneElement, EmptySeq DEF Held, LoopInv, Jobs
<1>3. socket = "listening" => Handed \in Seq(Jobs)
  BY <1>1, HeadTailProperties DEF LoopInv, Handed
<1> QED BY <1>1, <1>2, <1>3

\* A step that moves none of them keeps the order.
LEMMA OrderKept ==
  ASSUME InOrderOfArrival, UNCHANGED <<socket, connected, accepted, blocking, backlog>>,
         loop = "queue" => UNCHANGED <<loop, client>>, loop # "queue" => loop' # "queue"
  PROVE  InOrderOfArrival'
BY DEF InOrderOfArrival, Handed

LEMMA OrderStep ==
  ASSUME IInv, [Next]_vars
  PROVE  InOrderOfArrival' /\ LoopInv'
<1> USE DEF IInv
<1>1. CASE start
  <2>1. accepted = <<>> /\ connected = <<>> /\ backlog = <<>>
    BY <1>1 DEF start, BuiltInv
  <2>2. /\ connected' = <<>> /\ backlog' = <<>> /\ loop' = "test" /\ blocking' = blocking
        /\ IF blocking THEN accepted' = <<>> ELSE accepted' = Append(<<>>, ServerLoop)
    BY <1>1, <2>1 DEF start, Pool!Enqueue, pool
  <2>3. <<>> \in Seq(Jobs) /\ ServerLoop \in Jobs
    BY EmptySeq DEF Jobs
  <2>4. /\ Tail(Append(<<>>, ServerLoop)) = <<>> /\ Append(<<>>, ServerLoop) # <<>>
        /\ <<>> \o <<>> = <<>>
    BY <2>3, HeadTailAppend, AppendProperties, ConcatEmptySeq
  <2> QED BY <2>2, <2>4 DEF InOrderOfArrival, Handed, LoopInv
<1>2. CASE StartFails
  BY <1>2, OrderKept DEF StartFails, pool, LoopInv
<1>3. ASSUME NEW c \in Connections, Connect(c) PROVE InOrderOfArrival' /\ LoopInv'
  <2>1. LoopInv' /\ UNCHANGED <<accepted, blocking, loop, client, socket>>
    BY <1>3 DEF Connect, pool, LoopInv
  <2>2. Handed \in Seq(Jobs) /\ Held \in Seq(Jobs) /\ backlog \in Seq(Jobs) /\ connected \in Seq(Jobs)
    BY <1>3, OrderTypes DEF Connect
  <2>3. c \in Jobs /\ <<c>> \in Seq(Jobs)
    BY OneElement DEF Jobs
  <2>4. connected = (Handed \o Held) \o backlog
    BY <1>3 DEF Connect, InOrderOfArrival, Held
  <2>5. Handed \o Held \in Seq(Jobs)
    BY <2>2, ConcatProperties
  <2>6. ((Handed \o Held) \o backlog) \o <<c>> = (Handed \o Held) \o (backlog \o <<c>>)
    <3>1. PICK s \in Seq(Jobs) : s = Handed \o Held
      BY <2>5
    <3>2. (s \o backlog) \o <<c>> = s \o (backlog \o <<c>>)
      BY <2>2, <2>3, ConcatAssociative, SMTT(30)
    <3> QED BY <3>1, <3>2
  <2>7. Append(connected, c) = connected \o <<c>> /\ Append(backlog, c) = backlog \o <<c>>
    BY <2>2, <2>3, AppendIsConcat
  <2>8. connected' = (Handed \o Held) \o backlog'
    BY <1>3, <2>4, <2>6, <2>7 DEF Connect
  <2> QED BY <2>1, <2>8 DEF InOrderOfArrival, Handed, Held
<1>4. CASE Test \/ Poll
  BY <1>4, OrderKept DEF Test, Poll, pool, LoopInv
<1>5. CASE Accept
  <2>1. CASE socket = "closed"
    <3>1. socket' = "closed" /\ (loop' = "queue" => client' = Head(backlog) /\ backlog # <<>>)
      BY <1>5, <2>1 DEF Accept
    <3>2. backlog # <<>> => Head(backlog) \in Connections
      BY HeadTailProperties DEF TypeOK
    <3> QED BY <3>1, <3>2 DEF InOrderOfArrival, LoopInv
  <2>2. CASE socket # "closed"
    <3>1. /\ backlog # <<>> /\ client' = Head(backlog) /\ backlog' = Tail(backlog) /\ loop' = "queue"
          /\ loop = "accept" /\ UNCHANGED <<accepted, blocking, connected, socket>>
      BY <1>5, <2>2 DEF Accept, pool
    <3>2. Head(backlog) \in Connections
      BY <3>1, HeadTailProperties DEF TypeOK
    <3>3. LoopInv'
      BY <3>1, <3>2 DEF LoopInv
    <3>4. ASSUME socket = "listening" PROVE connected = (Handed \o <<Head(backlog)>>) \o Tail(backlog)
      <4>1. Handed \in Seq(Jobs) /\ backlog \in Seq(Jobs)
        BY <3>4, OrderTypes
      <4>2. Head(backlog) \in Jobs /\ Tail(backlog) \in Seq(Jobs) /\ <<Head(backlog)>> \in Seq(Jobs)
        BY <3>1, <4>1, HeadTailProperties, OneElement
      <4>3. backlog = <<Head(backlog)>> \o Tail(backlog)
        BY <3>1, <4>1
      <4>4. connected = (Handed \o <<>>) \o backlog
        BY <3>1, <3>4 DEF InOrderOfArrival
      <4>5. Handed \o <<>> = Handed
        BY <4>1, ConcatEmptySeq
      <4>6. (Handed \o <<Head(backlog)>>) \o Tail(backlog) = Handed \o (<<Head(backlog)>> \o Tail(backlog))
        BY <4>1, <4>2, ConcatAssociative
      <4> QED BY <4>3, <4>4, <4>5, <4>6
    <3> QED BY <3>1, <3>3, <3>4 DEF InOrderOfArrival, Handed
  <2> QED BY <2>1, <2>2
<1>6. CASE QueueJob
  <2>1. /\ loop = "queue" /\ accepted' = Append(accepted, client) /\ loop' = "test"
        /\ UNCHANGED <<blocking, socket, connected, backlog>>
    BY <1>6 DEF QueueJob, Pool!Enqueue
  <2>2. client \in Jobs /\ accepted \in Seq(Jobs) /\ <<client>> \in Seq(Jobs)
    BY <2>1, OrderTypes, OneElement DEF LoopInv, Jobs
  <2>3. LoopInv'
    BY <2>1, <2>2, AppendProperties DEF LoopInv
  <2>4. ASSUME socket = "listening" PROVE connected = (Handed' \o <<>>) \o backlog
    <3>1. Handed \in Seq(Jobs)
      BY <2>4, OrderTypes
    <3>2. Handed' = Append(Handed, client)
      BY <2>1, <2>2, <2>4, HeadTailAppend DEF Handed, LoopInv
    <3>3. Append(Handed, client) = Handed \o <<client>> /\ Append(Handed, client) \in Seq(Jobs)
      BY <2>2, <3>1, AppendIsConcat, AppendProperties
    <3>4. Append(Handed, client) \o <<>> = Append(Handed, client)
      BY <3>3, ConcatEmptySeq
    <3>5. connected = (Handed \o <<client>>) \o backlog
      BY <2>1, <2>4 DEF InOrderOfArrival
    <3> QED BY <3>2, <3>3, <3>4, <3>5
  <2> QED BY <2>1, <2>3, <2>4 DEF InOrderOfArrival
<1>7. ASSUME NEW w \in Workers, Work(w) PROVE InOrderOfArrival' /\ LoopInv'
  <2>1. UNCHANGED <<socket, connected, accepted, blocking, backlog, loop, client>>
    BY <1>7 DEF Work, Dispatch, connection_handler, LoopReturns, Pool!Dispatch, Pool!Complete
  <2> QED BY <2>1, OrderKept DEF LoopInv
<1>8. CASE CloseSocket
  BY <1>8 DEF CloseSocket, InOrderOfArrival, LoopInv
<1>9. CASE RaiseInterrupt \/ DeletePool \/ SpuriousWakeup \/ JoinPool
  <2>1. UNCHANGED <<socket, connected, accepted, blocking, backlog, loop, client>>
    BY <1>9 DEF RaiseInterrupt, DeletePool, SpuriousWakeup, JoinPool, Pool!Close, pool
  <2> QED BY <2>1, OrderKept DEF LoopInv
<1>10. CASE UNCHANGED vars
  BY <1>10, OrderKept DEF vars, pool, LoopInv
<1> QED BY <1>1, <1>2, <1>3, <1>4, <1>5, <1>6, <1>7, <1>8, <1>9, <1>10 DEF Next, server_loop

-----------------------------------------------------------------------------
(* The theorems.                                                           *)

LEMMA InitInv == Init => IInv
BY InitType DEF Init, Pool!Init, IInv, BuiltInv, SocketInv, LoopInv, AcceptNeverBlocks, InOrderOfArrival

\* The inductive invariant holds in every state.
THEOREM Invariance == Spec => []IInv
<1>1. IInv /\ [Next]_vars => IInv'
  BY TypeStep, LifeStep, AcceptStep, OrderStep DEF IInv
<1> QED BY <1>1, InitInv, PTL DEF Spec

\* Type correctness; in particular the backlog stays within its limit, and the loop
\* runs on a socket that listens, or did.
THEOREM TypeCorrect == Spec => []TypeOK
<1>1. IInv => TypeOK
  BY DEF IInv
<1> QED BY <1>1, Invariance, PTL

\* comms.c:128: an accept after a poll that timed out does not wait for a client.
THEOREM AcceptIsPrompt == Spec => []AcceptNeverBlocks
<1>1. IInv => AcceptNeverBlocks
  BY DEF IInv
<1> QED BY <1>1, Invariance, PTL

\* server.cpp:60-69: the pool is handed the connections in the order of arrival, each
\* once and none left out.
THEOREM ArrivalOrder == Spec => []InOrderOfArrival
<1>1. IInv => InOrderOfArrival
  BY DEF IInv
<1> QED BY <1>1, Invariance, PTL
=============================================================================
