---------------------------- MODULE ServerProofs -----------------------------
(***************************************************************************)
(* TcpServer hands each accepted connection to one worker, for any number  *)
(* of threads, any connections and any size of the queues.  What is proved *)
(* of it and of one worker holds of the whole server: every behaviour of   *)
(* the server is one of TcpServer and one of UringScheduler for each       *)
(* worker, and together they start the coroutine of a connection once.     *)
(***************************************************************************)
EXTENDS Server, ElementsProofs, FiniteSetTheorems, TLAPS

------------------------------------------------------------------------------
(* TcpServer: each connection is handed to one worker, for any number of workers *)

Ascending(s) == \A i, j \in 1 .. Len(s) : i < j => s[i] < s[j]

\* The connections are taken from the backlog in their order: what the workers
\* have is older than what the main thread has in hand, and this is older than
\* what is left.  No two workers have the same.
OrderInv ==
  /\ tcpConn # None => tcpConn \in accepted
  /\ \A c \in accepted : \A d \in backlog : c < d
  /\ \A w \in Workers : \A c \in Elems(Given(w)) :
       c \in accepted /\ (tcpConn # None => c < tcpConn)
  /\ \A c \in accepted : c = tcpConn \/ \E w \in Workers : c \in Elems(Given(w))
  /\ \A v, w \in Workers : \A c \in Elems(Given(v)) : c \in Elems(Given(w)) => v = w
  /\ \A w \in Workers : Ascending(Given(w))

IInv == TypeOK /\ OrderInv

LEMMA InitIInv == Init => IInv
<1> SUFFICES ASSUME Init PROVE IInv
  OBVIOUS
<1> USE TcpServerAssumption DEF Init
<1>1. TypeOK
  BY DEF TypeOK, Workers, None
<1>2. \A w \in Workers : Given(w) = <<>>
  BY DEF Given
<1>3. \A w \in Workers : Elems(Given(w)) = {} /\ Ascending(Given(w))
  BY <1>2 DEF Elems, Ascending
<1>4. OrderInv
  BY <1>3 DEF OrderInv
<1> QED BY <1>1, <1>4 DEF IInv

\* What a worker was given is a sequence of connections.
LEMMA GivenType ==
  ASSUME TypeOK, NEW w \in Workers
  PROVE  /\ Given(w) \in Seq(Conns) /\ Elems(Given(w)) \subseteq Conns
         /\ queues[w] \in Seq(Conns) /\ started[w] \in Seq(Conns)
<1>1. queues[w] \in Seq(Conns) /\ started[w] \in Seq(Conns)
  BY DEF TypeOK
<1>2. Given(w) \in Seq(Conns)
  BY <1>1, ConcatProperties DEF Given
<1> QED BY <1>1, <1>2, ElemsType

\* Steps that leave what the workers have alone.
LEMMA SameGiven ==
  ASSUME UNCHANGED <<queues, started>>
  PROVE  \A w \in Workers : Given(w)' = Given(w)
BY DEF Given

LEMMA AcceptIInv ==
  ASSUME IInv, NEW c \in Conns, Accept(c)
  PROVE  IInv'
<1> USE TcpServerAssumption
<1>1. /\ tcpConn = None /\ c \in backlog /\ \A d \in backlog : c <= d
      /\ backlog' = backlog \ {c} /\ tcpConn' = c /\ accepted' = accepted \cup {c}
      /\ UNCHANGED <<index, queues, started>>
  BY DEF Accept, Oldest
<1>2. TypeOK'
  BY <1>1 DEF IInv, TypeOK
<1>3. \A w \in Workers : Given(w)' = Given(w)
  BY <1>1, SameGiven
<1>4. \A w \in Workers : Elems(Given(w))' = Elems(Given(w)) /\ Ascending(Given(w))'
  BY <1>3 DEF IInv, OrderInv, Ascending, Elems
<1>5. backlog \subseteq Nat /\ accepted \subseteq Nat /\ c # None
  BY DEF IInv, TypeOK, None
<1>6. \A a \in accepted' : \A d \in backlog' : a < d
  <2>1. \A a \in accepted : \A d \in backlog : a < d
    BY DEF IInv, OrderInv
  <2> QED BY <1>1, <1>5, <2>1
<1>7. \A w \in Workers : \A a \in Elems(Given(w))' : a \in accepted' /\ a < tcpConn'
  <2>1. \A w \in Workers : \A a \in Elems(Given(w)) : a \in accepted
    BY DEF IInv, OrderInv
  <2>2. \A a \in accepted : a < c
    BY <1>1 DEF IInv, OrderInv
  <2> QED BY <1>1, <1>4, <2>1, <2>2
<1>8. \A a \in accepted' : a = tcpConn' \/ \E w \in Workers : a \in Elems(Given(w))'
  <2>1. \A a \in accepted : a = tcpConn \/ \E w \in Workers : a \in Elems(Given(w))
    BY DEF IInv, OrderInv
  <2>2. \A a \in accepted : a # None
    BY TcpServerAssumption DEF IInv, TypeOK, None
  <2> QED BY <1>1, <1>4, <2>1, <2>2
<1>9. \A v, w \in Workers : \A a \in Elems(Given(v))' : a \in Elems(Given(w))' => v = w
  BY <1>4 DEF IInv, OrderInv
<1>10. OrderInv'
  BY <1>1, <1>4, <1>6, <1>7, <1>8, <1>9 DEF OrderInv
<1> QED BY <1>2, <1>10 DEF IInv

LEMMA PushSucceedsIInv ==
  ASSUME IInv, PushSucceeds
  PROVE  IInv'
<1> USE TcpServerAssumption
<1>1. /\ tcpConn # None /\ Len(queues[index]) < Bound
      /\ queues' = [queues EXCEPT ![index] = Append(@, tcpConn)]
      /\ index' = (index + 1) % Threads /\ tcpConn' = None
      /\ UNCHANGED <<backlog, started, accepted>>
  BY DEF PushSucceeds, HasRoom, Advance
<1>2. index \in Workers /\ tcpConn \in Conns
  BY <1>1 DEF IInv, TypeOK
<1>3. PICK v \in Workers, c \in Conns : v = index /\ c = tcpConn
  BY <1>2
<1>4. /\ queues'[v] = Append(queues[v], c) /\ \A w \in Workers \ {v} : queues'[w] = queues[w]
      /\ queues \in [Workers -> Seq(Conns)]
  BY <1>1, <1>3 DEF IInv, TypeOK
<1>5. Append(queues[v], c) \in Seq(Conns) /\ Len(Append(queues[v], c)) = Len(queues[v]) + 1
  BY <1>4, AppendProperties
<1>6. TypeOK'
  <2>1. index' \in Workers
    BY <1>1, <1>2 DEF Workers
  <2>2. queues' \in [Workers -> Seq(Conns)]
    BY <1>1, <1>3, <1>4, <1>5
  <2>3. \A w \in Workers : Len(queues'[w]) <= Bound
    BY <1>1, <1>3, <1>4, <1>5 DEF IInv, TypeOK
  <2> QED BY <1>1, <2>1, <2>2, <2>3 DEF IInv, TypeOK
<1>7. Given(v)' = Append(Given(v), c) /\ \A w \in Workers \ {v} : Given(w)' = Given(w)
  <2>1. queues[v] \in Seq(Conns) /\ started[v] \in Seq(Conns) /\ Given(v) \in Seq(Conns)
    BY GivenType DEF IInv
  <2>2. started[v] \o Append(queues[v], c) = Append(started[v] \o queues[v], c)
    <3>1. \A s, t \in Seq(Conns) : s \o Append(t, c) = Append(s \o t, c)
      BY AppendRight
    <3> QED BY <2>1, <3>1, Zenon
  <2> QED BY <1>1, <1>4, <2>2 DEF Given
<1>8. Given(v) \in Seq(Conns) /\ \A a \in Elems(Given(v)) : a \in accepted /\ a < c
  BY <1>1, <1>3, GivenType DEF IInv, OrderInv
<1>9. Elems(Given(v))' = Elems(Given(v)) \cup {c} /\ Ascending(Given(v))'
  <2>1. Elems(Append(Given(v), c)) = Elems(Given(v)) \cup {c}
    BY <1>8, AppendElems
  <2>2. Ascending(Append(Given(v), c))
    <3>1. /\ Len(Append(Given(v), c)) = Len(Given(v)) + 1 /\ Len(Given(v)) \in Nat
          /\ \A i \in 1 .. Len(Given(v)) : Append(Given(v), c)[i] = Given(v)[i]
          /\ Append(Given(v), c)[Len(Given(v)) + 1] = c
      BY <1>8, AppendProperties
    <3>2. \A i \in 1 .. Len(Given(v)) : Given(v)[i] < c
      BY <1>8 DEF Elems
    <3>3. \A i, j \in 1 .. Len(Given(v)) : i < j => Given(v)[i] < Given(v)[j]
      BY DEF IInv, OrderInv, Ascending
    <3> SUFFICES ASSUME NEW i \in 1 .. Len(Given(v)) + 1, NEW j \in 1 .. Len(Given(v)) + 1, i < j
                 PROVE  Append(Given(v), c)[i] < Append(Given(v), c)[j]
      BY <3>1 DEF Ascending
    <3>4. i \in 1 .. Len(Given(v)) /\ (j \in 1 .. Len(Given(v)) \/ j = Len(Given(v)) + 1)
      BY <3>1
    <3> QED BY <3>1, <3>2, <3>3, <3>4
  <2> QED BY <1>7, <2>1, <2>2 DEF Elems, Ascending
<1>10. \A w \in Workers \ {v} : Elems(Given(w))' = Elems(Given(w)) /\ Ascending(Given(w))'
  BY <1>7 DEF IInv, OrderInv, Ascending, Elems
<1>11. \A w \in Workers : c \notin Elems(Given(w))
  BY <1>1, <1>3 DEF IInv, OrderInv, TypeOK
<1>12. OrderInv'
  <2>1. \A a \in accepted : \A d \in backlog : a < d
    BY DEF IInv, OrderInv
  <2>2. \A w \in Workers : \A a \in Elems(Given(w))' : a \in accepted
    BY <1>1, <1>3, <1>9, <1>10 DEF IInv, OrderInv
  <2>3. \A a \in accepted : \E w \in Workers : a \in Elems(Given(w))'
    BY <1>3, <1>9, <1>10 DEF IInv, OrderInv
  <2>4. \A u, w \in Workers : \A a \in Elems(Given(u))' : a \in Elems(Given(w))' => u = w
    <3>1. \A u, w \in Workers : \A a \in Elems(Given(u)) : a \in Elems(Given(w)) => u = w
      BY DEF IInv, OrderInv
    <3> QED BY <1>9, <1>10, <1>11, <3>1
  <2> QED BY <1>1, <1>9, <1>10, <2>1, <2>2, <2>3, <2>4 DEF OrderInv
<1> QED BY <1>6, <1>12 DEF IInv

\* A step that leaves the order alone: a full queue, a failed accept, the start of
\* a coroutine.
LEMMA SameOrder ==
  ASSUME IInv, TypeOK', UNCHANGED <<tcpConn, accepted>>, backlog' \subseteq backlog,
         \A w \in Workers : Given(w)' = Given(w)
  PROVE  IInv'
<1>1. \A w \in Workers : Elems(Given(w))' = Elems(Given(w)) /\ Ascending(Given(w))'
  BY DEF IInv, OrderInv, Ascending, Elems
<1> QED BY <1>1 DEF IInv, OrderInv

LEMMA PushFullIInv ==
  ASSUME IInv, PushFull
  PROVE  IInv'
<1>1. index' \in Workers
  BY TcpServerAssumption DEF IInv, TypeOK, PushFull, Advance, Workers
<1>2. TypeOK'
  BY <1>1 DEF IInv, TypeOK, PushFull, KeepConn
<1> QED BY <1>2, SameGiven, SameOrder DEF PushFull, KeepConn

LEMMA AcceptFailsIInv ==
  ASSUME IInv, NEW c \in Conns, AcceptFails(c)
  PROVE  IInv'
<1>1. backlog' \subseteq backlog
  BY DEF AcceptFails
<1>2. TypeOK'
  BY <1>1 DEF IInv, TypeOK, AcceptFails
<1> QED BY <1>1, <1>2, SameGiven, SameOrder DEF AcceptFails

LEMMA StartIInv ==
  ASSUME IInv, NEW v \in Workers, Start(v)
  PROVE  IInv'
<1>1. /\ queues[v] # <<>> /\ queues' = [queues EXCEPT ![v] = Tail(@)]
      /\ started' = [started EXCEPT ![v] = Append(@, Head(queues[v]))]
      /\ UNCHANGED <<backlog, tcpConn, index, accepted>>
  BY DEF Start
<1>2. /\ queues[v] \in Seq(Conns) /\ started[v] \in Seq(Conns)
      /\ queues \in [Workers -> Seq(Conns)] /\ started \in [Workers -> Seq(Conns)]
  BY DEF IInv, TypeOK
<1>3. /\ Head(queues[v]) \in Conns /\ Tail(queues[v]) \in Seq(Conns)
      /\ Len(Tail(queues[v])) = Len(queues[v]) - 1 /\ Len(queues[v]) \in Nat
  BY <1>1, <1>2, HeadTailProperties
<1>4. Append(started[v], Head(queues[v])) \in Seq(Conns)
  BY <1>2, <1>3, AppendProperties
<1>5. TypeOK'
  <2>1. queues' \in [Workers -> Seq(Conns)] /\ started' \in [Workers -> Seq(Conns)]
    BY <1>1, <1>2, <1>3, <1>4
  <2>2. \A w \in Workers : Len(queues'[w]) <= Bound
    BY <1>1, <1>2, <1>3, TcpServerAssumption DEF IInv, TypeOK
  <2> QED BY <1>1, <2>1, <2>2 DEF IInv, TypeOK
<1>6. \A w \in Workers : Given(w)' = Given(w)
  <2>1. Append(started[v], Head(queues[v])) \o Tail(queues[v]) = started[v] \o queues[v]
    BY <1>1, <1>2, MoveHead
  <2> QED BY <1>1, <1>2, <2>1 DEF Given
<1> QED BY <1>1, <1>5, <1>6, SameOrder

LEMMA NextIInv == IInv /\ [Next]_vars => IInv'
<1> SUFFICES ASSUME IInv, [Next]_vars PROVE IInv'
  OBVIOUS
<1>1. ASSUME NEW c \in Conns, Accept(c) PROVE IInv'
  BY <1>1, AcceptIInv
<1>2. CASE PushSucceeds
  BY <1>2, PushSucceedsIInv
<1>3. CASE PushFull
  BY <1>3, PushFullIInv
<1>4. ASSUME NEW c \in Conns, AcceptFails(c) PROVE IInv'
  BY <1>4, AcceptFailsIInv
<1>5. ASSUME NEW w \in Workers, Start(w) PROVE IInv'
  BY <1>5, StartIInv
<1>6. CASE UNCHANGED vars
  <2>1. TypeOK'
    BY <1>6 DEF vars, IInv, TypeOK
  <2> QED BY <1>6, <2>1, SameGiven, SameOrder DEF vars
<1> QED BY <1>1, <1>2, <1>3, <1>4, <1>5, <1>6 DEF Next, Main

\* The number of workers that have a connection, from the order invariant.
LEMMA IInvHanded == IInv => HandedToOneWorker
<1> SUFFICES ASSUME IInv PROVE HandedToOneWorker
  OBVIOUS
<1>1. ASSUME NEW c \in accepted
      PROVE  Cardinality({w \in Workers : c \in Elems(Given(w))}) = IF c = tcpConn THEN 0 ELSE 1
  <2> DEFINE holders == {w \in Workers : c \in Elems(Given(w))}
  <2>1. CASE c = tcpConn
    <3>1. c # None /\ c \in Nat
      BY TcpServerAssumption DEF IInv, TypeOK, None
    <3>2. holders = {}
      BY <2>1, <3>1 DEF IInv, OrderInv
    <3> QED BY <2>1, <3>2, FS_EmptySet
  <2>2. CASE c # tcpConn
    <3>1. PICK w \in Workers : c \in Elems(Given(w))
      BY <2>2 DEF IInv, OrderInv
    <3>2. \A v \in Workers : c \in Elems(Given(v)) => v = w
      BY <3>1 DEF IInv, OrderInv
    <3>3. holders = {w}
      BY <3>1, <3>2
    <3> QED BY <2>2, <3>3, FS_Singleton
  <2> QED BY <2>1, <2>2
<1> QED BY <1>1 DEF IInv, OrderInv, Ascending, HandedToOneWorker

\* The inductive invariant holds in every reachable state.
THEOREM IInvHolds == Spec => []IInv
BY InitIInv, NextIInv, PTL DEF Spec

\* The types, and that no queue of connections exceeds its bound.
THEOREM TypeCorrect == Spec => []TypeOK
BY IInvHolds, PTL DEF IInv

\* Every accepted connection is with exactly one worker, or in the main thread's
\* hand, and each worker takes its connections in the order they were made,
\* however often a queue is full.
THEOREM HandedToOneWorkerHolds == Spec => []HandedToOneWorker
BY IInvHolds, IInvHanded, PTL

------------------------------------------------------------------------------
(* TcpServer: the queue of each worker *)

\* What LockfreeQueue is shown to implement, for the queue of worker w
Fifo(w) == INSTANCE BoundedFifo WITH
  Elements <- Conns, buffer <- queues[w], delivered <- started[w]

\* A step of TcpServer is a step of the queue of w, or leaves this queue alone.
LEMMA FifoStep ==
  ASSUME TypeOK, NEW w \in Workers, [Next]_vars
  PROVE  [Fifo(w)!Next]_(Fifo(w)!fifoVars)
<1> USE DEF Fifo!fifoVars
<1>1. CASE PushSucceeds
  <2>1. /\ tcpConn \in Conns /\ Len(queues[index]) < Bound /\ started' = started
        /\ queues' = [queues EXCEPT ![index] = Append(@, tcpConn)]
    BY <1>1 DEF PushSucceeds, HasRoom, TypeOK
  <2>2. CASE w = index
    <3>1. queues'[w] = Append(queues[w], tcpConn)
      BY <2>1, <2>2 DEF TypeOK
    <3> QED BY <2>1, <2>2, <3>1 DEF Fifo!Next, Fifo!Enqueue
  <2>3. CASE w # index
    BY <2>1, <2>3 DEF TypeOK
  <2> QED BY <2>2, <2>3
<1>2. ASSUME NEW v \in Workers, Start(v)
      PROVE  [Fifo(w)!Next]_(Fifo(w)!fifoVars)
  <2>1. CASE v = w
    BY <1>2, <2>1 DEF Start, TypeOK, Fifo!Next, Fifo!Dequeue
  <2>2. CASE v # w
    BY <1>2, <2>2 DEF Start, TypeOK
  <2> QED BY <2>1, <2>2
<1>3. CASE UNCHANGED <<queues, started>>
  BY <1>3
<1> QED BY <1>1, <1>2, <1>3 DEF Next, Main, vars, Accept, AcceptFails, PushFull

\* The queue of each worker is the queue with a bound that LockfreeQueue implements:
\* the main thread pushes only where there is room, and nobody but the worker pops.
THEOREM QueuesAreFifos ==
  ASSUME NEW w \in Workers
  PROVE  Spec => Fifo(w)!Spec
<1>1. Init => Fifo(w)!Init
  BY DEF Init, Fifo!Init
<1>2. TypeOK /\ [Next]_vars => [Fifo(w)!Next]_(Fifo(w)!fifoVars)
  BY FifoStep
<1> QED BY <1>1, <1>2, TypeCorrect, PTL DEF Spec, Fifo!Spec

------------------------------------------------------------------------------
(* The workers *)

\* The theorems about one worker, for each of the two
P0 == INSTANCE UringSchedulerProofs WITH
  Handles <- Conns, MaxFailures <- 0, queue <- queues[0],
  phase <- phase_0, ready <- ready_0, ioIndex <- ioIndex_0, ioIndex2req <- req_0,
  deadline <- deadline_0, sq <- sq_0, inflight <- inflight_0, cq <- cq_0,
  retCode <- retCode_0, awaiting <- awaiting_0, awaits <- awaits_0, finished <- finished_0,
  expired <- expired_0, failures <- failures_0

P1 == INSTANCE UringSchedulerProofs WITH
  Handles <- Conns, MaxFailures <- 0, queue <- queues[1],
  phase <- phase_1, ready <- ready_1, ioIndex <- ioIndex_1, ioIndex2req <- req_1,
  deadline <- deadline_1, sq <- sq_1, inflight <- inflight_1, cq <- cq_1,
  retCode <- retCode_1, awaiting <- awaiting_1, awaits <- awaits_1, finished <- finished_1,
  expired <- expired_1, failures <- failures_1

LEMMA WorkerAssumptions == P0!UringAssumption /\ P1!UringAssumption
BY ServerAssumption DEF P0!UringAssumption, P1!UringAssumption

\* The worker of Server and the one of the theorems are the same.
LEMMA Same0 ==
  /\ W0!Init <=> P0!Init
  /\ W0!Worker <=> P0!Worker
  /\ \A h : W0!Accept(h) <=> P0!Accept(h)
  /\ \A id : W0!KernelComplete(id) <=> P0!KernelComplete(id)
  /\ W0!Tick <=> P0!Tick
  /\ UNCHANGED W0!vars <=> UNCHANGED P0!vars
  /\ W0!OneAnswerPerAwait <=> P0!OneAnswerPerAwait
  /\ W0!RingAndTableAgree <=> P0!RingAndTableAgree
<1> USE DEF W0!vars, P0!vars, W0!ringVars, P0!ringVars, W0!coroVars, P0!coroVars,
            W0!history, P0!history, W0!Elems, P0!Elems
<1>1. /\ \A f, x, y : W0!TS!With(f, x, y) = P0!TS!With(f, x, y)
      /\ \A f, S : W0!TS!Without(f, S) = P0!TS!Without(f, S)
      /\ \A S : W0!Cardinality(S) = P0!Cardinality(S)
  BY DEF W0!TS!With, P0!TS!With, W0!TS!Without, P0!TS!Without, W0!Cardinality, P0!Cardinality
<1>2. \A h, t : W0!Await(h, t) <=> P0!Await(h, t)
  BY <1>1 DEF W0!Await, P0!Await, W0!Submit, P0!Submit, W0!SubmitFails, P0!SubmitFails,
              W0!Record, P0!Record, W0!ArmTimer, P0!ArmTimer
<1>3. \A h : W0!SqeIsNull(h) <=> P0!SqeIsNull(h)
  BY <1>1 DEF W0!SqeIsNull, P0!SqeIsNull
<1>4. W0!Init <=> P0!Init
  BY DEF W0!Init, P0!Init
<1>5. W0!Worker <=> P0!Worker
  <2>1. \A t : W0!StartCoroutine(t) <=> P0!StartCoroutine(t)
    BY <1>2 DEF W0!StartCoroutine, P0!StartCoroutine
  <2>2. W0!StartCrashes <=> P0!StartCrashes
    BY <1>3 DEF W0!StartCrashes, P0!StartCrashes
  <2>3. W0!DrainDone <=> P0!DrainDone
    BY DEF W0!DrainDone, P0!DrainDone
  <2>4. W0!PollCompleted <=> P0!PollCompleted
    BY <1>1 DEF W0!PollCompleted, P0!PollCompleted, W0!RemoveTimer, P0!RemoveTimer,
                W0!CqeSeen, P0!CqeSeen
  <2>5. W0!PollStale <=> P0!PollStale
    BY DEF W0!PollStale, P0!PollStale
  <2>6. W0!PollTimeout <=> P0!PollTimeout
    BY <1>1 DEF W0!PollTimeout, P0!PollTimeout, W0!Listings, P0!Listings, W0!TS!Due, P0!TS!Due,
                W0!TS!IsListing, P0!TS!IsListing, W0!EraseExpired, P0!EraseExpired
  <2>7. \A t : W0!ResumeToAwait(t) <=> P0!ResumeToAwait(t)
    BY <1>2 DEF W0!ResumeToAwait, P0!ResumeToAwait, W0!NextReady, P0!NextReady
  <2>8. W0!ResumeCrashes <=> P0!ResumeCrashes
    BY <1>3 DEF W0!ResumeCrashes, P0!ResumeCrashes
  <2>9. W0!ResumeToEnd <=> P0!ResumeToEnd
    BY DEF W0!ResumeToEnd, P0!ResumeToEnd, W0!NextReady, P0!NextReady
  <2>10. W0!ResumeDone <=> P0!ResumeDone
    BY DEF W0!ResumeDone, P0!ResumeDone
  <2> QED BY <2>1, <2>2, <2>3, <2>4, <2>5, <2>6, <2>7, <2>8, <2>9, <2>10
          DEF W0!Worker, P0!Worker
<1>6. \A h : W0!Accept(h) <=> P0!Accept(h)
  BY DEF W0!Accept, P0!Accept, W0!Started, P0!Started
<1>7. \A id : W0!KernelComplete(id) <=> P0!KernelComplete(id)
  BY DEF W0!KernelComplete, P0!KernelComplete
<1>8. W0!Tick <=> P0!Tick
  BY DEF W0!Tick, P0!Tick
<1>9. W0!OneAnswerPerAwait <=> P0!OneAnswerPerAwait
  BY DEF W0!OneAnswerPerAwait, P0!OneAnswerPerAwait, W0!Pending, P0!Pending,
         W0!Suspended, P0!Suspended, W0!Distinct, P0!Distinct
<1>10. W0!RingAndTableAgree <=> P0!RingAndTableAgree
  BY DEF W0!RingAndTableAgree, P0!RingAndTableAgree, W0!InRing, P0!InRing,
         W0!Pending, P0!Pending, W0!Distinct, P0!Distinct
<1> QED BY <1>4, <1>5, <1>6, <1>7, <1>8, <1>9, <1>10

LEMMA Same1 ==
  /\ W1!Init <=> P1!Init
  /\ W1!Worker <=> P1!Worker
  /\ \A h : W1!Accept(h) <=> P1!Accept(h)
  /\ \A id : W1!KernelComplete(id) <=> P1!KernelComplete(id)
  /\ W1!Tick <=> P1!Tick
  /\ UNCHANGED W1!vars <=> UNCHANGED P1!vars
  /\ W1!OneAnswerPerAwait <=> P1!OneAnswerPerAwait
  /\ W1!RingAndTableAgree <=> P1!RingAndTableAgree
<1> USE DEF W1!vars, P1!vars, W1!ringVars, P1!ringVars, W1!coroVars, P1!coroVars,
            W1!history, P1!history, W1!Elems, P1!Elems
<1>1. /\ \A f, x, y : W1!TS!With(f, x, y) = P1!TS!With(f, x, y)
      /\ \A f, S : W1!TS!Without(f, S) = P1!TS!Without(f, S)
      /\ \A S : W1!Cardinality(S) = P1!Cardinality(S)
  BY DEF W1!TS!With, P1!TS!With, W1!TS!Without, P1!TS!Without, W1!Cardinality, P1!Cardinality
<1>2. \A h, t : W1!Await(h, t) <=> P1!Await(h, t)
  BY <1>1 DEF W1!Await, P1!Await, W1!Submit, P1!Submit, W1!SubmitFails, P1!SubmitFails,
              W1!Record, P1!Record, W1!ArmTimer, P1!ArmTimer
<1>3. \A h : W1!SqeIsNull(h) <=> P1!SqeIsNull(h)
  BY <1>1 DEF W1!SqeIsNull, P1!SqeIsNull
<1>4. W1!Init <=> P1!Init
  BY DEF W1!Init, P1!Init
<1>5. W1!Worker <=> P1!Worker
  <2>1. \A t : W1!StartCoroutine(t) <=> P1!StartCoroutine(t)
    BY <1>2 DEF W1!StartCoroutine, P1!StartCoroutine
  <2>2. W1!StartCrashes <=> P1!StartCrashes
    BY <1>3 DEF W1!StartCrashes, P1!StartCrashes
  <2>3. W1!DrainDone <=> P1!DrainDone
    BY DEF W1!DrainDone, P1!DrainDone
  <2>4. W1!PollCompleted <=> P1!PollCompleted
    BY <1>1 DEF W1!PollCompleted, P1!PollCompleted, W1!RemoveTimer, P1!RemoveTimer,
                W1!CqeSeen, P1!CqeSeen
  <2>5. W1!PollStale <=> P1!PollStale
    BY DEF W1!PollStale, P1!PollStale
  <2>6. W1!PollTimeout <=> P1!PollTimeout
    BY <1>1 DEF W1!PollTimeout, P1!PollTimeout, W1!Listings, P1!Listings, W1!TS!Due, P1!TS!Due,
                W1!TS!IsListing, P1!TS!IsListing, W1!EraseExpired, P1!EraseExpired
  <2>7. \A t : W1!ResumeToAwait(t) <=> P1!ResumeToAwait(t)
    BY <1>2 DEF W1!ResumeToAwait, P1!ResumeToAwait, W1!NextReady, P1!NextReady
  <2>8. W1!ResumeCrashes <=> P1!ResumeCrashes
    BY <1>3 DEF W1!ResumeCrashes, P1!ResumeCrashes
  <2>9. W1!ResumeToEnd <=> P1!ResumeToEnd
    BY DEF W1!ResumeToEnd, P1!ResumeToEnd, W1!NextReady, P1!NextReady
  <2>10. W1!ResumeDone <=> P1!ResumeDone
    BY DEF W1!ResumeDone, P1!ResumeDone
  <2> QED BY <2>1, <2>2, <2>3, <2>4, <2>5, <2>6, <2>7, <2>8, <2>9, <2>10
          DEF W1!Worker, P1!Worker
<1>6. \A h : W1!Accept(h) <=> P1!Accept(h)
  BY DEF W1!Accept, P1!Accept, W1!Started, P1!Started
<1>7. \A id : W1!KernelComplete(id) <=> P1!KernelComplete(id)
  BY DEF W1!KernelComplete, P1!KernelComplete
<1>8. W1!Tick <=> P1!Tick
  BY DEF W1!Tick, P1!Tick
<1>9. W1!OneAnswerPerAwait <=> P1!OneAnswerPerAwait
  BY DEF W1!OneAnswerPerAwait, P1!OneAnswerPerAwait, W1!Pending, P1!Pending,
         W1!Suspended, P1!Suspended, W1!Distinct, P1!Distinct
<1>10. W1!RingAndTableAgree <=> P1!RingAndTableAgree
  BY DEF W1!RingAndTableAgree, P1!RingAndTableAgree, W1!InRing, P1!InRing,
         W1!Pending, P1!Pending, W1!Distinct, P1!Distinct
<1> QED BY <1>4, <1>5, <1>6, <1>7, <1>8, <1>9, <1>10

------------------------------------------------------------------------------
(* Each part of the server behaves as its module says *)

LEMMA MainStep == [SystemNext]_allVars => [Next]_vars
<1> SUFFICES ASSUME [SystemNext]_allVars PROVE [Next]_vars
  OBVIOUS
<1>1. 0 \in Workers /\ 1 \in Workers
  BY ServerAssumption DEF Workers
<1>2. CASE MainThread
  BY <1>2 DEF MainThread, Hand0, Hand1, Next, Main
<1>3. CASE Clients
  BY <1>3 DEF Clients, Next, Main
<1>4. CASE Step0 \/ Step1
  BY <1>1, <1>4 DEF Step0, Step1, Next
<1>5. CASE Kernel \/ Clock \/ UNCHANGED allVars
  BY <1>5 DEF Kernel, Clock, allVars
<1> QED BY <1>2, <1>3, <1>4, <1>5 DEF SystemNext

\* The main thread of the server, and what it shares with the workers, behave as
\* TcpServer says.
THEOREM MainThreadRunsTcpServer == SystemSpec => Spec
BY MainStep, PTL DEF SystemSpec, SystemInit, Spec

\* The types of the queues and of the main thread.
THEOREM TypeCorrectInServer == SystemSpec => []TypeOK
BY MainThreadRunsTcpServer, TypeCorrect, PTL

\* Each connection the server accepts is with one worker, in the order of the
\* accepts, whatever the workers and their rings do.
THEOREM HandedToOneWorkerInServer == SystemSpec => []HandedToOneWorker
BY MainThreadRunsTcpServer, HandedToOneWorkerHolds, PTL

\* Nor do the rings, the timers and the coroutines change what a queue is.
THEOREM QueuesAreFifosInServer ==
  ASSUME NEW w \in Workers
  PROVE  SystemSpec => Fifo(w)!Spec
BY MainThreadRunsTcpServer, QueuesAreFifos, PTL

\* Running its coroutines takes a worker no time of the clock.
LEMMA SameClock0 == W0!Worker => now' = now
BY DEF W0!Worker, W0!StartCoroutine, W0!StartCrashes, W0!DrainDone, W0!PollCompleted, W0!PollStale,
       W0!PollTimeout, W0!ResumeToAwait, W0!ResumeCrashes, W0!ResumeToEnd, W0!ResumeDone,
       W0!Await, W0!SqeIsNull, W0!vars

LEMMA SameClock1 == W1!Worker => now' = now
BY DEF W1!Worker, W1!StartCoroutine, W1!StartCrashes, W1!DrainDone, W1!PollCompleted, W1!PollStale,
       W1!PollTimeout, W1!ResumeToAwait, W1!ResumeCrashes, W1!ResumeToEnd, W1!ResumeDone,
       W1!Await, W1!SqeIsNull, W1!vars

\* A step of the server is a step of worker 0, or leaves its state alone: the main
\* thread and the other worker do not touch it.
LEMMA WorkerStep0 ==
  ASSUME TypeOK, [SystemNext]_allVars
  PROVE  [W0!Next]_(W0!vars)
<1> USE DEF W0!vars, W0!ringVars, W0!coroVars, W0!history, worker0
<1>1. /\ 0 \in Workers /\ 1 \in Workers /\ DOMAIN queues = Workers
      /\ tcpConn # None => tcpConn \in Conns
  BY ServerAssumption DEF Workers, TypeOK
<1>2. UNCHANGED <<queues, now, worker0>> => UNCHANGED W0!vars
  OBVIOUS
<1>3. CASE Hand0
  BY <1>1, <1>3 DEF Hand0, PushSucceeds, W0!Next
<1>4. CASE Hand1
  <2>1. queues'[0] = queues[0] /\ UNCHANGED <<now, worker0>>
    BY <1>1, <1>4 DEF Hand1, PushSucceeds, W1!Accept
  <2> QED BY <2>1
<1>5. CASE PushFull /\ UNCHANGED <<now, worker0, worker1>>
  BY <1>2, <1>5 DEF PushFull
<1>6. CASE Clients
  BY <1>2, <1>6 DEF Clients, Accept, AcceptFails
<1>7. CASE Step0
  BY <1>7 DEF Step0, W0!Next
<1>8. CASE Step1
  <2>1. queues'[0] = queues[0]
    BY <1>1, <1>8 DEF Step1, Start, vars
  <2>2. now' = now
    BY <1>8, SameClock1 DEF Step1
  <2>3. UNCHANGED worker0
    BY <1>8 DEF Step1
  <2> QED BY <2>1, <2>2, <2>3
<1>9. CASE Kernel
  <2>1. CASE \E id \in inflight_0 : W0!KernelComplete(id)
    BY <2>1 DEF W0!Next
  <2>2. CASE (\E id \in inflight_1 : W1!KernelComplete(id)) /\ UNCHANGED worker0
    <3>1. UNCHANGED <<queues, now, worker0>>
      BY <1>9, <2>2 DEF Kernel, vars, W1!KernelComplete
    <3> QED BY <1>2, <3>1
  <2> QED BY <1>9, <2>1, <2>2 DEF Kernel
<1>10. CASE Clock
  BY <1>10 DEF Clock, W0!Next
<1>11. CASE UNCHANGED allVars
  BY <1>2, <1>11 DEF allVars, vars
<1> QED BY <1>3, <1>4, <1>5, <1>6, <1>7, <1>8, <1>9, <1>10, <1>11 DEF SystemNext, MainThread

LEMMA WorkerStep1 ==
  ASSUME TypeOK, [SystemNext]_allVars
  PROVE  [W1!Next]_(W1!vars)
<1> USE DEF W1!vars, W1!ringVars, W1!coroVars, W1!history, worker1
<1>1. /\ 0 \in Workers /\ 1 \in Workers /\ DOMAIN queues = Workers
      /\ tcpConn # None => tcpConn \in Conns
  BY ServerAssumption DEF Workers, TypeOK
<1>2. UNCHANGED <<queues, now, worker1>> => UNCHANGED W1!vars
  OBVIOUS
<1>3. CASE Hand1
  BY <1>1, <1>3 DEF Hand1, PushSucceeds, W1!Next
<1>4. CASE Hand0
  <2>1. queues'[1] = queues[1] /\ UNCHANGED <<now, worker1>>
    BY <1>1, <1>4 DEF Hand0, PushSucceeds, W0!Accept
  <2> QED BY <2>1
<1>5. CASE PushFull /\ UNCHANGED <<now, worker0, worker1>>
  BY <1>2, <1>5 DEF PushFull
<1>6. CASE Clients
  BY <1>2, <1>6 DEF Clients, Accept, AcceptFails
<1>7. CASE Step1
  BY <1>7 DEF Step1, W1!Next
<1>8. CASE Step0
  <2>1. queues'[1] = queues[1]
    BY <1>1, <1>8 DEF Step0, Start, vars
  <2>2. now' = now
    BY <1>8, SameClock0 DEF Step0
  <2>3. UNCHANGED worker1
    BY <1>8 DEF Step0
  <2> QED BY <2>1, <2>2, <2>3
<1>9. CASE Kernel
  <2>1. CASE \E id \in inflight_1 : W1!KernelComplete(id)
    BY <2>1 DEF W1!Next
  <2>2. CASE (\E id \in inflight_0 : W0!KernelComplete(id)) /\ UNCHANGED worker1
    <3>1. UNCHANGED <<queues, now, worker1>>
      BY <1>9, <2>2 DEF Kernel, vars, W0!KernelComplete
    <3> QED BY <1>2, <3>1
  <2> QED BY <1>9, <2>1, <2>2 DEF Kernel
<1>10. CASE Clock
  BY <1>10 DEF Clock, W1!Next
<1>11. CASE UNCHANGED allVars
  BY <1>2, <1>11 DEF allVars, vars
<1> QED BY <1>3, <1>4, <1>5, <1>6, <1>7, <1>8, <1>9, <1>10, <1>11 DEF SystemNext, MainThread

\* Each worker behaves as UringScheduler says, although the main thread pushes on
\* its queue and the other worker and the clock go on meanwhile.
THEOREM WorkersRunUringScheduler == SystemSpec => W0!Spec /\ W1!Spec
<1>1. TypeOK /\ [SystemNext]_allVars => [W0!Next]_(W0!vars) /\ [W1!Next]_(W1!vars)
  BY WorkerStep0, WorkerStep1
<1>2. SystemInit => W0!Init /\ W1!Init
  BY DEF SystemInit
<1> QED BY <1>1, <1>2, TypeCorrectInServer, PTL DEF SystemSpec, W0!Spec, W1!Spec

------------------------------------------------------------------------------
(* What the workers keep *)

\* The same, of the workers the theorems are about.
LEMMA WorkersRunProved == SystemSpec => P0!Spec /\ P1!Spec
<1>1. W0!Init => P0!Init
  BY Same0
<1>2. [W0!Next]_(W0!vars) => [P0!Next]_(P0!vars)
  BY Same0 DEF W0!Next, P0!Next
<1>3. W0!Spec => P0!Spec
  BY <1>1, <1>2, PTL DEF W0!Spec, P0!Spec
<1>4. W1!Init => P1!Init
  BY Same1
<1>5. [W1!Next]_(W1!vars) => [P1!Next]_(P1!vars)
  BY Same1 DEF W1!Next, P1!Next
<1>6. W1!Spec => P1!Spec
  BY <1>4, <1>5, PTL DEF W1!Spec, P1!Spec
<1> QED BY <1>3, <1>6, WorkersRunUringScheduler, PTL

\* So each worker keeps the inductive invariant of one worker.
LEMMA WorkersKeepIInv == SystemSpec => [](P0!IInv /\ P1!IInv)
BY WorkersRunProved, WorkerAssumptions, P0!IInvHolds, P1!IInvHolds, PTL

\* On each worker of the server a coroutine is resumed once for each await, and
\* the table of requests agrees with the ring.
THEOREM WorkersAnswerOnce ==
  SystemSpec => [](/\ W0!OneAnswerPerAwait /\ W0!RingAndTableAgree
                   /\ W1!OneAnswerPerAwait /\ W1!RingAndTableAgree)
<1>1. P0!IInv /\ P1!IInv => /\ W0!OneAnswerPerAwait /\ W0!RingAndTableAgree
                           /\ W1!OneAnswerPerAwait /\ W1!RingAndTableAgree
  BY Same0, Same1 DEF P0!IInv, P1!IInv
<1> QED BY <1>1, WorkersKeepIInv, PTL

\* As long as no submission fails, no worker meets the NULL of io_uring_get_sqe,
\* however small its ring and however many coroutines it runs.
THEOREM WorkersNeverCrash == SystemSpec => [](phase_0 # "crashed" /\ phase_1 # "crashed")
<1>1. P0!IInv => phase_0 # "crashed"
  BY ServerAssumption DEF P0!IInv, P0!TypeOK, P0!CrashNeedsFailures
<1>2. P1!IInv => phase_1 # "crashed"
  BY ServerAssumption DEF P1!IInv, P1!TypeOK, P1!CrashNeedsFailures
<1> QED BY <1>1, <1>2, WorkersKeepIInv, PTL

\* The two promise the same.
LEMMA SameIo0 == W0!ImplementsAsyncIo <=> P0!ImplementsAsyncIo
<1> USE DEF W0!Io!Move, P0!Io!Move, W0!Elems, P0!Elems, W0!Pending, P0!Pending
<1>1. /\ \A h : W0!Status(h) = P0!Status(h)
      /\ \A h : W0!Answer(h) = P0!Answer(h)
      /\ \A h : W0!DueAt(h) = P0!DueAt(h)
  BY DEF W0!Status, P0!Status, W0!Answer, P0!Answer, W0!DueAt, P0!DueAt
<1>2. W0!Io!Init <=> P0!Io!Init
  BY <1>1 DEF W0!Io!Init, P0!Io!Init
<1>3. UNCHANGED W0!Io!aioVars <=> UNCHANGED P0!Io!aioVars
  BY DEF W0!Io!aioVars, P0!Io!aioVars,
    W0!Status, P0!Status, W0!Answer, P0!Answer, W0!DueAt, P0!DueAt
<1>4. W0!Io!Next <=> P0!Io!Next
  BY DEF W0!Io!Next, P0!Io!Next,
    W0!Io!Accept, P0!Io!Accept, W0!Io!Await, P0!Io!Await, W0!Io!Complete, P0!Io!Complete,
    W0!Io!Finish, P0!Io!Finish, W0!Io!Expire, P0!Io!Expire, W0!Io!Late, P0!Io!Late,
    W0!Io!Clock, P0!Io!Clock,
    W0!Status, P0!Status, W0!Answer, P0!Answer, W0!DueAt, P0!DueAt
<1>5. [W0!Io!Next]_(W0!Io!aioVars) <=> [P0!Io!Next]_(P0!Io!aioVars)
  BY <1>3, <1>4
<1> QED BY <1>2, <1>5, PTL DEF W0!ImplementsAsyncIo, P0!ImplementsAsyncIo, W0!Io!Spec, P0!Io!Spec

LEMMA SameIo1 == W1!ImplementsAsyncIo <=> P1!ImplementsAsyncIo
<1> USE DEF W1!Io!Move, P1!Io!Move, W1!Elems, P1!Elems, W1!Pending, P1!Pending
<1>1. /\ \A h : W1!Status(h) = P1!Status(h)
      /\ \A h : W1!Answer(h) = P1!Answer(h)
      /\ \A h : W1!DueAt(h) = P1!DueAt(h)
  BY DEF W1!Status, P1!Status, W1!Answer, P1!Answer, W1!DueAt, P1!DueAt
<1>2. W1!Io!Init <=> P1!Io!Init
  BY <1>1 DEF W1!Io!Init, P1!Io!Init
<1>3. UNCHANGED W1!Io!aioVars <=> UNCHANGED P1!Io!aioVars
  BY DEF W1!Io!aioVars, P1!Io!aioVars,
    W1!Status, P1!Status, W1!Answer, P1!Answer, W1!DueAt, P1!DueAt
<1>4. W1!Io!Next <=> P1!Io!Next
  BY DEF W1!Io!Next, P1!Io!Next,
    W1!Io!Accept, P1!Io!Accept, W1!Io!Await, P1!Io!Await, W1!Io!Complete, P1!Io!Complete,
    W1!Io!Finish, P1!Io!Finish, W1!Io!Expire, P1!Io!Expire, W1!Io!Late, P1!Io!Late,
    W1!Io!Clock, P1!Io!Clock,
    W1!Status, P1!Status, W1!Answer, P1!Answer, W1!DueAt, P1!DueAt
<1>5. [W1!Io!Next]_(W1!Io!aioVars) <=> [P1!Io!Next]_(P1!Io!aioVars)
  BY <1>3, <1>4
<1> QED BY <1>2, <1>5, PTL DEF W1!ImplementsAsyncIo, P1!ImplementsAsyncIo, W1!Io!Spec, P1!Io!Spec

\* Each worker of the server keeps the promise of AsyncIo to its coroutines: every
\* await is answered once, completed or late, and resumed once for it.
THEOREM WorkersImplementAsyncIo ==
  SystemSpec => W0!ImplementsAsyncIo /\ W1!ImplementsAsyncIo
BY WorkersRunProved, WorkerAssumptions, SameIo0, SameIo1, P0!ImplementsAsyncIoHolds,
   P1!ImplementsAsyncIoHolds, PTL

------------------------------------------------------------------------------
(* One coroutine for each connection *)

\* The coroutines a worker started are those of the connections it took.
Own0 == \A c \in Conns : W0!Started(c) <=> c \in Elems(started[0])
Own1 == \A c \in Conns : W1!Started(c) <=> c \in Elems(started[1])

\* Worker 0 starts the coroutine of a connection exactly when it takes it.
LEMMA OwnStep0 ==
  ASSUME IInv, P0!IInv, Own0, [SystemNext]_allVars
  PROVE  Own0'
<1> USE DEF worker0
<1>1. /\ 0 \in Workers /\ 1 \in Workers /\ DOMAIN started = Workers /\ DOMAIN queues = Workers
      /\ queues[0] \in Seq(Conns) /\ started[0] \in Seq(Conns)
  BY ServerAssumption DEF Workers, IInv, TypeOK
<1>2. ASSUME awaits_0' = awaits_0, started'[0] = started[0]
      PROVE  Own0'
  BY <1>2 DEF Own0, Elems, W0!Started
<1>3. CASE MainThread
  BY <1>2, <1>3 DEF MainThread, Hand0, Hand1, PushSucceeds, PushFull, W0!Accept, W0!coroVars
<1>4. CASE Clients
  BY <1>2, <1>4 DEF Clients, Accept, AcceptFails
<1>5. CASE Step0
  <2>1. CASE /\ queues[0] # <<>> /\ queues'[0] = Tail(queues[0])
             /\ \A g \in Conns : P0!Started(g)' <=> P0!Started(g) \/ g = Head(queues[0])
    <3>1. /\ Head(queues[0]) \in Conns /\ Tail(queues[0]) # queues[0]
      BY <1>1, <2>1, TailDiffers
    <3>2. Start(0)
      BY <1>5, <2>1, <3>1 DEF Step0, vars
    <3>3. started'[0] = Append(started[0], Head(queues[0]))
      BY <1>1, <3>2 DEF Start
    <3>4. Elems(Append(started[0], Head(queues[0]))) = Elems(started[0]) \cup {Head(queues[0])}
      BY <1>1, <3>1, AppendElems
    <3>5. Elems(started[0])' = Elems(started[0]) \cup {Head(queues[0])}
      BY <3>3, <3>4 DEF Elems
    <3>6. \A g \in Conns : W0!Started(g)' <=> W0!Started(g) \/ g = Head(queues[0])
      BY <2>1 DEF W0!Started, P0!Started
    <3> QED BY <3>5, <3>6 DEF Own0
  <2>2. CASE queues'[0] = queues[0] /\ \A g \in Conns : P0!Started(g)' <=> P0!Started(g)
    <3>1. ~Start(0)
      <4>1. Start(0) => queues[0] # <<>> /\ queues'[0] = Tail(queues[0])
        BY <1>1 DEF Start
      <4> QED BY <1>1, <2>2, <4>1, TailDiffers
    <3>2. started' = started
      BY <1>5, <3>1 DEF Step0, vars
    <3>3. \A g \in Conns : W0!Started(g)' <=> W0!Started(g)
      BY <2>2 DEF W0!Started, P0!Started
    <3> QED BY <3>2, <3>3 DEF Own0, Elems
  <2>3. P0!Worker
    BY <1>5, Same0 DEF Step0
  <2> QED BY <2>1, <2>2, <2>3, WorkerAssumptions, P0!WorkerStarts
<1>6. CASE Step1
  <2>1. started'[0] = started[0] /\ awaits_0' = awaits_0
    BY <1>1, <1>6 DEF Step1, Start, vars
  <2> QED BY <1>2, <2>1
<1>7. CASE Kernel
  BY <1>2, <1>7 DEF Kernel, vars, W0!KernelComplete, W0!coroVars
<1>8. CASE Clock
  BY <1>2, <1>8 DEF Clock, vars, W0!Tick, W0!coroVars
<1>9. CASE UNCHANGED allVars
  BY <1>2, <1>9 DEF allVars, vars
<1> QED BY <1>3, <1>4, <1>5, <1>6, <1>7, <1>8, <1>9 DEF SystemNext

\* Worker 1 starts the coroutine of a connection exactly when it takes it.
LEMMA OwnStep1 ==
  ASSUME IInv, P1!IInv, Own1, [SystemNext]_allVars
  PROVE  Own1'
<1> USE DEF worker1
<1>1. /\ 0 \in Workers /\ 1 \in Workers /\ DOMAIN started = Workers /\ DOMAIN queues = Workers
      /\ queues[1] \in Seq(Conns) /\ started[1] \in Seq(Conns)
  BY ServerAssumption DEF Workers, IInv, TypeOK
<1>2. ASSUME awaits_1' = awaits_1, started'[1] = started[1]
      PROVE  Own1'
  BY <1>2 DEF Own1, Elems, W1!Started
<1>3. CASE MainThread
  BY <1>2, <1>3 DEF MainThread, Hand0, Hand1, PushSucceeds, PushFull, W1!Accept, W1!coroVars
<1>4. CASE Clients
  BY <1>2, <1>4 DEF Clients, Accept, AcceptFails
<1>5. CASE Step1
  <2>1. CASE /\ queues[1] # <<>> /\ queues'[1] = Tail(queues[1])
             /\ \A g \in Conns : P1!Started(g)' <=> P1!Started(g) \/ g = Head(queues[1])
    <3>1. /\ Head(queues[1]) \in Conns /\ Tail(queues[1]) # queues[1]
      BY <1>1, <2>1, TailDiffers
    <3>2. Start(1)
      BY <1>5, <2>1, <3>1 DEF Step1, vars
    <3>3. started'[1] = Append(started[1], Head(queues[1]))
      BY <1>1, <3>2 DEF Start
    <3>4. Elems(Append(started[1], Head(queues[1]))) = Elems(started[1]) \cup {Head(queues[1])}
      BY <1>1, <3>1, AppendElems
    <3>5. Elems(started[1])' = Elems(started[1]) \cup {Head(queues[1])}
      BY <3>3, <3>4 DEF Elems
    <3>6. \A g \in Conns : W1!Started(g)' <=> W1!Started(g) \/ g = Head(queues[1])
      BY <2>1 DEF W1!Started, P1!Started
    <3> QED BY <3>5, <3>6 DEF Own1
  <2>2. CASE queues'[1] = queues[1] /\ \A g \in Conns : P1!Started(g)' <=> P1!Started(g)
    <3>1. ~Start(1)
      <4>1. Start(1) => queues[1] # <<>> /\ queues'[1] = Tail(queues[1])
        BY <1>1 DEF Start
      <4> QED BY <1>1, <2>2, <4>1, TailDiffers
    <3>2. started' = started
      BY <1>5, <3>1 DEF Step1, vars
    <3>3. \A g \in Conns : W1!Started(g)' <=> W1!Started(g)
      BY <2>2 DEF W1!Started, P1!Started
    <3> QED BY <3>2, <3>3 DEF Own1, Elems
  <2>3. P1!Worker
    BY <1>5, Same1 DEF Step1
  <2> QED BY <2>1, <2>2, <2>3, WorkerAssumptions, P1!WorkerStarts
<1>6. CASE Step0
  <2>1. started'[1] = started[1] /\ awaits_1' = awaits_1
    BY <1>1, <1>6 DEF Step0, Start, vars
  <2> QED BY <1>2, <2>1
<1>7. CASE Kernel
  BY <1>2, <1>7 DEF Kernel, vars, W1!KernelComplete, W1!coroVars
<1>8. CASE Clock
  BY <1>2, <1>8 DEF Clock, vars, W1!Tick, W1!coroVars
<1>9. CASE UNCHANGED allVars
  BY <1>2, <1>9 DEF allVars, vars
<1> QED BY <1>3, <1>4, <1>5, <1>6, <1>7, <1>8, <1>9 DEF SystemNext

\* A worker runs the coroutine of a connection exactly when it took this
\* connection, and no connection has a coroutine on both workers.
OneWorkerPerCoroutine ==
  /\ Own0 /\ Own1
  /\ \A c \in Conns : ~(W0!Started(c) /\ W1!Started(c))

\* The server starts the coroutine of a connection on one worker only, whatever
\* the order of pushes, starts, completions and ticks.
THEOREM OneWorkerPerCoroutineHolds == SystemSpec => []OneWorkerPerCoroutine
<1>1. SystemInit => Own0 /\ Own1
  <2> SUFFICES ASSUME SystemInit PROVE Own0 /\ Own1
    OBVIOUS
  <2>1. started[0] = <<>> /\ started[1] = <<>>
    BY ServerAssumption DEF SystemInit, Init, Workers
  <2>2. \A c \in Conns : ~W0!Started(c) /\ ~W1!Started(c)
    BY DEF SystemInit, W0!Init, W1!Init, W0!Started, W1!Started
  <2> QED BY <2>1, <2>2 DEF Own0, Own1, Elems
<1>2. IInv /\ P0!IInv /\ P1!IInv /\ Own0 /\ Own1 /\ [SystemNext]_allVars => (Own0 /\ Own1)'
  BY OwnStep0, OwnStep1
<1>3. IInv /\ Own0 /\ Own1 => OneWorkerPerCoroutine
  <2> SUFFICES ASSUME IInv, Own0, Own1, NEW c \in Conns, W0!Started(c), W1!Started(c)
               PROVE  FALSE
    BY DEF OneWorkerPerCoroutine
  <2>1. /\ 0 \in Workers /\ 1 \in Workers
        /\ c \in Elems(started[0]) /\ c \in Elems(started[1])
    BY ServerAssumption DEF Workers, Own0, Own1
  <2>2. c \in Elems(Given(0)) /\ c \in Elems(Given(1))
    <3>1. /\ queues[0] \in Seq(Conns) /\ started[0] \in Seq(Conns)
          /\ queues[1] \in Seq(Conns) /\ started[1] \in Seq(Conns)
      BY <2>1, GivenType DEF IInv
    <3> QED BY <2>1, <3>1, ConcatElems DEF Given
  <2> QED BY <2>1, <2>2 DEF IInv, OrderInv
<1> QED BY <1>1, <1>2, <1>3, MainThreadRunsTcpServer, IInvHolds, WorkersKeepIInv, PTL
        DEF SystemSpec
==============================================================================
