-------------------------------- MODULE Server --------------------------------
(***************************************************************************)
(* The whole server: the main thread of TcpServer and two workers, each of *)
(* them a Scheduler over its own io_uring, joined by the queues (core.h,   *)
(* TcpServer's constructor starts loop() on queues_[i] in thread i).       *)
(*                                                                         *)
(* A worker is an instance of UringScheduler on variables of its own; only *)
(* its queue and the clock are shared.  A push of the main thread is the   *)
(* Accept of one worker, and the worker's StartCoroutine is the Start of   *)
(* TcpServer.  A coroutine is named by its connection.                     *)
(***************************************************************************)
EXTENDS TcpServer

CONSTANTS Timeouts, UringSize, MaxAwaits, MaxTime \* as in UringScheduler

ASSUME ServerAssumption ==
  /\ Threads = 2 \* the two workers below
  /\ Timeouts \subseteq Nat
  /\ UringSize \in Nat \ {0}
  /\ MaxAwaits \in Nat \ {0}
  /\ MaxTime \in Nat

VARIABLES
  now,
  phase_0, ready_0, ioIndex_0, req_0, deadline_0, sq_0, inflight_0,
  cq_0, retCode_0, awaiting_0, awaits_0, finished_0, expired_0, failures_0,
  phase_1, ready_1, ioIndex_1, req_1, deadline_1, sq_1, inflight_1,
  cq_1, retCode_1, awaiting_1, awaits_1, finished_1, expired_1, failures_1

worker0 ==
  <<phase_0, ready_0, ioIndex_0, req_0, deadline_0, sq_0, inflight_0,
    cq_0, retCode_0, awaiting_0, awaits_0, finished_0, expired_0, failures_0>>
worker1 ==
  <<phase_1, ready_1, ioIndex_1, req_1, deadline_1, sq_1, inflight_1,
    cq_1, retCode_1, awaiting_1, awaits_1, finished_1, expired_1, failures_1>>
allVars == <<vars, now, worker0, worker1>>

W0 == INSTANCE UringScheduler WITH
  Handles <- Conns, MaxFailures <- 0, queue <- queues[0],
  phase <- phase_0, ready <- ready_0, ioIndex <- ioIndex_0, ioIndex2req <- req_0,
  deadline <- deadline_0, sq <- sq_0, inflight <- inflight_0, cq <- cq_0,
  retCode <- retCode_0, awaiting <- awaiting_0, awaits <- awaits_0, finished <- finished_0,
  expired <- expired_0, failures <- failures_0

W1 == INSTANCE UringScheduler WITH
  Handles <- Conns, MaxFailures <- 0, queue <- queues[1],
  phase <- phase_1, ready <- ready_1, ioIndex <- ioIndex_1, ioIndex2req <- req_1,
  deadline <- deadline_1, sq <- sq_1, inflight <- inflight_1, cq <- cq_1,
  retCode <- retCode_1, awaiting <- awaiting_1, awaits <- awaits_1, finished <- finished_1,
  expired <- expired_1, failures <- failures_1

SystemInit == Init /\ W0!Init /\ W1!Init

(* The main thread *)

Hand0 == index = 0 /\ PushSucceeds /\ W0!Accept(tcpConn) /\ UNCHANGED worker1
Hand1 == index = 1 /\ PushSucceeds /\ W1!Accept(tcpConn) /\ UNCHANGED worker0

MainThread == Hand0 \/ Hand1 \/ (PushFull /\ UNCHANGED <<now, worker0, worker1>>)

Clients ==
  /\ \E c \in Conns : Accept(c) \/ AcceptFails(c)
  /\ UNCHANGED <<now, worker0, worker1>>

(* The workers, their rings and the clock *)

Step0 == (Start(0) \/ UNCHANGED vars) /\ W0!Worker /\ UNCHANGED worker1
Step1 == (Start(1) \/ UNCHANGED vars) /\ W1!Worker /\ UNCHANGED worker0

Kernel ==
  /\ UNCHANGED vars
  /\ \/ (\E id \in inflight_0 : W0!KernelComplete(id)) /\ UNCHANGED worker1
     \/ (\E id \in inflight_1 : W1!KernelComplete(id)) /\ UNCHANGED worker0

Clock == UNCHANGED vars /\ W0!Tick /\ W1!Tick

SystemNext == MainThread \/ Clients \/ Step0 \/ Step1 \/ Kernel \/ Clock

\* The three threads keep running.  Nothing is assumed of the clients, of the
\* kernel and of the clock.
SystemSpec ==
  /\ SystemInit
  /\ [][SystemNext]_allVars
  /\ WF_allVars(MainThread)
  /\ WF_allVars(Step0)
  /\ WF_allVars(Step1)

------------------------------------------------------------------------------
(* Properties *)

\* The worker is held in poll by the completion of an expired request.
Stuck(w) == IF w = 0 THEN W0!Stuck ELSE W1!Stuck

\* The main thread does not keep a connection in hand for ever, as long as one
\* worker is not stuck: it goes round the full queues of the others.
MainHandsOver == tcpConn # None ~> tcpConn = None \/ \A w \in Workers : Stuck(w)

\* The connections in a worker's queue get their coroutines, whatever the other
\* worker does, unless this worker gets stuck in poll.
QueuedConnsStart ==
  \A w \in Workers : queues[w] # <<>> ~> queues[w] = <<>> \/ Stuck(w)
==============================================================================
