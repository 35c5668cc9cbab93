------------------------------ MODULE TcpServer ------------------------------
(***************************************************************************)
(* TcpServer (include/core.h): the main thread accepts connections and     *)
(* hands each one to the queue of a worker, in turn; a worker takes the    *)
(* connections of its own queue, between two polls, to start a coroutine.  *)
(*                                                                         *)
(* A queue is what LockfreeQueue implements: push and pop are atomic, and  *)
(* it holds Bound elements (the default is 25599).                         *)
(***************************************************************************)
EXTENDS Naturals, Sequences, FiniteSets, Elements

CONSTANTS Threads,   \* thread_count_
          Conns,     \* the connections clients make, numbered in their order
          Bound      \* how many elements a queue holds

Workers == 0 .. Threads - 1

ASSUME TcpServerAssumption ==
  /\ Threads \in Nat \ {0}
  /\ Conns \subseteq Nat \ {0}
  /\ Bound \in Nat \ {0}

None == 0

VARIABLES
  backlog,   \* connections made by clients and not accepted yet
  tcpConn,   \* the connection the main thread has in hand, or None
  index,     \* run()'s index modulo thread_count_: the next queue to try
  queues,    \* queues_: worker -> its connections
  started,   \* worker -> the connections it started a coroutine for
  accepted   \* history: the connections accepted so far

vars == <<backlog, tcpConn, index, queues, started, accepted>>

Init ==
  /\ backlog = Conns
  /\ tcpConn = None
  /\ index = 0
  /\ queues = [w \in Workers |-> <<>>]
  /\ started = [w \in Workers |-> <<>>]
  /\ accepted = {}

------------------------------------------------------------------------------
(* The main thread *)

\* The kernel hands out connections in the order in which they were made.
Oldest(c) == c \in backlog /\ \A d \in backlog : c <= d

Accept(c) ==
  /\ tcpConn = None
  /\ Oldest(c)
  /\ backlog' = backlog \ {c}
  /\ tcpConn' = c
  /\ accepted' = accepted \cup {c}
  /\ UNCHANGED <<index, queues, started>>

\* accept fails: the connection is gone, or the process is out of descriptors
\* and the loop tries again.
AcceptFails(c) ==
  /\ tcpConn = None
  /\ Oldest(c)
  /\ backlog' \in {backlog, backlog \ {c}}
  /\ UNCHANGED <<tcpConn, index, queues, started, accepted>>

\* variant: the index stays where it is
Stay == index' = index

Advance == index' = (index + 1) % Threads

\* variant: the full test is off by one
HasRoomOrFull(w) == Len(queues[w]) <= Bound

HasRoom(w) == Len(queues[w]) < Bound

PushSucceeds ==
  /\ tcpConn # None
  /\ HasRoom(index)
  /\ queues' = [queues EXCEPT ![index] = Append(@, tcpConn)]
  /\ Advance
  /\ tcpConn' = None
  /\ UNCHANGED <<backlog, started, accepted>>

\* variant: a connection that finds its queue full is dropped
DropConn == tcpConn' = None

KeepConn == tcpConn' = tcpConn

\* The queue is full: the loop tries the next one with the same connection.
PushFull ==
  /\ tcpConn # None
  /\ ~HasRoom(index)
  /\ Advance
  /\ KeepConn
  /\ UNCHANGED <<backlog, queues, started, accepted>>

Main ==
  \/ \E c \in Conns : Accept(c)
  \/ PushSucceeds
  \/ PushFull

------------------------------------------------------------------------------
(* A worker *)

Start(w) ==
  /\ queues[w] # <<>>
  /\ queues' = [queues EXCEPT ![w] = Tail(@)]
  /\ started' = [started EXCEPT ![w] = Append(@, Head(queues[w]))]
  /\ UNCHANGED <<backlog, tcpConn, index, accepted>>

Next ==
  \/ Main
  \/ \E c \in Conns : AcceptFails(c)
  \/ \E w \in Workers : Start(w)

Spec == Init /\ [][Next]_vars

------------------------------------------------------------------------------
(* Properties *)

\* The types; no queue holds more than its bound, which is push's check.
TypeOK ==
  /\ backlog \subseteq Conns
  /\ tcpConn \in Conns \cup {None}
  /\ index \in Workers
  /\ queues \in [Workers -> Seq(Conns)]
  /\ \A w \in Workers : Len(queues[w]) <= Bound
  /\ started \in [Workers -> Seq(Conns)]
  /\ accepted \subseteq Conns

\* What worker w was given, in the order of the pushes.
Given(w) == started[w] \o queues[w]

\* Every accepted connection is with one worker, or still in the main thread's
\* hand: a full queue neither loses it nor hands it out twice.  Each worker takes
\* its connections in the order in which they were made.
HandedToOneWorker ==
  /\ \A c \in accepted :
       Cardinality({w \in Workers : c \in Elems(Given(w))}) = IF c = tcpConn THEN 0 ELSE 1
  /\ \A w \in Workers :
       \A i, j \in 1 .. Len(Given(w)) : i < j => Given(w)[i] < Given(w)[j]
==============================================================================
