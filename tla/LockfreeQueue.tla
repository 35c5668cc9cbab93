---------------------------- MODULE LockfreeQueue ----------------------------
(***************************************************************************)
(* include/lockfree_queue.h: a ring of Capacity slots with one producer    *)
(* and several consumers.  The two counters are free running and kept      *)
(* modulo IndexMod (2^32 in the code); a counter is turned into a slot     *)
(* number by count2Index.                                                  *)
(*                                                                         *)
(* An element is wider than a machine word, so it is stored and copied     *)
(* word by word while the other threads run: Words names its words.  An    *)
(* element pushed as the value v has v in each of them, and one that mixes *)
(* two values is torn.                                                     *)
(***************************************************************************)
EXTENDS Naturals, Sequences

CONSTANTS Capacity,    \* capicity_
          IndexMod,    \* the counters are integers modulo IndexMod
          Values,      \* the elements a producer pushes
          Garbage,     \* the content of memory nobody wrote
          Words,       \* the words of one element
          Consumers,   \* the threads that call pop
          MaxPush      \* bound: how many pushes succeed

ASSUME QueueAssumption ==
  /\ Capacity \in Nat \ {0}
  /\ IndexMod \in Nat \ {0}
  /\ MaxPush \in Nat
  /\ Garbage \notin Values

VARIABLES
  writeIndex,  \* writeIndex_
  readIndex,   \* readIndex_
  queue,       \* queue_: slot number -> word -> value
  wpc,         \* the producer: "idle", or "store" inside push
  wdata,       \* push's argument
  stored,      \* the words of wdata already in the slot
  cpc,         \* each consumer: "idle", "loaded", "copy"
  cidx,        \* pop's currentReadIndex
  cdata,       \* pop's out parameter
  copied,      \* the words already copied to cdata
  pushed,      \* history: the values of the successful pushes
  popped       \* history: what the successful pops returned

producerVars == <<wpc, wdata, stored>>
consumerVars == <<cpc, cidx, cdata, copied>>
vars == <<writeIndex, readIndex, queue, producerVars, consumerVars, pushed, popped>>

Slots == 0 .. Capacity - 1
Counters == 0 .. IndexMod - 1
Contents == [Words -> Values \cup {Garbage}]
Elem(v) == [k \in Words |-> v]

\* variant: the number of slots taken is one too high
OneTooMany(n) == n % (Capacity + 1)

count2Index(n) == n % Capacity

\* malloc leaves the slots uninitialised
Init ==
  /\ writeIndex = 0
  /\ readIndex = 0
  /\ queue = [s \in Slots |-> Elem(Garbage)]
  /\ wpc = "idle"
  /\ wdata = Garbage
  /\ stored = {}
  /\ cpc = [c \in Consumers |-> "idle"]
  /\ cidx = [c \in Consumers |-> 0]
  /\ cdata = [c \in Consumers |-> Elem(Garbage)]
  /\ copied = [c \in Consumers |-> {}]
  /\ pushed = <<>>
  /\ popped = <<>>

------------------------------------------------------------------------------
(* The producer *)

\* variant: the full test compares the counters themselves
FullByCounter == (writeIndex + 1) % IndexMod = readIndex

Full == count2Index((writeIndex + 1) % IndexMod) = count2Index(readIndex)

PushBegin(v) ==
  /\ wpc = "idle"
  /\ Len(pushed) < MaxPush
  /\ ~Full
  /\ wpc' = "store"
  /\ wdata' = v
  /\ stored' = {}
  /\ UNCHANGED <<writeIndex, readIndex, queue, consumerVars, pushed, popped>>

\* push returns false and leaves the queue as it is
PushRefused ==
  /\ wpc = "idle"
  /\ Full
  /\ UNCHANGED vars

PushStore(k) ==
  /\ wpc = "store"
  /\ k \notin stored
  /\ queue' = [queue EXCEPT ![count2Index(writeIndex)][k] = wdata]
  /\ stored' = stored \cup {k}
  /\ UNCHANGED <<writeIndex, readIndex, wpc, wdata, consumerVars, pushed, popped>>

\* variant: the counter is not moved
Unmoved(n) == n

\* fetch_add(1)
Increment(n) == (n + 1) % IndexMod

\* variant: the counter may move before the element is in its slot
PartlyStored == stored # {}

WhollyStored == stored = Words

PushPublish ==
  /\ wpc = "store"
  /\ WhollyStored
  /\ writeIndex' = Increment(writeIndex)
  /\ wpc' = "idle"
  /\ pushed' = Append(pushed, wdata)
  /\ UNCHANGED <<readIndex, queue, wdata, stored, consumerVars, popped>>

------------------------------------------------------------------------------
(* A consumer.  A pop that loses the race goes back to its first load, which *)
(* is where the next pop of that consumer starts.                            *)

PopLoadRead(c) ==
  /\ cpc[c] = "idle"
  /\ cpc' = [cpc EXCEPT ![c] = "loaded"]
  /\ cidx' = [cidx EXCEPT ![c] = readIndex]
  /\ UNCHANGED <<writeIndex, readIndex, queue, producerVars, cdata, copied, pushed, popped>>

\* variant: the empty test compares slot numbers
SameSlot(c) == count2Index(cidx[c]) = count2Index(writeIndex)

NothingLeft(c) == cidx[c] = writeIndex

PopEmpty(c) ==
  /\ cpc[c] = "loaded"
  /\ NothingLeft(c)
  /\ cpc' = [cpc EXCEPT ![c] = "idle"]
  /\ UNCHANGED <<writeIndex, readIndex, queue, producerVars, cidx, cdata, copied, pushed, popped>>

PopSome(c) ==
  /\ cpc[c] = "loaded"
  /\ ~NothingLeft(c)
  /\ cpc' = [cpc EXCEPT ![c] = "copy"]
  /\ copied' = [copied EXCEPT ![c] = {}]
  /\ UNCHANGED <<writeIndex, readIndex, queue, producerVars, cidx, cdata, pushed, popped>>

PopCopy(c, k) ==
  /\ cpc[c] = "copy"
  /\ k \notin copied[c]
  /\ cdata' = [cdata EXCEPT ![c][k] = queue[count2Index(cidx[c])][k]]
  /\ copied' = [copied EXCEPT ![c] = @ \cup {k}]
  /\ UNCHANGED <<writeIndex, readIndex, queue, producerVars, cpc, cidx, pushed, popped>>

\* variant: a plain store instead of compare-and-swap
BlindStore(c) == c \in Consumers

\* what compare_exchange_strong compares
HeadUnmoved(c) == readIndex = cidx[c]

PopCasWins(c) ==
  /\ cpc[c] = "copy"
  /\ copied[c] = Words
  /\ HeadUnmoved(c)
  /\ readIndex' = (cidx[c] + 1) % IndexMod
  /\ cpc' = [cpc EXCEPT ![c] = "idle"]
  /\ popped' = Append(popped, cdata[c])
  /\ UNCHANGED <<writeIndex, queue, producerVars, cidx, cdata, copied, pushed>>

PopCasLoses(c) ==
  /\ cpc[c] = "copy"
  /\ copied[c] = Words
  /\ ~HeadUnmoved(c)
  /\ cpc' = [cpc EXCEPT ![c] = "idle"]
  /\ UNCHANGED <<writeIndex, readIndex, queue, producerVars, cidx, cdata, copied, pushed, popped>>

Push ==
  \/ \E v \in Values : PushBegin(v)
  \/ PushRefused
  \/ \E k \in Words : PushStore(k)
  \/ PushPublish

Pop(c) ==
  \/ PopLoadRead(c)
  \/ PopEmpty(c)
  \/ PopSome(c)
  \/ \E k \in Words : PopCopy(c, k)
  \/ PopCasWins(c)
  \/ PopCasLoses(c)

Next == Push \/ \E c \in Consumers : Pop(c)

Spec == Init /\ [][Next]_vars

\* A push that started ends (no step of it waits), and every worker keeps
\* calling pop from its loop.
Fairness ==
  /\ WF_vars(PushPublish \/ \E k \in Words : PushStore(k))
  /\ \A c \in Consumers : WF_vars(Pop(c))

FairSpec == Spec /\ Fairness

------------------------------------------------------------------------------
(* Properties *)

Types ==
  /\ writeIndex \in Counters
  /\ readIndex \in Counters
  /\ queue \in [Slots -> Contents]
  /\ wpc \in {"idle", "store"}
  /\ wdata \in Values \cup {Garbage}
  /\ stored \in SUBSET Words
  /\ cpc \in [Consumers -> {"idle", "loaded", "copy"}]
  /\ cidx \in [Consumers -> Counters]
  /\ cdata \in [Consumers -> Contents]
  /\ copied \in [Consumers -> SUBSET Words]
  /\ pushed \in Seq(Values)
  /\ popped \in Seq(Contents)

\* The types of the two counters, the slots, the steps of each thread and the
\* histories; and the slot that push stores to, and those that the consumers copy
\* from, are slots of the ring, so that no thread goes behind the memory the
\* constructor allocated.
TypeOK ==
  /\ Types
  /\ count2Index(writeIndex) \in Slots
  /\ \A c \in Consumers : count2Index(cidx[c]) \in Slots

\* A pop that succeeds returns the element pushed at that position, whole and
\* neither lost, repeated nor overtaken: what the comment in pop concludes from
\* the success of its compare-and-swap, whatever the other threads did between
\* the loads, the copy and the swap.
PopExact ==
  /\ Len(popped) <= Len(pushed)
  /\ \A i \in 1 .. Len(popped) : popped[i] = Elem(pushed[i])

\* The word a producer is writing is never one that a consumer about to win its
\* compare-and-swap reads: the data race on a slot is harmless, because only a
\* pop that will lose can be part of it.
NoTornWinner ==
  \A c \in Consumers :
    cpc[c] = "copy" /\ cidx[c] = readIndex /\ wpc = "store"
      => count2Index(cidx[c]) # count2Index(writeIndex)

\* pop reports an empty queue only when it is empty at that moment, although it
\* compares a counter read earlier with one read later.
EmptyIsEmpty ==
  [][\A c \in Consumers : PopEmpty(c) => Len(popped) = Len(pushed)]_vars

\* The elements in the ring, read from the slots.
RingContents ==
  [i \in 1 .. (writeIndex - readIndex) |-> queue[count2Index(readIndex + i - 1)]]

Fifo == INSTANCE BoundedFifo
  WITH Elements <- {Elem(v) : v \in Values}, Bound <- Capacity - 1,
       buffer <- RingContents, delivered <- popped

\* The ring and its two counters implement a first-in first-out buffer of
\* Capacity - 1 elements: push appends and pop removes the head, each at one
\* instant.
ImplementsFifo == Fifo!Spec

\* Every element whose push succeeded is popped, although a pop may lose its
\* race any number of times.
EventuallyPopped ==
  \A n \in 1 .. MaxPush : Len(pushed) >= n ~> Len(popped) >= n
==============================================================================
