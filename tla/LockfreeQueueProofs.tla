------------------------- MODULE LockfreeQueueProofs -------------------------
(***************************************************************************)
(* The queue delivers exactly what was pushed, for every capacity, every   *)
(* set of consumers and of words, as long as its counters do not wrap.     *)
(***************************************************************************)
EXTENDS LockfreeQueue, TLAPS, SequenceTheorems

\* The counters of one queue never wrap: fewer than IndexMod pushes.
NoWrap == MaxPush < IndexMod

\* The counters are the lengths of the two histories.
CountersInv ==
  /\ writeIndex = Len(pushed)
  /\ readIndex = Len(popped)
  /\ readIndex <= writeIndex
  /\ writeIndex - readIndex <= Capacity - 1
  /\ writeIndex <= MaxPush

\* The slots between the counters hold the elements not popped yet.
RingInv ==
  \A i \in readIndex .. writeIndex - 1 : queue[count2Index(i)] = Elem(pushed[i + 1])

\* A producer inside push owns a free slot.
ProducerInv ==
  wpc = "store" =>
    /\ writeIndex - readIndex < Capacity - 1
    /\ writeIndex < MaxPush
    /\ wdata \in Values
    /\ \A k \in stored : queue[count2Index(writeIndex)][k] = wdata

\* A consumer whose compare-and-swap can still win holds words of the head.
ConsumerInv ==
  \A c \in Consumers :
    /\ cidx[c] <= readIndex
    /\ cpc[c] = "copy" /\ cidx[c] = readIndex =>
         /\ readIndex < writeIndex
         /\ \A k \in copied[c] : cdata[c][k] = pushed[readIndex + 1]

IInv == Types /\ CountersInv /\ RingInv /\ ProducerInv /\ ConsumerInv /\ PopExact

------------------------------------------------------------------------------
(* Arithmetic of the slots *)

LEMMA ModSmall ==
  ASSUME NEW n \in Nat, NEW m \in Nat, n < m
  PROVE  n % m = n
  BY SMT

LEMMA ModRange ==
  ASSUME NEW n \in Nat, NEW m \in Nat \ {0}
  PROVE  n % m \in 0 .. m - 1
  BY SMT

LEMMA MultipleNotBetween ==
  ASSUME NEW m \in Nat \ {0}, NEW d \in Int, 0 < m * d, m * d < m
  PROVE  FALSE
<1>1. CASE d <= 0
  BY <1>1, SMT
<1>2. CASE d >= 1
  BY <1>2, SMT
<1> QED BY <1>1, <1>2

\* Two counters less than a capacity apart have different slots.
LEMMA ModDistinct ==
  ASSUME NEW a \in Nat, NEW b \in Nat, NEW m \in Nat \ {0}, a < b, b < a + m
  PROVE  a % m # b % m
<1> SUFFICES ASSUME a % m = b % m PROVE FALSE
  OBVIOUS
<1> DEFINE p == a \div m
           q == b \div m
<1>1. p \in Int /\ q \in Int /\ a = (m * p) + (a % m) /\ b = (m * q) + (b % m)
  BY SMT
<1> HIDE DEF p, q
<1>2. b - a = m * q - m * p
  BY <1>1, SMT
<1>3. m * q - m * p = m * (q - p)
  BY <1>1, SMT
<1>4. 0 < m * (q - p) /\ m * (q - p) < m
  BY <1>2, <1>3, SMT
<1> QED BY <1>1, <1>4, MultipleNotBetween, SMT

\* Counters a capacity apart share their slot.
LEMMA ModPeriod ==
  ASSUME NEW a \in Nat, NEW m \in Nat \ {0}
  PROVE  (a + m) % m = a % m
<1> DEFINE p == a \div m
           q == (a + m) \div m
           s == a % m
           t == (a + m) % m
<1>1. /\ p \in Int /\ q \in Int /\ s \in 0 .. m - 1 /\ t \in 0 .. m - 1
      /\ a = m * p + s /\ a + m = m * q + t
  BY SMT
<1> HIDE DEF p, q, s, t
<1>2. t - s = m * (p + 1 - q) /\ s - t = m * (q - p - 1)
  BY <1>1, SMT
<1>3. CASE t > s
  <2>1. 0 < m * (p + 1 - q) /\ m * (p + 1 - q) < m
    BY <1>1, <1>2, <1>3, SMT
  <2> QED BY <1>1, <2>1, MultipleNotBetween, SMT
<1>4. CASE s > t
  <2>1. 0 < m * (q - p - 1) /\ m * (q - p - 1) < m
    BY <1>1, <1>2, <1>4, SMT
  <2> QED BY <1>1, <2>1, MultipleNotBetween, SMT
<1>5. s = t
  BY <1>1, <1>3, <1>4, SMT
<1> QED BY <1>5 DEF s, t

------------------------------------------------------------------------------
(* The inductive invariant *)

LEMMA InitIInv == Init => IInv
<1> SUFFICES ASSUME Init PROVE IInv
  OBVIOUS
<1> USE QueueAssumption DEF Init, Elem, Contents, Slots, Counters
<1>1. Types
  BY DEF Types
<1>2. CountersInv
  BY DEF CountersInv
<1>3. RingInv
  BY <1>2 DEF RingInv, CountersInv
<1>4. ProducerInv /\ ConsumerInv /\ PopExact
  BY DEF ProducerInv, ConsumerInv, PopExact
<1> QED BY <1>1, <1>2, <1>3, <1>4 DEF IInv

LEMMA PushBeginIInv ==
  ASSUME NoWrap, IInv, NEW v \in Values, PushBegin(v)
  PROVE  IInv'
<1> USE QueueAssumption
<1>0. /\ writeIndex \in Nat /\ readIndex \in Nat /\ Len(pushed) \in Nat
      /\ readIndex <= writeIndex /\ writeIndex - readIndex <= Capacity - 1
      /\ writeIndex < MaxPush
  BY DEF IInv, Types, CountersInv, PushBegin, Counters
<1>1. writeIndex - readIndex < Capacity - 1
  <2>1. (writeIndex + 1) % IndexMod = writeIndex + 1
    BY <1>0, ModSmall DEF NoWrap
  <2>2. (writeIndex + 1) % Capacity # readIndex % Capacity
    BY <2>1 DEF PushBegin, Full, count2Index
  <2>3. CASE writeIndex + 1 = readIndex + Capacity
    BY <1>0, <2>2, <2>3, ModPeriod
  <2> QED BY <1>0, <2>3, SMT
<1>2. Types'
  BY DEF IInv, Types, PushBegin, consumerVars
<1>3. CountersInv'
  BY DEF IInv, CountersInv, PushBegin
<1>4. RingInv'
  BY DEF IInv, RingInv, PushBegin
<1>5. ProducerInv'
  BY <1>0, <1>1 DEF ProducerInv, PushBegin
<1>6. ConsumerInv'
  BY DEF IInv, ConsumerInv, PushBegin, consumerVars
<1>7. PopExact'
  BY DEF IInv, PopExact, PushBegin
<1> QED BY <1>2, <1>3, <1>4, <1>5, <1>6, <1>7 DEF IInv

LEMMA PushStoreIInv ==
  ASSUME NoWrap, IInv, NEW k \in Words, PushStore(k)
  PROVE  IInv'
<1> USE QueueAssumption
<1>0. /\ writeIndex \in Nat /\ readIndex \in Nat
      /\ readIndex <= writeIndex /\ writeIndex - readIndex < Capacity - 1
      /\ wdata \in Values
      /\ count2Index(writeIndex) \in Slots
  <2>1. /\ writeIndex \in Nat /\ readIndex \in Nat
        /\ readIndex <= writeIndex /\ writeIndex - readIndex < Capacity - 1
        /\ wdata \in Values
    BY DEF IInv, Types, CountersInv, ProducerInv, PushStore, Counters
  <2> QED BY <2>1, ModRange DEF count2Index, Slots
<1>1. Types'
  BY <1>0 DEF IInv, Types, PushStore, consumerVars, Contents
<1>2. CountersInv'
  BY DEF IInv, CountersInv, PushStore
<1>3. RingInv'
  <2>1. ASSUME NEW i \in readIndex .. writeIndex - 1
        PROVE  count2Index(i) # count2Index(writeIndex)
    <3>1. i \in Nat /\ i < writeIndex /\ writeIndex < i + Capacity
      BY <1>0, SMT
    <3> QED BY <1>0, <3>1, ModDistinct DEF count2Index
  <2>2. ASSUME NEW i \in readIndex .. writeIndex - 1
        PROVE  queue'[count2Index(i)] = queue[count2Index(i)]
    <3>1. count2Index(i) \in Slots
      <4>1. i \in Nat
        BY <1>0, SMT
      <4> QED BY <4>1, ModRange DEF count2Index, Slots
    <3> QED BY <2>1, <3>1 DEF PushStore, IInv, Types
  <2> QED BY <2>2 DEF IInv, RingInv, PushStore
<1>4. ProducerInv'
  <2>1. \A j \in stored \cup {k} : queue'[count2Index(writeIndex)][j] = wdata
    <3>1. queue'[count2Index(writeIndex)] = [queue[count2Index(writeIndex)] EXCEPT ![k] = wdata]
      BY <1>0 DEF PushStore, IInv, Types
    <3>2. queue[count2Index(writeIndex)] \in Contents
      BY <1>0 DEF IInv, Types
    <3>3. \A j \in stored : j \in Words /\ queue[count2Index(writeIndex)][j] = wdata
      BY DEF IInv, Types, ProducerInv, PushStore
    <3> QED BY <3>1, <3>2, <3>3 DEF Contents
  <2> QED BY <1>0, <2>1 DEF IInv, ProducerInv, PushStore, count2Index
<1>5. ConsumerInv'
  BY DEF IInv, ConsumerInv, PushStore, consumerVars
<1>6. PopExact'
  BY DEF IInv, PopExact, PushStore
<1> QED BY <1>1, <1>2, <1>3, <1>4, <1>5, <1>6 DEF IInv

LEMMA PushPublishIInv ==
  ASSUME NoWrap, IInv, PushPublish
  PROVE  IInv'
<1> USE QueueAssumption
<1>0. /\ writeIndex \in Nat /\ readIndex \in Nat
      /\ readIndex <= writeIndex /\ writeIndex - readIndex < Capacity - 1
      /\ writeIndex < MaxPush
      /\ wdata \in Values
      /\ writeIndex = Len(pushed) /\ readIndex = Len(popped)
      /\ pushed \in Seq(Values)
  BY DEF IInv, Types, CountersInv, ProducerInv, PushPublish, Increment, WhollyStored, Counters
<1>1. writeIndex' = writeIndex + 1
  <2>1. writeIndex + 1 \in Nat /\ IndexMod \in Nat /\ writeIndex + 1 < IndexMod
    BY <1>0 DEF NoWrap
  <2>2. (writeIndex + 1) % IndexMod = writeIndex + 1
    BY <2>1, ModSmall
  <2> QED BY <2>2 DEF PushPublish, Increment, WhollyStored
<1>2. /\ pushed' \in Seq(Values) /\ Len(pushed') = writeIndex + 1
      /\ pushed'[writeIndex + 1] = wdata
      /\ \A i \in 1 .. writeIndex : pushed'[i] = pushed[i]
  BY <1>0, AppendProperties DEF PushPublish, Increment, WhollyStored
<1>3. Types'
  BY <1>0, <1>1, <1>2 DEF IInv, Types, PushPublish, Increment, WhollyStored, consumerVars, Counters, NoWrap
<1>4. CountersInv'
  BY <1>0, <1>1, <1>2 DEF CountersInv, PushPublish, Increment, WhollyStored
<1>5. RingInv'
  <2>1. queue[count2Index(writeIndex)] = Elem(wdata)
    <3>1. queue[count2Index(writeIndex)] \in Contents
      BY <1>0, ModRange DEF IInv, Types, count2Index, Slots
    <3>2. \A k \in Words : queue[count2Index(writeIndex)][k] = wdata
      BY DEF IInv, ProducerInv, PushPublish, Increment, WhollyStored
    <3> QED BY <3>1, <3>2 DEF Contents, Elem
  <2>2. ASSUME NEW i \in readIndex .. writeIndex
        PROVE  queue[count2Index(i)] = Elem(pushed'[i + 1])
    <3>1. CASE i = writeIndex
      BY <1>2, <2>1, <3>1
    <3>2. CASE i # writeIndex
      <4>1. i \in readIndex .. writeIndex - 1 /\ i + 1 \in 1 .. writeIndex
        BY <1>0, <3>2, SMT
      <4> QED BY <1>2, <4>1 DEF IInv, RingInv
    <3> QED BY <3>1, <3>2
  <2>3. readIndex' = readIndex /\ writeIndex' - 1 = writeIndex
    BY <1>0, <1>1 DEF PushPublish, Increment, WhollyStored
  <2>4. queue' = queue
    BY DEF PushPublish, Increment, WhollyStored
  <2> QED BY <2>2, <2>3, <2>4 DEF RingInv, count2Index
<1>6. ProducerInv'
  BY DEF ProducerInv, PushPublish, Increment, WhollyStored
<1>7. ConsumerInv'
  <2>1. readIndex < writeIndex => pushed'[readIndex + 1] = pushed[readIndex + 1]
    BY <1>0, <1>2
  <2> QED BY <1>0, <1>1, <2>1 DEF IInv, ConsumerInv, PushPublish, Increment, WhollyStored, consumerVars
<1>8. PopExact'
  BY <1>0, <1>2 DEF IInv, PopExact, PushPublish, Increment, WhollyStored
<1> QED BY <1>3, <1>4, <1>5, <1>6, <1>7, <1>8 DEF IInv

\* The steps of a consumer that leave the counters, the ring and the histories
\* alone keep every part but the consumers' own.
LEMMA ConsumerLocalIInv ==
  ASSUME IInv, Types', ConsumerInv',
         UNCHANGED <<writeIndex, readIndex, queue, producerVars, pushed, popped>>
  PROVE  IInv'
<1>1. CountersInv'
  BY DEF IInv, CountersInv
<1>2. RingInv'
  BY DEF IInv, RingInv
<1>3. ProducerInv'
  BY DEF IInv, ProducerInv, producerVars
<1>4. PopExact'
  BY DEF IInv, PopExact
<1> QED BY <1>1, <1>2, <1>3, <1>4 DEF IInv

LEMMA PopLoadReadIInv ==
  ASSUME IInv, NEW c \in Consumers, PopLoadRead(c)
  PROVE  IInv'
<1>1. Types'
  BY DEF IInv, Types, PopLoadRead, producerVars
<1>2. ConsumerInv'
  <2>1. readIndex \in Nat
    BY QueueAssumption DEF IInv, Types, Counters
  <2> QED BY <2>1 DEF IInv, Types, ConsumerInv, PopLoadRead
<1> QED BY <1>1, <1>2, ConsumerLocalIInv DEF PopLoadRead

LEMMA PopEmptyIInv ==
  ASSUME IInv, NEW c \in Consumers, PopEmpty(c)
  PROVE  IInv'
<1>1. Types'
  BY DEF IInv, Types, PopEmpty, NothingLeft, producerVars
<1>2. ConsumerInv'
  BY DEF IInv, Types, ConsumerInv, PopEmpty, NothingLeft
<1> QED BY <1>1, <1>2, ConsumerLocalIInv DEF PopEmpty, NothingLeft

LEMMA PopSomeIInv ==
  ASSUME IInv, NEW c \in Consumers, PopSome(c)
  PROVE  IInv'
<1>1. Types'
  BY DEF IInv, Types, PopSome, NothingLeft, producerVars
<1>2. ConsumerInv'
  <2>1. /\ readIndex \in Nat /\ writeIndex \in Nat /\ readIndex <= writeIndex
    BY QueueAssumption DEF IInv, Types, CountersInv, Counters
  <2>2. cidx[c] = readIndex => readIndex < writeIndex
    BY <2>1 DEF PopSome, NothingLeft
  <2> QED BY <2>1, <2>2 DEF IInv, Types, ConsumerInv, PopSome, NothingLeft
<1> QED BY <1>1, <1>2, ConsumerLocalIInv DEF PopSome, NothingLeft

LEMMA PopCopyIInv ==
  ASSUME IInv, NEW c \in Consumers, NEW k \in Words, PopCopy(c, k)
  PROVE  IInv'
<1>0. /\ readIndex \in Nat /\ writeIndex \in Nat /\ cidx[c] \in Nat
      /\ count2Index(cidx[c]) \in Slots
  <2>1. readIndex \in Nat /\ writeIndex \in Nat /\ cidx[c] \in Nat
    BY QueueAssumption DEF IInv, Types, Counters
  <2> QED BY <2>1, ModRange, QueueAssumption DEF count2Index, Slots
<1>1. queue[count2Index(cidx[c])][k] \in Values \cup {Garbage}
  BY <1>0 DEF IInv, Types, Contents
<1>2. Types'
  <2>1. cdata' \in [Consumers -> Contents]
    BY <1>1 DEF IInv, Types, PopCopy, Contents
  <2> QED BY <2>1 DEF IInv, Types, PopCopy, producerVars
<1>3. ConsumerInv'
  <2> SUFFICES ASSUME NEW d \in Consumers
               PROVE  /\ cidx'[d] <= readIndex'
                      /\ cpc'[d] = "copy" /\ cidx'[d] = readIndex' =>
                           /\ readIndex' < writeIndex'
                           /\ \A j \in copied'[d] : cdata'[d][j] = pushed'[readIndex' + 1]
    BY DEF ConsumerInv
  <2>1. CASE d # c
    BY <2>1 DEF IInv, Types, ConsumerInv, PopCopy
  <2>2. CASE d = c
    <3>1. /\ cidx[c] <= readIndex
          /\ cidx[c] = readIndex =>
               /\ readIndex < writeIndex
               /\ \A j \in copied[c] : cdata[c][j] = pushed[readIndex + 1]
      BY DEF IInv, ConsumerInv, PopCopy
    <3>2. cidx[c] = readIndex => queue[count2Index(cidx[c])][k] = pushed[readIndex + 1]
      <4> SUFFICES ASSUME cidx[c] = readIndex
                   PROVE  queue[count2Index(readIndex)][k] = pushed[readIndex + 1]
        OBVIOUS
      <4>1. readIndex \in readIndex .. writeIndex - 1
        BY <1>0, <3>1
      <4>2. queue[count2Index(readIndex)] = Elem(pushed[readIndex + 1])
        BY <4>1 DEF IInv, RingInv
      <4> QED BY <4>2 DEF Elem
    <3>3. /\ cidx' = cidx /\ readIndex' = readIndex /\ writeIndex' = writeIndex
          /\ pushed' = pushed
          /\ copied'[c] = copied[c] \cup {k}
          /\ cdata'[c][k] = queue[count2Index(cidx[c])][k]
          /\ \A j \in copied[c] : j # k => cdata'[c][j] = cdata[c][j]
      BY DEF IInv, Types, PopCopy, Contents
    <3> QED BY <2>2, <3>1, <3>2, <3>3, Zenon
  <2> QED BY <2>1, <2>2
<1> QED BY <1>2, <1>3, ConsumerLocalIInv DEF PopCopy

LEMMA PopCasWinsIInv ==
  ASSUME NoWrap, IInv, NEW c \in Consumers, PopCasWins(c)
  PROVE  /\ IInv'
         /\ readIndex < writeIndex
         /\ readIndex' = readIndex + 1
         /\ cdata[c] = Elem(pushed[readIndex + 1])
<1> USE QueueAssumption
<1>0. /\ readIndex \in Nat /\ writeIndex \in Nat
      /\ writeIndex <= MaxPush
      /\ writeIndex = Len(pushed) /\ readIndex = Len(popped)
      /\ writeIndex - readIndex <= Capacity - 1
      /\ popped \in Seq(Contents)
      /\ cidx[c] = readIndex
  BY DEF IInv, Types, CountersInv, Counters, PopCasWins, HeadUnmoved
<1>1. readIndex < writeIndex
  BY DEF IInv, ConsumerInv, PopCasWins, HeadUnmoved
<1>2. readIndex' = readIndex + 1
  <2>1. readIndex + 1 \in Nat /\ IndexMod \in Nat /\ readIndex + 1 < IndexMod
    BY <1>0, <1>1 DEF NoWrap
  <2>2. (readIndex + 1) % IndexMod = readIndex + 1
    BY <2>1, ModSmall
  <2> QED BY <1>0, <2>2 DEF PopCasWins, HeadUnmoved
<1>3. cdata[c] = Elem(pushed[readIndex + 1])
  <2>1. \A k \in Words : cdata[c][k] = pushed[readIndex + 1]
    BY <1>0 DEF IInv, ConsumerInv, PopCasWins, HeadUnmoved
  <2>2. cdata[c] \in Contents
    BY DEF IInv, Types
  <2> QED BY <2>1, <2>2 DEF Contents, Elem
<1>4. /\ popped' \in Seq(Contents) /\ Len(popped') = readIndex + 1
      /\ popped'[readIndex + 1] = cdata[c]
      /\ \A i \in 1 .. readIndex : popped'[i] = popped[i]
  <2>1. cdata[c] \in Contents
    BY DEF IInv, Types
  <2> QED BY <1>0, <2>1, AppendProperties DEF PopCasWins, HeadUnmoved
<1>5. Types'
  BY <1>0, <1>1, <1>2, <1>4 DEF IInv, Types, PopCasWins, HeadUnmoved, producerVars, Counters, NoWrap
<1>6. CountersInv'
  BY <1>0, <1>1, <1>2, <1>4 DEF IInv, CountersInv, PopCasWins, HeadUnmoved
<1>7. RingInv'
  <2>1. readIndex' .. writeIndex' - 1 \subseteq readIndex .. writeIndex - 1
    BY <1>0, <1>2 DEF PopCasWins, HeadUnmoved
  <2>2. queue' = queue /\ pushed' = pushed
    BY DEF PopCasWins, HeadUnmoved
  <2> QED BY <2>1, <2>2 DEF IInv, RingInv, count2Index
<1>8. ProducerInv'
  BY <1>0, <1>2 DEF IInv, ProducerInv, PopCasWins, HeadUnmoved, producerVars, count2Index
<1>9. ConsumerInv'
  <2>1. \A d \in Consumers : cidx[d] \in Nat /\ cidx[d] <= readIndex
    BY DEF IInv, Types, ConsumerInv, Counters
  <2>2. cidx' = cidx
    BY DEF PopCasWins, HeadUnmoved
  <2> QED BY <1>0, <1>2, <2>1, <2>2, SMT DEF ConsumerInv
<1>10. PopExact'
  <2>1. pushed' = pushed
    BY DEF PopCasWins, HeadUnmoved
  <2> QED BY <1>0, <1>1, <1>3, <1>4, <2>1 DEF IInv, PopExact
<1> QED BY <1>1, <1>2, <1>3, <1>5, <1>6, <1>7, <1>8, <1>9, <1>10 DEF IInv

LEMMA PopCasLosesIInv ==
  ASSUME IInv, NEW c \in Consumers, PopCasLoses(c)
  PROVE  IInv'
<1>1. Types'
  BY DEF IInv, Types, PopCasLoses, producerVars
<1>2. ConsumerInv'
  BY DEF IInv, Types, ConsumerInv, PopCasLoses
<1> QED BY <1>1, <1>2, ConsumerLocalIInv DEF PopCasLoses

LEMMA StutterIInv ==
  ASSUME IInv, UNCHANGED vars
  PROVE  IInv'
<1>1. Types'
  BY DEF IInv, Types, vars, producerVars, consumerVars
<1>2. ConsumerInv'
  BY DEF IInv, ConsumerInv, vars, consumerVars
<1> QED BY <1>1, <1>2, ConsumerLocalIInv DEF vars

LEMMA NextIInv ==
  ASSUME NoWrap, IInv, [Next]_vars
  PROVE  IInv'
<1>1. CASE Push
  BY <1>1, PushBeginIInv, PushStoreIInv, PushPublishIInv, StutterIInv DEF Push, PushRefused
<1>2. CASE \E c \in Consumers : Pop(c)
  BY <1>2, PopLoadReadIInv, PopEmptyIInv, PopSomeIInv, PopCopyIInv, PopCasWinsIInv,
     PopCasLosesIInv DEF Pop
<1>3. CASE UNCHANGED vars
  BY <1>3, StutterIInv
<1> QED BY <1>1, <1>2, <1>3 DEF Next

\* Every reachable state satisfies the inductive invariant.
THEOREM IInvHolds ==
  ASSUME NoWrap
  PROVE  Spec => []IInv
<1>1. Init => IInv
  BY InitIInv
<1>2. IInv /\ [Next]_vars => IInv'
  BY NextIInv
<1> QED BY <1>1, <1>2, PTL DEF Spec

\* The counters and what the consumers keep of them, taken modulo the capacity,
\* name slots of the ring.
LEMMA TypesSlots ==
  ASSUME Types
  PROVE  TypeOK
<1>1. \A n \in Counters : count2Index(n) \in Slots
  <2> SUFFICES ASSUME NEW n \in Counters PROVE count2Index(n) \in Slots
    OBVIOUS
  <2>1. n \in Nat
    BY QueueAssumption DEF Counters
  <2> QED BY <2>1, ModRange, QueueAssumption DEF count2Index, Slots
<1>2. writeIndex \in Counters /\ \A c \in Consumers : cidx[c] \in Counters
  BY DEF Types
<1> QED BY <1>1, <1>2 DEF TypeOK

\* Type correctness of the queue, and no thread goes behind its ring.
THEOREM TypeCorrect ==
  ASSUME NoWrap
  PROVE  Spec => []TypeOK
<1>1. IInv => TypeOK
  BY TypesSlots DEF IInv
<1> QED BY <1>1, IInvHolds, PTL

\* Every pop that succeeds returns, whole, the element pushed at its position.
THEOREM PopExactHolds ==
  ASSUME NoWrap
  PROVE  Spec => []PopExact
BY IInvHolds, PTL DEF IInv

\* No consumer that can still win copies from the slot being written.
THEOREM NoTornWinnerHolds ==
  ASSUME NoWrap
  PROVE  Spec => []NoTornWinner
<1>1. IInv => NoTornWinner
  <2> SUFFICES ASSUME IInv, NEW c \in Consumers,
                      cpc[c] = "copy", cidx[c] = readIndex, wpc = "store"
               PROVE  count2Index(readIndex) # count2Index(writeIndex)
    BY DEF NoTornWinner
  <2>1. /\ readIndex \in Nat /\ writeIndex \in Nat
        /\ readIndex < writeIndex /\ writeIndex < readIndex + Capacity
    BY QueueAssumption DEF IInv, Types, Counters, CountersInv, ConsumerInv
  <2> QED BY <2>1, ModDistinct, QueueAssumption DEF count2Index
<1> QED BY <1>1, IInvHolds, PTL

\* A pop reports an empty queue only when it is empty.
THEOREM EmptyIsEmptyHolds ==
  ASSUME NoWrap
  PROVE  Spec => EmptyIsEmpty
<1>1. IInv => [\A c \in Consumers : PopEmpty(c) => Len(popped) = Len(pushed)]_vars
  <2> SUFFICES ASSUME IInv, NEW c \in Consumers, PopEmpty(c)
               PROVE  Len(popped) = Len(pushed)
    OBVIOUS
  <2>1. /\ readIndex \in Nat /\ writeIndex \in Nat /\ readIndex <= writeIndex
        /\ cidx[c] <= readIndex /\ cidx[c] = writeIndex
    BY QueueAssumption DEF IInv, Types, Counters, CountersInv, ConsumerInv, PopEmpty, NothingLeft
  <2> QED BY <2>1 DEF IInv, CountersInv
<1> QED BY <1>1, IInvHolds, PTL DEF EmptyIsEmpty

------------------------------------------------------------------------------
(* The refinement of BoundedFifo *)

LEMMA RingLength ==
  ASSUME IInv
  PROVE  /\ writeIndex - readIndex \in Nat
         /\ Len(RingContents) = writeIndex - readIndex
         /\ DOMAIN RingContents = 1 .. (writeIndex - readIndex)
<1>1. writeIndex - readIndex \in Nat
  BY QueueAssumption DEF IInv, Types, Counters, CountersInv
<1> QED BY <1>1 DEF RingContents

\* What the ring holds is what was pushed and not yet popped.
Unpopped == [i \in 1 .. (writeIndex - readIndex) |-> Elem(pushed[readIndex + i])]

LEMMA RingIsUnpopped == IInv => RingContents = Unpopped
<1> SUFFICES ASSUME IInv PROVE RingContents = Unpopped
  OBVIOUS
<1>1. readIndex \in Nat /\ writeIndex \in Nat /\ readIndex <= writeIndex
  BY QueueAssumption DEF IInv, Types, Counters, CountersInv
<1>2. ASSUME NEW i \in 1 .. (writeIndex - readIndex)
      PROVE  queue[count2Index(readIndex + i - 1)] = Elem(pushed[readIndex + i])
  <2>1. /\ readIndex + i - 1 \in readIndex .. writeIndex - 1
        /\ readIndex + i - 1 + 1 = readIndex + i
    BY <1>1, SMT
  <2> QED BY <2>1 DEF IInv, RingInv
<1> QED BY <1>2 DEF RingContents, Unpopped

LEMMA RingIsUnpoppedNext == (IInv => RingContents = Unpopped)'
BY RingIsUnpopped, PTL

LEMMA PublishEnqueues ==
  ASSUME NoWrap, IInv, IInv', PushPublish
  PROVE  Fifo!Enqueue(Elem(wdata)) /\ wdata \in Values
<1>0. /\ writeIndex \in Nat /\ readIndex \in Nat
      /\ readIndex <= writeIndex /\ writeIndex - readIndex < Capacity - 1
      /\ writeIndex < MaxPush
      /\ wdata \in Values
      /\ writeIndex = Len(pushed)
      /\ pushed \in Seq(Values)
      /\ Capacity - 1 \in Nat
  BY QueueAssumption DEF IInv, Types, CountersInv, ProducerInv, PushPublish, Increment, WhollyStored, Counters
<1>1. writeIndex' = writeIndex + 1
  <2>1. writeIndex + 1 \in Nat /\ IndexMod \in Nat /\ writeIndex + 1 < IndexMod
    BY <1>0, QueueAssumption DEF NoWrap
  <2>2. (writeIndex + 1) % IndexMod = writeIndex + 1
    BY <2>1, ModSmall
  <2> QED BY <2>2 DEF PushPublish, Increment, WhollyStored
<1>2. /\ pushed'[writeIndex + 1] = wdata
      /\ \A i \in 1 .. writeIndex : pushed'[i] = pushed[i]
  BY <1>0, AppendProperties DEF PushPublish, Increment, WhollyStored
<1> DEFINE n == writeIndex - readIndex
           before == [i \in 1 .. n |-> Elem(pushed[readIndex + i])]
           after == [i \in 1 .. n + 1 |-> Elem(pushed'[readIndex + i])]
<1>3. n \in Nat
  BY <1>0
<1>4. RingContents = before
  BY RingIsUnpopped DEF Unpopped
<1>5. RingContents' = after
  <2>1. RingContents' = [i \in 1 .. (writeIndex' - readIndex') |->
                          Elem(pushed'[readIndex' + i])]
    BY RingIsUnpoppedNext DEF Unpopped, Elem
  <2>2. readIndex' = readIndex /\ writeIndex' - readIndex' = n + 1
    BY <1>0, <1>1 DEF PushPublish, Increment, WhollyStored
  <2> QED BY <2>1, <2>2
<1>6. after = Append(before, Elem(wdata))
  <2>1. Len(before) = n
    BY <1>3
  <2>2. readIndex + (n + 1) = writeIndex + 1
    BY <1>0
  <2>3. \A i \in 1 .. n : pushed'[readIndex + i] = pushed[readIndex + i]
    BY <1>0, <1>2
  <2>4. ASSUME NEW i \in 1 .. n + 1
        PROVE  after[i] = IF i <= n THEN before[i] ELSE Elem(wdata)
    BY <1>2, <1>3, <2>2, <2>3
  <2>5. Append(before, Elem(wdata)) =
          [i \in 1 .. n + 1 |-> IF i <= n THEN before[i] ELSE Elem(wdata)]
    BY <1>3, <2>1
  <2> QED BY <2>4, <2>5
<1>7. Len(RingContents) < Capacity - 1
  BY <1>0, RingLength
<1>8. UNCHANGED popped
  BY DEF PushPublish, Increment, WhollyStored
<1> QED BY <1>0, <1>4, <1>5, <1>6, <1>7, <1>8 DEF Fifo!Enqueue

LEMMA CasDequeues ==
  ASSUME NoWrap, IInv, IInv', NEW c \in Consumers, PopCasWins(c)
  PROVE  Fifo!Dequeue
<1>0. readIndex \in Nat /\ writeIndex \in Nat
  BY QueueAssumption DEF IInv, Types, Counters
<1>1. /\ readIndex < writeIndex
      /\ readIndex' = readIndex + 1
      /\ cdata[c] = Elem(pushed[readIndex + 1])
  BY PopCasWinsIInv
<1> DEFINE n == writeIndex - readIndex
           before == [i \in 1 .. n |-> Elem(pushed[readIndex + i])]
           after == [i \in 1 .. n - 1 |-> Elem(pushed[readIndex + 1 + i])]
<1>2. n \in Nat /\ n >= 1
  BY <1>0, <1>1
<1>3. RingContents = before
  BY RingIsUnpopped DEF Unpopped
<1>4. RingContents' = after
  <2>1. RingContents' = [i \in 1 .. (writeIndex' - readIndex') |->
                          Elem(pushed'[readIndex' + i])]
    BY RingIsUnpoppedNext DEF Unpopped, Elem
  <2>2. readIndex' = readIndex + 1 /\ writeIndex' - readIndex' = n - 1 /\ pushed' = pushed
    BY <1>0, <1>1 DEF PopCasWins, HeadUnmoved
  <2> QED BY <2>1, <2>2
<1>5. before # <<>> /\ Head(before) = cdata[c]
  <2>1. Len(before) = n
    BY <1>2
  <2>2. before[1] = Elem(pushed[readIndex + 1])
    BY <1>2
  <2> QED BY <1>1, <1>2, <2>1, <2>2
<1>6. after = Tail(before)
  <2>1. Len(before) = n
    BY <1>2
  <2>2. Tail(before) = [i \in 1 .. n - 1 |-> before[i + 1]]
    BY <1>2, <2>1
  <2>3. ASSUME NEW i \in 1 .. n - 1 PROVE after[i] = before[i + 1]
    <3>1. i + 1 \in 1 .. n /\ readIndex + 1 + i = readIndex + (i + 1)
      BY <1>0, <1>2, SMT
    <3> QED BY <3>1
  <2> QED BY <2>2, <2>3
<1>7. popped' = Append(popped, cdata[c])
  BY DEF PopCasWins, HeadUnmoved
<1> QED BY <1>3, <1>4, <1>5, <1>6, <1>7 DEF Fifo!Dequeue

\* The ring, read between its counters, implements a bounded first-in first-out
\* buffer: a push takes effect when it publishes, a pop when its swap succeeds.
THEOREM ImplementsFifoHolds ==
  ASSUME NoWrap
  PROVE  Spec => ImplementsFifo
<1>1. Init => Fifo!Init
  BY DEF Init, Fifo!Init, RingContents
<1>2. ASSUME IInv, IInv', [Next]_vars
      PROVE  [Fifo!Next]_(Fifo!fifoVars)
  <2>1. ASSUME UNCHANGED <<writeIndex, readIndex, pushed, popped>>
        PROVE  UNCHANGED Fifo!fifoVars
    <3>1. RingContents' = [i \in 1 .. (writeIndex' - readIndex') |->
                            Elem(pushed'[readIndex' + i])]
      BY <1>2, RingIsUnpoppedNext DEF Unpopped, Elem
    <3> QED BY <1>2, <2>1, <3>1, RingIsUnpopped DEF Fifo!fifoVars, Unpopped
  <2>2. CASE PushPublish
    BY <1>2, <2>2, PublishEnqueues DEF Fifo!Next
  <2>3. ASSUME NEW c \in Consumers, PopCasWins(c) PROVE Fifo!Next
    BY <1>2, <2>3, CasDequeues DEF Fifo!Next
  <2>4. ASSUME NEW c \in Consumers, Pop(c), ~PopCasWins(c) PROVE UNCHANGED Fifo!fifoVars
    BY <2>1, <2>4 DEF Pop, PopLoadRead, PopEmpty, NothingLeft, PopSome, NothingLeft, PopCopy, PopCasLoses
  <2>5. CASE Push /\ ~PushPublish
    BY <2>1, <2>5 DEF Push, PushBegin, PushRefused, PushStore, vars
  <2>6. CASE UNCHANGED vars
    BY <2>1, <2>6 DEF vars
  <2> QED BY <1>2, <2>2, <2>3, <2>4, <2>5, <2>6 DEF Next
<1> QED BY <1>1, <1>2, IInvHolds, PTL DEF Spec, ImplementsFifo, Fifo!Spec
==============================================================================
