------------------------ MODULE UringSchedulerProofs ------------------------
(***************************************************************************)
(* One worker answers every await once and implements AsyncIo, for any set *)
(* of coroutines, any timeouts and any size of the ring, with completions  *)
(* in any order, expiries, late completions and submissions that fail.     *)
(***************************************************************************)
EXTENDS UringScheduler, ElementsProofs, FiniteSetTheorems, TLAPS

\* An io id names one await of one coroutine, and a coroutine in the queue has
\* issued none.
AwaitsInv ==
  /\ \A h \in Handles : awaiting[h] < ioIndex
  /\ \A g, h \in Handles : Suspended(g) /\ awaiting[g] = awaiting[h] => g = h
  /\ \A h \in Handles : Suspended(h) => Started(h)
  /\ \A h \in finished : Started(h)
  /\ \A h \in Elems(queue) : ~Started(h)
  /\ Distinct(queue)
  /\ now <= MaxTime

\* Each entry of the submission queue is there because a submission failed.
SubmissionsInv ==
  /\ IsFiniteSet(sq)
  /\ Cardinality(sq) <= failures

IInv ==
  /\ TypeOK
  /\ OneAnswerPerAwait
  /\ RingAndTableAgree
  /\ CrashNeedsFailures
  /\ AwaitsInv
  /\ SubmissionsInv

------------------------------------------------------------------------------
(* The inductive invariant *)

LEMMA InitIInv == Init => IInv
<1> SUFFICES ASSUME Init PROVE IInv
  OBVIOUS
<1> USE UringAssumption DEF Init
<1>1. /\ Elems(queue) = {} /\ Elems(ready) = {} /\ Elems(cq) = {}
      /\ Len(queue) = 0 /\ Len(ready) = 0 /\ Len(cq) = 0
      /\ queue \in Seq(Handles) /\ ready \in Seq(Handles) /\ cq \in Seq(Ids)
  BY EmptySeq DEF Elems
<1>2. Pending = {} /\ DOMAIN deadline = {}
  BY DEF Pending
<1>3. TypeOK
  BY <1>1, <1>2 DEF TypeOK
<1>4. OneAnswerPerAwait /\ RingAndTableAgree /\ CrashNeedsFailures
  BY <1>1, <1>2 DEF OneAnswerPerAwait, RingAndTableAgree, CrashNeedsFailures, InRing, Suspended,
                     Distinct
<1>5. AwaitsInv
  BY <1>1 DEF AwaitsInv, Suspended, Started, Distinct
<1>6. SubmissionsInv
  BY FS_EmptySet DEF SubmissionsInv
<1> QED BY <1>3, <1>4, <1>5, <1>6 DEF IInv

\* A coroutine to be resumed has no request and no timer, and is not over.
LEMMA ReadyFacts ==
  ASSUME IInv, NEW h \in Elems(ready)
  PROVE  /\ h \in Handles /\ h \notin finished /\ Suspended(h) /\ Started(h)
         /\ h \notin Elems(queue)
         /\ awaiting[h] \notin Pending /\ awaiting[h] \notin DOMAIN deadline
         /\ \A id \in Pending : ioIndex2req[id] # h
<1>1. h \in Handles
  BY ElemsType DEF IInv, TypeOK
<1>2. h \notin finished /\ Suspended(h)
  BY DEF IInv, OneAnswerPerAwait
<1>3. Started(h) /\ h \notin Elems(queue)
  BY <1>1, <1>2 DEF IInv, AwaitsInv
<1>4. \A id \in Pending : ioIndex2req[id] # h
  BY DEF IInv, OneAnswerPerAwait
<1>5. awaiting[h] \notin Pending
  <2> SUFFICES ASSUME awaiting[h] \in Pending PROVE FALSE
    OBVIOUS
  <2> DEFINE g == ioIndex2req[awaiting[h]]
  <2>1. g \in Handles /\ awaiting[g] = awaiting[h] /\ g # h
    BY <1>4 DEF IInv, TypeOK, OneAnswerPerAwait
  <2> QED BY <1>1, <1>2, <2>1 DEF IInv, AwaitsInv
<1>6. awaiting[h] \notin DOMAIN deadline
  BY <1>5 DEF IInv, OneAnswerPerAwait
<1> QED BY <1>1, <1>2, <1>3, <1>4, <1>5, <1>6

\* A recorded request is that of the await its coroutine is suspended in.
LEMMA PendingFacts ==
  ASSUME IInv, NEW id \in Pending
  PROVE  /\ id \in Ids /\ id \in Nat \ {0}
         /\ ioIndex2req[id] \in Handles /\ ioIndex2req[id] \notin finished
         /\ ioIndex2req[id] \notin Elems(ready) /\ ioIndex2req[id] \notin Elems(queue)
         /\ awaiting[ioIndex2req[id]] = id
         /\ \A g \in Handles : awaiting[g] = id => g = ioIndex2req[id]
         /\ id \in InRing /\ id \notin expired
<1> DEFINE h == ioIndex2req[id]
<1>1. id \in Ids /\ id \in Nat \ {0} /\ h \in Handles
  BY DEF IInv, TypeOK, Ids
<1>2. awaiting[h] = id /\ h \notin Elems(ready)
  BY DEF IInv, OneAnswerPerAwait
<1>3. Suspended(h)
  BY <1>1, <1>2 DEF Suspended
<1>4. h \notin finished
  BY <1>3 DEF IInv, OneAnswerPerAwait
<1>5. h \notin Elems(queue) /\ \A g \in Handles : awaiting[g] = id => g = h
  BY <1>1, <1>2, <1>3 DEF IInv, AwaitsInv
<1>6. id \in InRing /\ id \notin expired
  BY DEF IInv, RingAndTableAgree
<1> QED BY <1>1, <1>2, <1>4, <1>5, <1>6

\* A submission, also one that fails, leaves the new id in one place of the ring.
LEMMA SubmitRing ==
  ASSUME IInv, Submit, ioIndex' = ioIndex + 1, cq' = cq
  PROVE  /\ sq' \subseteq Ids' /\ inflight' \subseteq Ids' /\ cq' \in Seq(Ids')
         /\ ioIndex \notin Ids /\ ioIndex \in Ids' /\ Ids \subseteq Ids'
         /\ InRing' = InRing \cup {ioIndex}
         /\ sq' \cap inflight' = {} /\ (sq' \cup inflight') \cap Elems(cq') = {}
         /\ failures' \in 0 .. MaxFailures /\ failures' >= failures
         /\ SubmissionsInv'
<1> USE UringAssumption
<1>1. ioIndex \in Nat \ {0} /\ failures \in 0 .. MaxFailures
      /\ sq \subseteq Ids /\ inflight \subseteq Ids /\ cq \in Seq(Ids)
  BY DEF IInv, TypeOK
<1>2. ioIndex \notin Ids /\ ioIndex \in Ids' /\ Ids \subseteq Ids'
  BY <1>1 DEF Ids
<1>3. Elems(cq) \subseteq Ids /\ Elems(cq)' = Elems(cq)
  BY <1>1, ElemsType DEF Elems
<1>4. cq' \in Seq(Ids')
  BY <1>1, <1>2, SeqMonotonic
<1>5. /\ sq \cap inflight = {} /\ (sq \cup inflight) \cap Elems(cq) = {}
      /\ IsFiniteSet(sq) /\ Cardinality(sq) <= failures
  BY DEF IInv, RingAndTableAgree, SubmissionsInv
<1>6. CASE SubmitFails
  <2>1. /\ failures' = failures + 1 /\ failures < MaxFailures
        /\ sq' = sq \cup {ioIndex} /\ inflight' = inflight
    BY <1>6 DEF SubmitFails
  <2>2. IsFiniteSet(sq') /\ Cardinality(sq') <= failures'
    <3>1. /\ IsFiniteSet(sq') /\ Cardinality(sq') = Cardinality(sq) + 1
          /\ Cardinality(sq) \in Nat
      BY <1>1, <1>2, <1>5, <2>1, FS_AddElement, FS_CardinalityType
    <3> QED BY <1>1, <1>5, <2>1, <3>1
  <2>3. InRing' = InRing \cup {ioIndex}
    BY <1>3, <2>1 DEF InRing
  <2>4. sq' \cap inflight' = {} /\ (sq' \cup inflight') \cap Elems(cq') = {}
    BY <1>1, <1>2, <1>3, <1>5, <2>1
  <2>5. failures' \in 0 .. MaxFailures /\ failures' >= failures
    BY <1>1, <2>1
  <2> QED BY <1>1, <1>2, <1>4, <2>1, <2>2, <2>3, <2>4, <2>5 DEF SubmissionsInv
<1>7. CASE /\ inflight' = inflight \cup sq \cup {ioIndex}
           /\ sq' = {}
           /\ UNCHANGED failures
  <2>1. IsFiniteSet(sq') /\ Cardinality(sq') <= failures'
    BY <1>1, <1>7, FS_EmptySet
  <2>2. InRing' = InRing \cup {ioIndex}
    BY <1>3, <1>7 DEF InRing
  <2>3. sq' \cap inflight' = {} /\ (sq' \cup inflight') \cap Elems(cq') = {}
    BY <1>1, <1>2, <1>3, <1>5, <1>7
  <2>4. failures' \in 0 .. MaxFailures /\ failures' >= failures
    BY <1>1, <1>7
  <2> QED BY <1>1, <1>2, <1>4, <1>7, <2>1, <2>2, <2>3, <2>4 DEF SubmissionsInv
<1> QED BY <1>6, <1>7 DEF Submit

\* What an await records and arms.
LEMMA RecordFacts ==
  ASSUME IInv, NEW h \in Handles, NEW timeout \in Timeouts, Await(h, timeout)
  PROVE  /\ Pending' = Pending \cup {ioIndex}
         /\ ioIndex2req'[ioIndex] = h
         /\ \A id \in Pending : ioIndex2req'[id] = ioIndex2req[id]
         /\ ioIndex \notin Pending /\ ioIndex \notin DOMAIN deadline
         /\ DOMAIN deadline' = DOMAIN deadline \cup (IF timeout > 0 THEN {ioIndex} ELSE {})
         /\ timeout > 0 => deadline'[ioIndex] = now + timeout
         /\ \A id \in DOMAIN deadline : deadline'[id] = deadline[id]
         /\ timeout \in Nat /\ now \in Nat
<1>1. ioIndex \notin Ids
  BY SubmitRing DEF Await
<1>2. Pending \subseteq Ids /\ DOMAIN deadline \subseteq Ids /\ now \in Nat /\ timeout \in Nat
  BY UringAssumption DEF IInv, TypeOK
<1>3. ioIndex2req' = TS!With(ioIndex2req, ioIndex, h)
  BY DEF Await, Record
<1>4. /\ DOMAIN ioIndex2req' = DOMAIN ioIndex2req \cup {ioIndex}
      /\ ioIndex2req'[ioIndex] = h
      /\ \A id \in DOMAIN ioIndex2req : id # ioIndex => ioIndex2req'[id] = ioIndex2req[id]
  BY <1>3 DEF TS!With
<1>5. deadline' = IF timeout > 0 THEN TS!With(deadline, ioIndex, now + timeout) ELSE deadline
  BY DEF Await, ArmTimer
<1>6. CASE timeout > 0
  <2>1. deadline' = TS!With(deadline, ioIndex, now + timeout)
    BY <1>5, <1>6
  <2>2. /\ DOMAIN deadline' = DOMAIN deadline \cup {ioIndex}
        /\ deadline'[ioIndex] = now + timeout
        /\ \A id \in DOMAIN deadline : id # ioIndex => deadline'[id] = deadline[id]
    BY <2>1 DEF TS!With
  <2> QED BY <1>1, <1>2, <1>4, <1>6, <2>2 DEF Pending
<1>7. CASE ~(timeout > 0)
  BY <1>1, <1>2, <1>4, <1>5, <1>7 DEF Pending
<1> QED BY <1>6, <1>7

\* An await of a coroutine that no queue, request or answer speaks of any more
\* preserves the invariant.
LEMMA AwaitIInv ==
  ASSUME IInv, NEW h \in Handles, NEW timeout \in Timeouts, Await(h, timeout),
         h \notin finished, \A id \in Pending : ioIndex2req[id] # h,
         ready' \in Seq(Handles), Distinct(ready)', Elems(ready)' = Elems(ready) \ {h},
         queue' \in Seq(Handles), Distinct(queue)', Elems(queue)' = Elems(queue) \ {h},
         phase' = phase, retCode' = retCode
  PROVE  IInv'
<1> USE UringAssumption
<1>1. /\ ioIndex' = ioIndex + 1 /\ Submit /\ cq' = cq /\ now' = now
      /\ finished' = finished /\ expired' = expired
      /\ awaiting' = [awaiting EXCEPT ![h] = ioIndex]
      /\ awaits' = [awaits EXCEPT ![h] = @ + 1]
      /\ awaits[h] < MaxAwaits
  BY DEF Await
<1>2. /\ sq' \subseteq Ids' /\ inflight' \subseteq Ids' /\ cq' \in Seq(Ids')
      /\ ioIndex \notin Ids /\ ioIndex \in Ids' /\ Ids \subseteq Ids'
      /\ InRing' = InRing \cup {ioIndex}
      /\ sq' \cap inflight' = {} /\ (sq' \cup inflight') \cap Elems(cq') = {}
      /\ failures' \in 0 .. MaxFailures /\ failures' >= failures
      /\ SubmissionsInv'
  BY <1>1, SubmitRing
<1>3. /\ Pending' = Pending \cup {ioIndex}
      /\ ioIndex2req'[ioIndex] = h
      /\ \A id \in Pending : ioIndex2req'[id] = ioIndex2req[id]
      /\ DOMAIN deadline' \subseteq DOMAIN deadline \cup {ioIndex}
      /\ ioIndex \in DOMAIN deadline' => deadline'[ioIndex] \in Nat \ {0}
      /\ \A id \in DOMAIN deadline : deadline'[id] = deadline[id]
  <2>1. /\ Pending' = Pending \cup {ioIndex}
        /\ ioIndex2req'[ioIndex] = h
        /\ \A id \in Pending : ioIndex2req'[id] = ioIndex2req[id]
        /\ ioIndex \notin DOMAIN deadline
        /\ DOMAIN deadline' = DOMAIN deadline \cup (IF timeout > 0 THEN {ioIndex} ELSE {})
        /\ timeout > 0 => deadline'[ioIndex] = now + timeout
        /\ \A id \in DOMAIN deadline : deadline'[id] = deadline[id]
        /\ timeout \in Nat /\ now \in Nat
    BY RecordFacts
  <2> QED BY <2>1
<1>4. /\ ioIndex \in Nat \ {0} /\ now \in Nat
      /\ awaiting \in [Handles -> Nat] /\ awaits \in [Handles -> 0 .. MaxAwaits]
      /\ Pending \subseteq Ids /\ DOMAIN deadline \subseteq Ids /\ expired \subseteq Ids
      /\ finished \subseteq Handles
      /\ failures \in 0 .. MaxFailures
  BY DEF IInv, TypeOK
<1>5. Elems(ready) \subseteq Handles /\ Elems(queue) \subseteq Handles
  BY ElemsType DEF IInv, TypeOK
<1>6. /\ awaiting'[h] = ioIndex /\ awaits'[h] = awaits[h] + 1
      /\ \A g \in Handles \ {h} : awaiting'[g] = awaiting[g] /\ awaits'[g] = awaits[g]
      /\ awaiting' \in [Handles -> Nat] /\ awaits' \in [Handles -> 0 .. MaxAwaits]
  BY <1>1, <1>4
<1>7. TypeOK'
  <2>1. ioIndex' \in Nat \ {0} /\ now' \in Nat
    BY <1>1, <1>4
  <2>2. Pending' \subseteq Ids' /\ \A id \in Pending' : ioIndex2req'[id] \in Handles
    BY <1>2, <1>3, <1>4 DEF IInv, TypeOK
  <2>3. DOMAIN deadline' \subseteq Ids' /\ \A id \in DOMAIN deadline' : deadline'[id] \in Nat \ {0}
    BY <1>2, <1>3, <1>4 DEF IInv, TypeOK
  <2>4. expired' \subseteq Ids' /\ finished' \subseteq Handles
    BY <1>1, <1>2, <1>4
  <2>5. /\ phase' \in {"drain", "poll", "resume", "crashed"}
        /\ retCode' \in [Handles -> {"none", "completed", "expired"}]
    BY DEF IInv, TypeOK
  <2> QED BY <1>2, <1>6, <2>1, <2>2, <2>3, <2>4, <2>5 DEF TypeOK
<1>8. OneAnswerPerAwait'
  <2> USE DEF Suspended
  <2>1. ASSUME NEW id \in Pending'
        PROVE  awaiting'[ioIndex2req'[id]] = id /\ ioIndex2req'[id] \notin Elems(ready)'
    <3>1. CASE id \in Pending
      <4>1. ioIndex2req'[id] = ioIndex2req[id] /\ ioIndex2req[id] \in Handles \ {h}
        BY <1>3, <3>1 DEF IInv, TypeOK
      <4>2. awaiting[ioIndex2req[id]] = id /\ ioIndex2req[id] \notin Elems(ready)
        BY <3>1 DEF IInv, OneAnswerPerAwait
      <4> QED BY <1>6, <4>1, <4>2
    <3>2. CASE id = ioIndex
      BY <1>3, <1>6, <3>2
    <3> QED BY <1>3, <3>1, <3>2
  <2>2. ASSUME NEW g \in Elems(ready)' PROVE Suspended(g)'
    BY <1>5, <1>6 DEF IInv, OneAnswerPerAwait
  <2>3. ASSUME NEW g \in Handles, Suspended(g)'
        PROVE  g \in Elems(ready)' \/ awaiting'[g] \in Pending'
    BY <1>3, <1>6, <2>3 DEF IInv, OneAnswerPerAwait
  <2>4. \A g \in finished' : ~Suspended(g)'
    BY <1>1, <1>4, <1>6 DEF IInv, OneAnswerPerAwait
  <2>5. DOMAIN deadline' \subseteq Pending'
    BY <1>3 DEF IInv, OneAnswerPerAwait
  <2> QED BY <2>1, <2>2, <2>3, <2>4, <2>5 DEF OneAnswerPerAwait, Distinct
<1>9. RingAndTableAgree'
  <2>1. InRing = Pending \cup expired /\ Pending \cap expired = {}
        /\ Distinct(cq)
    BY DEF IInv, RingAndTableAgree
  <2> QED BY <1>1, <1>2, <1>3, <1>4, <2>1 DEF RingAndTableAgree, Elems, Distinct
<1>10. CrashNeedsFailures'
  BY <1>2, <1>4 DEF IInv, CrashNeedsFailures
<1>11. AwaitsInv'
  <2> USE DEF Suspended, Started
  <2>1. \A g \in Handles : awaiting[g] < ioIndex
    BY DEF IInv, AwaitsInv
  <2>2. \A g \in Handles : awaiting'[g] < ioIndex'
    BY <1>1, <1>4, <1>6, <2>1
  <2>3. \A f, g \in Handles : Suspended(f)' /\ awaiting'[f] = awaiting'[g] => f = g
    <3> SUFFICES ASSUME NEW f \in Handles, NEW g \in Handles, Suspended(f)',
                        awaiting'[f] = awaiting'[g]
                 PROVE  f = g
      OBVIOUS
    <3>1. CASE f # h /\ g # h
      BY <1>6, <3>1 DEF IInv, AwaitsInv
    <3>2. CASE f = h \/ g = h
      BY <1>4, <1>6, <2>1, <3>2
    <3> QED BY <3>1, <3>2
  <2>4. \A g \in Handles : Suspended(g)' => Started(g)'
    <3>1. \A g \in Handles : Suspended(g) => Started(g)
      BY DEF IInv, AwaitsInv
    <3> SUFFICES ASSUME NEW g \in Handles, awaiting'[g] # 0 PROVE awaits'[g] > 0
      OBVIOUS
    <3>2. CASE g = h
      BY <1>4, <1>6, <3>2
    <3>3. CASE g # h
      BY <1>6, <3>1, <3>3
    <3> QED BY <3>2, <3>3
  <2>5. \A g \in finished' : Started(g)'
    BY <1>1, <1>4, <1>6 DEF IInv, AwaitsInv
  <2>6. \A g \in Elems(queue)' : ~Started(g)'
    BY <1>5, <1>6 DEF IInv, AwaitsInv
  <2>7. now' <= MaxTime
    BY <1>1 DEF IInv, AwaitsInv
  <2> QED BY <2>2, <2>3, <2>4, <2>5, <2>6, <2>7 DEF AwaitsInv, Elems
<1> QED BY <1>2, <1>7, <1>8, <1>9, <1>10, <1>11 DEF IInv

LEMMA StartIInv ==
  ASSUME IInv, NEW timeout \in Timeouts, StartCoroutine(timeout)
  PROVE  IInv'
<1> DEFINE h == Head(queue)
<1>1. queue \in Seq(Handles) /\ queue # <<>> /\ Distinct(queue) /\ ready \in Seq(Handles)
  BY DEF IInv, TypeOK, AwaitsInv, StartCoroutine
<1>2. /\ h \in Handles /\ h \in Elems(queue) /\ Tail(queue) \in Seq(Handles)
      /\ Elems(Tail(queue)) = Elems(queue) \ {h} /\ Distinct(Tail(queue))
  BY <1>1, TailElems
<1>3. ~Started(h) /\ h \notin finished /\ h \notin Elems(ready)
  BY <1>2, ReadyFacts DEF IInv, AwaitsInv
<1>4. \A id \in Pending : ioIndex2req[id] # h
  BY <1>2, PendingFacts
<1>5. /\ queue' = Tail(queue) /\ ready' = ready /\ phase' = phase /\ retCode' = retCode
      /\ Await(h, timeout)
  BY DEF StartCoroutine
<1>6. Distinct(ready)
  BY DEF IInv, OneAnswerPerAwait, Distinct
<1>7. /\ Elems(ready)' = Elems(ready) \ {h} /\ Distinct(ready)'
      /\ Elems(queue)' = Elems(queue) \ {h} /\ Distinct(queue)'
  <2>1. /\ Elems(ready)' = Elems(ready) /\ Distinct(ready)' = Distinct(ready)
        /\ Elems(queue)' = Elems(Tail(queue)) /\ Distinct(queue)' = Distinct(Tail(queue))
    BY <1>5 DEF Elems, Distinct
  <2> HIDE DEF h
  <2> QED BY <1>2, <1>3, <1>6, <2>1
<1> QED
  <2> HIDE DEF h
  <2> QED BY <1>1, <1>2, <1>3, <1>4, <1>5, <1>7, AwaitIInv

LEMMA ResumeToAwaitIInv ==
  ASSUME IInv, NEW timeout \in Timeouts, ResumeToAwait(timeout)
  PROVE  IInv'
<1> DEFINE h == Head(ready)
<1>1. ready \in Seq(Handles) /\ ready # <<>> /\ Distinct(ready) /\ queue \in Seq(Handles)
      /\ Distinct(queue)
  BY DEF IInv, TypeOK, OneAnswerPerAwait, AwaitsInv, ResumeToAwait, Distinct
<1>2. /\ h \in Handles /\ h \in Elems(ready) /\ Tail(ready) \in Seq(Handles)
      /\ Elems(Tail(ready)) = Elems(ready) \ {h} /\ Distinct(Tail(ready))
  BY <1>1, TailElems
<1>3. h \notin finished /\ h \notin Elems(queue) /\ \A id \in Pending : ioIndex2req[id] # h
  BY <1>2, ReadyFacts
<1>4. /\ ready' = Tail(ready) /\ queue' = queue /\ phase' = phase /\ retCode' = retCode
      /\ Await(h, timeout)
  BY DEF ResumeToAwait, NextReady
<1>5. /\ Elems(ready)' = Elems(ready) \ {h} /\ Distinct(ready)'
      /\ Elems(queue)' = Elems(queue) \ {h} /\ Distinct(queue)'
  <2>1. /\ Elems(ready)' = Elems(Tail(ready)) /\ Distinct(ready)' = Distinct(Tail(ready))
        /\ Elems(queue)' = Elems(queue) /\ Distinct(queue)' = Distinct(queue)
    BY <1>4 DEF Elems, Distinct
  <2> HIDE DEF h
  <2> QED BY <1>1, <1>2, <1>3, <2>1
<1> QED
  <2> HIDE DEF h
  <2> QED BY <1>1, <1>2, <1>3, <1>4, <1>5, AwaitIInv

\* Steps that only move the worker on, or end the process.
LEMMA PhaseIInv ==
  ASSUME IInv, phase' \in {"drain", "poll", "resume", "crashed"},
         phase' = "crashed" => failures >= UringSize,
         UNCHANGED <<queue, ready, ioIndex, ioIndex2req, deadline, now, ringVars, coroVars, history>>
  PROVE  IInv'
<1> USE DEF ringVars, coroVars, history
<1>1. TypeOK'
  BY DEF IInv, TypeOK, Pending, Ids
<1>2. OneAnswerPerAwait' /\ RingAndTableAgree' /\ CrashNeedsFailures'
  BY DEF IInv, OneAnswerPerAwait, RingAndTableAgree, CrashNeedsFailures, Pending, Suspended,
         Elems, InRing
<1>3. AwaitsInv' /\ SubmissionsInv'
  BY DEF IInv, AwaitsInv, SubmissionsInv, Suspended, Started, Elems, Distinct
<1> QED BY <1>1, <1>2, <1>3 DEF IInv

\* A full submission queue holds what as many failed submissions left in it.
LEMMA SqeIsNullIInv ==
  ASSUME IInv, NEW h, SqeIsNull(h)
  PROVE  IInv'
<1>1. failures >= UringSize
  BY DEF IInv, SubmissionsInv, SqeIsNull
<1> QED BY <1>1, PhaseIInv DEF SqeIsNull

LEMMA PollCompletedIInv ==
  ASSUME IInv, PollCompleted
  PROVE  IInv'
<1> DEFINE id == Head(cq)
           h == ioIndex2req[id]
<1>1. cq \in Seq(Ids) /\ cq # <<>> /\ Distinct(cq) /\ id \in Pending
      /\ ready \in Seq(Handles) /\ Distinct(ready)
  BY DEF IInv, TypeOK, RingAndTableAgree, OneAnswerPerAwait, PollCompleted, Distinct, Pending
<1>2. /\ id \in Elems(cq) /\ Tail(cq) \in Seq(Ids)
      /\ Elems(Tail(cq)) = Elems(cq) \ {id} /\ Distinct(Tail(cq))
  BY <1>1, TailElems
<1>3. /\ id \in Ids /\ h \in Handles /\ h \notin finished /\ h \notin Elems(ready)
      /\ h \notin Elems(queue) /\ awaiting[h] = id /\ id \notin expired /\ id \in Nat \ {0}
      /\ \A g \in Handles : awaiting[g] = id => g = h
  <2> HIDE DEF id
  <2> QED BY <1>1, PendingFacts
<1>4. /\ ready' = Append(ready, h) /\ cq' = Tail(cq)
      /\ retCode' = [retCode EXCEPT ![h] = "completed"]
      /\ ioIndex2req' = TS!Without(ioIndex2req, {id})
      /\ deadline' = TS!Without(deadline, {id})
      /\ UNCHANGED <<queue, phase, ioIndex, now, sq, inflight, awaiting, awaits, finished, history>>
  BY DEF PollCompleted, RemoveTimer, CqeSeen
<1>5. /\ ready' \in Seq(Handles) /\ Elems(ready)' = Elems(ready) \cup {h} /\ Distinct(ready)'
  <2>1. /\ Append(ready, h) \in Seq(Handles)
        /\ Elems(Append(ready, h)) = Elems(ready) \cup {h}
        /\ Distinct(Append(ready, h))
    <3> HIDE DEF h
    <3> QED BY <1>1, <1>3, AppendElems
  <2> QED BY <1>4, <2>1 DEF Elems, Distinct
<1>6. cq' \in Seq(Ids) /\ Elems(cq)' = Elems(cq) \ {id} /\ Distinct(cq)'
  BY <1>2, <1>4 DEF Elems, Distinct
<1>7. /\ Pending' = Pending \ {id}
      /\ \A k \in Pending' : ioIndex2req'[k] = ioIndex2req[k]
      /\ DOMAIN deadline' = DOMAIN deadline \ {id}
      /\ \A k \in DOMAIN deadline' : deadline'[k] = deadline[k]
  BY <1>4 DEF Pending, TS!Without
<1> HIDE DEF id, h
<1>8. TypeOK'
  <2>1. Ids' = Ids /\ Pending' \subseteq Ids /\ DOMAIN deadline' \subseteq Ids
        /\ (\A k \in Pending' : ioIndex2req'[k] \in Handles)
        /\ \A k \in DOMAIN deadline' : deadline'[k] \in Nat \ {0}
    BY <1>4, <1>7 DEF IInv, TypeOK, Ids
  <2>2. retCode' \in [Handles -> {"none", "completed", "expired"}]
    BY <1>4 DEF IInv, TypeOK
  <2> QED BY <1>4, <1>5, <1>6, <2>1, <2>2 DEF IInv, TypeOK, history
<1>9. OneAnswerPerAwait'
  <2>1. ASSUME NEW k \in Pending'
        PROVE  awaiting'[ioIndex2req'[k]] = k /\ ioIndex2req'[k] \notin Elems(ready)'
    <3>1. /\ k \in Pending /\ k # id /\ ioIndex2req'[k] = ioIndex2req[k]
          /\ awaiting[ioIndex2req[k]] = k /\ ioIndex2req[k] \notin Elems(ready)
      BY <1>7 DEF IInv, OneAnswerPerAwait
    <3> QED BY <1>3, <1>4, <1>5, <3>1
  <2>2. \A g \in Elems(ready)' : Suspended(g)'
    BY <1>3, <1>4, <1>5 DEF IInv, OneAnswerPerAwait, Suspended
  <2>3. \A g \in Handles : Suspended(g)' => g \in Elems(ready)' \/ awaiting'[g] \in Pending'
    BY <1>3, <1>4, <1>5, <1>7 DEF IInv, OneAnswerPerAwait, Suspended
  <2>4. \A g \in finished' : ~Suspended(g)'
    BY <1>4 DEF IInv, OneAnswerPerAwait, Suspended
  <2>5. DOMAIN deadline' \subseteq Pending'
    BY <1>7 DEF IInv, OneAnswerPerAwait
  <2> QED BY <1>5, <2>1, <2>2, <2>3, <2>4, <2>5 DEF OneAnswerPerAwait, Distinct
<1>10. RingAndTableAgree'
  <2>1. /\ InRing = Pending \cup expired /\ Pending \cap expired = {}
        /\ sq \cap inflight = {} /\ (sq \cup inflight) \cap Elems(cq) = {}
    BY DEF IInv, RingAndTableAgree
  <2>2. InRing' = InRing \ {id}
    BY <1>2, <1>4, <1>6, <2>1 DEF InRing
  <2> QED BY <1>2, <1>3, <1>4, <1>6, <1>7, <2>1, <2>2 DEF RingAndTableAgree, Distinct, history
<1>11. CrashNeedsFailures' /\ AwaitsInv' /\ SubmissionsInv'
  BY <1>4 DEF IInv, CrashNeedsFailures, AwaitsInv, SubmissionsInv, Suspended, Started, Elems,
              Distinct, history
<1> QED BY <1>8, <1>9, <1>10, <1>11 DEF IInv

\* What the loop over the expired keys finds: they are all recorded, and each
\* is the request of another coroutine.
LEMMA ExpiryFacts ==
  ASSUME IInv, NEW keys \in Listings(TS!Due \cap DOMAIN ioIndex2req)
  PROVE  LET hs == [i \in 1 .. Len(keys) |-> ioIndex2req[keys[i]]]
         IN /\ Elems(keys) = TS!Due /\ TS!Due \subseteq Pending
            /\ hs \in Seq(Handles)
            /\ Elems(hs) = {ioIndex2req[k] : k \in TS!Due}
            /\ Distinct(hs)
            /\ Elems(hs) \cap Elems(ready) = {}
<1> DEFINE hs == [i \in 1 .. Len(keys) |-> ioIndex2req[keys[i]]]
<1>1. TS!Due \subseteq DOMAIN deadline /\ DOMAIN deadline \subseteq Pending
  BY DEF TS!Due, IInv, OneAnswerPerAwait
<1>2. TS!Due \cap DOMAIN ioIndex2req = TS!Due
  BY <1>1 DEF Pending
<1>3. /\ keys \in Seq(TS!Due)
      /\ \A x \in TS!Due : \E i \in 1 .. Len(keys) : keys[i] = x
      /\ \A i, j \in 1 .. Len(keys) : keys[i] = keys[j] => i = j
  BY <1>2 DEF Listings, TS!IsListing
<1> HIDE DEF hs
<1>4. Len(keys) \in Nat /\ \A i \in 1 .. Len(keys) : keys[i] \in TS!Due
  BY <1>3
<1>5. Elems(keys) = TS!Due
  BY <1>3, <1>4 DEF Elems
<1>6. \A k \in TS!Due : /\ ioIndex2req[k] \in Handles /\ awaiting[ioIndex2req[k]] = k
                        /\ ioIndex2req[k] \notin Elems(ready)
  BY <1>1, PendingFacts
<1>7. hs \in Seq(Handles) /\ Len(hs) = Len(keys)
      /\ \A i \in 1 .. Len(keys) : hs[i] = ioIndex2req[keys[i]]
  BY <1>4, <1>6 DEF hs
<1>8. Elems(hs) = {ioIndex2req[k] : k \in TS!Due}
  BY <1>3, <1>4, <1>7 DEF Elems
<1>9. Distinct(hs)
  <2> SUFFICES ASSUME NEW i \in 1 .. Len(keys), NEW j \in 1 .. Len(keys), hs[i] = hs[j]
               PROVE  i = j
    BY <1>7 DEF Distinct
  <2>1. keys[i] = keys[j]
    BY <1>4, <1>6, <1>7
  <2> QED BY <1>3, <2>1
<1>10. Elems(hs) \cap Elems(ready) = {}
  BY <1>6, <1>8
<1> QED BY <1>1, <1>5, <1>7, <1>8, <1>9, <1>10 DEF hs

LEMMA PollTimeoutIInv ==
  ASSUME IInv, PollTimeout
  PROVE  IInv'
<1>1. PICK keys \in Listings(TS!Due \cap DOMAIN ioIndex2req) :
        LET late == {ioIndex2req[k] : k \in Elems(keys)}
        IN /\ ready' = ready \o [i \in 1 .. Len(keys) |-> ioIndex2req[keys[i]]]
           /\ retCode' = [h \in Handles |-> IF h \in late THEN "expired" ELSE retCode[h]]
           /\ EraseExpired(Elems(keys))
           /\ expired' = expired \cup Elems(keys)
           /\ deadline' = TS!Without(deadline, TS!Due)
  BY DEF PollTimeout
<1> DEFINE hs == [i \in 1 .. Len(keys) |-> ioIndex2req[keys[i]]]
           late == {ioIndex2req[k] : k \in TS!Due}
<1>2. /\ Elems(keys) = TS!Due /\ TS!Due \subseteq Pending
      /\ hs \in Seq(Handles) /\ Elems(hs) = late /\ Distinct(hs)
      /\ late \cap Elems(ready) = {}
  BY ExpiryFacts
<1>3. /\ ready' = ready \o hs
      /\ retCode' = [h \in Handles |-> IF h \in late THEN "expired" ELSE retCode[h]]
      /\ ioIndex2req' = TS!Without(ioIndex2req, TS!Due)
      /\ expired' = expired \cup TS!Due
      /\ deadline' = TS!Without(deadline, TS!Due)
  BY <1>1, <1>2 DEF EraseExpired
<1> HIDE DEF hs
<1>4. /\ phase' = "resume"
      /\ UNCHANGED <<queue, ioIndex, now, ringVars, awaiting, awaits, finished, failures>>
  BY DEF PollTimeout
<1>5. ready' \in Seq(Handles) /\ Elems(ready)' = Elems(ready) \cup late /\ Distinct(ready)'
  <2>1. ready \in Seq(Handles) /\ Distinct(ready)
    BY DEF IInv, TypeOK, OneAnswerPerAwait, Distinct
  <2>2. /\ ready \o hs \in Seq(Handles) /\ Elems(ready \o hs) = Elems(ready) \cup late
        /\ Distinct(ready \o hs)
    BY <1>2, <2>1, ConcatElems
  <2> QED BY <1>3, <2>2 DEF Elems, Distinct
<1>6. /\ Pending' = Pending \ TS!Due
      /\ \A k \in Pending' : ioIndex2req'[k] = ioIndex2req[k]
      /\ DOMAIN deadline' = DOMAIN deadline \ TS!Due
      /\ \A k \in DOMAIN deadline' : deadline'[k] = deadline[k]
  BY <1>3 DEF Pending, TS!Without
<1>7. Pending \subseteq Ids /\ \A k \in Pending :
        /\ ioIndex2req[k] \in Handles /\ awaiting[ioIndex2req[k]] = k /\ k \in Nat \ {0}
        /\ ioIndex2req[k] \notin Elems(ready) /\ ioIndex2req[k] \notin finished
        /\ \A g \in Handles : awaiting[g] = k => g = ioIndex2req[k]
  BY PendingFacts
<1>8. TypeOK'
  <2>1. Ids' = Ids /\ Pending' \subseteq Ids /\ DOMAIN deadline' \subseteq Ids
        /\ (\A k \in Pending' : ioIndex2req'[k] \in Handles)
        /\ (\A k \in DOMAIN deadline' : deadline'[k] \in Nat \ {0})
        /\ expired' \subseteq Ids
    BY <1>2, <1>3, <1>4, <1>6, <1>7 DEF IInv, TypeOK, Ids
  <2>2. retCode' \in [Handles -> {"none", "completed", "expired"}]
    BY <1>3 DEF IInv, TypeOK
  <2> QED BY <1>4, <1>5, <2>1, <2>2 DEF IInv, TypeOK, ringVars
<1>9. OneAnswerPerAwait'
  <2>1. ASSUME NEW k \in Pending'
        PROVE  awaiting'[ioIndex2req'[k]] = k /\ ioIndex2req'[k] \notin Elems(ready)'
    BY <1>2, <1>4, <1>5, <1>6, <1>7
  <2>2. \A g \in Elems(ready)' : Suspended(g)'
    BY <1>2, <1>4, <1>5, <1>7 DEF IInv, OneAnswerPerAwait, Suspended
  <2>3. \A g \in Handles : Suspended(g)' => g \in Elems(ready)' \/ awaiting'[g] \in Pending'
    BY <1>4, <1>5, <1>6, <1>7 DEF IInv, OneAnswerPerAwait, Suspended
  <2>4. \A g \in finished' : ~Suspended(g)'
    BY <1>4 DEF IInv, OneAnswerPerAwait, Suspended
  <2>5. DOMAIN deadline' \subseteq Pending'
    BY <1>6 DEF IInv, OneAnswerPerAwait
  <2> QED BY <1>5, <2>1, <2>2, <2>3, <2>4, <2>5 DEF OneAnswerPerAwait, Distinct
<1>10. RingAndTableAgree'
  <2>1. InRing' = InRing /\ Elems(cq)' = Elems(cq)
    BY <1>4 DEF InRing, Elems, ringVars
  <2> QED BY <1>2, <1>3, <1>4, <1>6, <2>1 DEF IInv, RingAndTableAgree, ringVars
<1>11. CrashNeedsFailures' /\ AwaitsInv' /\ SubmissionsInv'
  BY <1>4 DEF IInv, CrashNeedsFailures, AwaitsInv, SubmissionsInv, Suspended, Started, Elems,
              Distinct, ringVars
<1> QED BY <1>8, <1>9, <1>10, <1>11 DEF IInv

LEMMA ResumeToEndIInv ==
  ASSUME IInv, ResumeToEnd
  PROVE  IInv'
<1> DEFINE h == Head(ready)
<1>1. ready \in Seq(Handles) /\ ready # <<>> /\ Distinct(ready)
  BY DEF IInv, TypeOK, OneAnswerPerAwait, ResumeToEnd, Distinct
<1>2. /\ h \in Handles /\ h \in Elems(ready) /\ Tail(ready) \in Seq(Handles)
      /\ Elems(Tail(ready)) = Elems(ready) \ {h} /\ Distinct(Tail(ready))
  BY <1>1, TailElems
<1> HIDE DEF h
<1>3. h \notin finished /\ Started(h) /\ \A id \in Pending : ioIndex2req[id] # h
  BY <1>2, ReadyFacts
<1>4. /\ ready' = Tail(ready) /\ finished' = finished \cup {h}
      /\ awaiting' = [awaiting EXCEPT ![h] = 0]
      /\ UNCHANGED <<queue, phase, ioIndex, ioIndex2req, deadline, now, ringVars, retCode, awaits, history>>
  BY DEF ResumeToEnd, NextReady, h
<1>5. ready' \in Seq(Handles) /\ Elems(ready)' = Elems(ready) \ {h} /\ Distinct(ready)'
  BY <1>2, <1>4 DEF Elems, Distinct
<1>6. /\ awaiting \in [Handles -> Nat] /\ awaiting' \in [Handles -> Nat]
      /\ awaiting'[h] = 0 /\ \A g \in Handles \ {h} : awaiting'[g] = awaiting[g]
  BY <1>2, <1>4 DEF IInv, TypeOK
<1>7. TypeOK'
  <2>1. Ids' = Ids /\ Pending' = Pending
    BY <1>4 DEF Ids, Pending
  <2> QED BY <1>2, <1>4, <1>5, <1>6, <2>1 DEF IInv, TypeOK, ringVars, history
<1>8. OneAnswerPerAwait'
  <2>1. ASSUME NEW k \in Pending'
        PROVE  awaiting'[ioIndex2req'[k]] = k /\ ioIndex2req'[k] \notin Elems(ready)'
    <3>1. k \in Pending /\ ioIndex2req'[k] = ioIndex2req[k] /\ ioIndex2req[k] # h
      BY <1>3, <1>4 DEF Pending
    <3> QED BY <1>5, <1>6, <3>1, PendingFacts
  <2>2. \A g \in Elems(ready)' : Suspended(g)'
    BY <1>2, <1>5, <1>6, ReadyFacts DEF Suspended
  <2>3. \A g \in Handles : Suspended(g)' => g \in Elems(ready)' \/ awaiting'[g] \in Pending'
    BY <1>4, <1>5, <1>6 DEF IInv, OneAnswerPerAwait, Suspended, Pending
  <2>4. \A g \in finished' : ~Suspended(g)'
    BY <1>4, <1>6 DEF IInv, TypeOK, OneAnswerPerAwait, Suspended
  <2>5. DOMAIN deadline' \subseteq Pending'
    BY <1>4 DEF IInv, OneAnswerPerAwait, Pending
  <2> QED BY <1>5, <2>1, <2>2, <2>3, <2>4, <2>5 DEF OneAnswerPerAwait, Distinct
<1>9. RingAndTableAgree' /\ CrashNeedsFailures' /\ SubmissionsInv'
  BY <1>4 DEF IInv, RingAndTableAgree, CrashNeedsFailures, SubmissionsInv, InRing, Pending,
              Elems, ringVars, history
<1>10. AwaitsInv'
  <2> USE DEF Suspended, Started
  <2>1. \A g \in Handles : awaiting'[g] < ioIndex'
    BY <1>4, <1>6 DEF IInv, TypeOK, AwaitsInv
  <2>2. \A f, g \in Handles : Suspended(f)' /\ awaiting'[f] = awaiting'[g] => f = g
    BY <1>6 DEF IInv, AwaitsInv
  <2>3. \A g \in Handles : Suspended(g)' => Started(g)'
    BY <1>4, <1>6 DEF IInv, AwaitsInv
  <2>4. \A g \in finished' : Started(g)'
    BY <1>3, <1>4 DEF IInv, AwaitsInv
  <2>5. (\A g \in Elems(queue)' : ~Started(g)') /\ Distinct(queue)' /\ now' <= MaxTime
    BY <1>4 DEF IInv, AwaitsInv, Elems, Distinct
  <2> QED BY <2>1, <2>2, <2>3, <2>4, <2>5 DEF AwaitsInv
<1> QED BY <1>7, <1>8, <1>9, <1>10 DEF IInv

LEMMA AcceptIInv ==
  ASSUME IInv, NEW h \in Handles, Accept(h)
  PROVE  IInv'
<1>1. /\ queue \in Seq(Handles) /\ Distinct(queue) /\ h \notin Elems(queue) /\ ~Started(h)
      /\ queue' = Append(queue, h)
      /\ UNCHANGED <<phase, ready, ioIndex, ioIndex2req, deadline, now, ringVars, coroVars, history>>
  BY DEF IInv, TypeOK, AwaitsInv, Accept
<1>2. queue' \in Seq(Handles) /\ Elems(queue)' = Elems(queue) \cup {h} /\ Distinct(queue)'
  <2>1. /\ Append(queue, h) \in Seq(Handles) /\ Elems(Append(queue, h)) = Elems(queue) \cup {h}
        /\ Distinct(Append(queue, h))
    BY <1>1, AppendElems
  <2> QED BY <1>1, <2>1 DEF Elems, Distinct
<1>3. TypeOK'
  BY <1>1, <1>2 DEF IInv, TypeOK, Ids, Pending, ringVars, coroVars, history
<1>4. OneAnswerPerAwait'
  BY <1>1 DEF IInv, OneAnswerPerAwait, Pending, Elems, Suspended, coroVars
<1>5. RingAndTableAgree' /\ CrashNeedsFailures' /\ SubmissionsInv'
  BY <1>1 DEF IInv, RingAndTableAgree, CrashNeedsFailures, SubmissionsInv, InRing, Pending,
              Elems, ringVars, history
<1>6. AwaitsInv'
  BY <1>1, <1>2 DEF IInv, AwaitsInv, Suspended, Started, coroVars
<1> QED BY <1>3, <1>4, <1>5, <1>6 DEF IInv

LEMMA KernelCompleteIInv ==
  ASSUME IInv, NEW id \in inflight, KernelComplete(id)
  PROVE  IInv'
<1>1. /\ cq \in Seq(Ids) /\ Distinct(cq) /\ id \in Ids /\ id \notin Elems(cq) /\ id \notin sq
      /\ inflight' = inflight \ {id} /\ cq' = Append(cq, id)
      /\ UNCHANGED <<queue, phase, ready, ioIndex, ioIndex2req, deadline, now, sq, coroVars, history>>
  BY DEF IInv, TypeOK, RingAndTableAgree, KernelComplete, Distinct
<1>2. cq' \in Seq(Ids) /\ Elems(cq)' = Elems(cq) \cup {id} /\ Distinct(cq)'
  <2>1. /\ Append(cq, id) \in Seq(Ids) /\ Elems(Append(cq, id)) = Elems(cq) \cup {id}
        /\ Distinct(Append(cq, id))
    BY <1>1, AppendElems
  <2> QED BY <1>1, <2>1 DEF Elems, Distinct
<1>3. TypeOK'
  <2>1. Ids' = Ids /\ Pending' = Pending
    BY <1>1 DEF Ids, Pending
  <2> QED BY <1>1, <1>2, <2>1 DEF IInv, TypeOK, coroVars, history
<1>4. RingAndTableAgree'
  <2>1. InRing' = InRing /\ Pending' = Pending /\ expired' = expired /\ sq' = sq
    BY <1>1, <1>2 DEF InRing, Pending, history
  <2> QED BY <1>1, <1>2, <2>1 DEF IInv, RingAndTableAgree, Distinct
<1>5. OneAnswerPerAwait' /\ CrashNeedsFailures' /\ SubmissionsInv' /\ AwaitsInv'
  BY <1>1 DEF IInv, OneAnswerPerAwait, CrashNeedsFailures, SubmissionsInv, AwaitsInv,
              Pending, Elems, Distinct, Suspended, Started, coroVars, history
<1> QED BY <1>3, <1>4, <1>5 DEF IInv

LEMMA TickIInv ==
  ASSUME IInv, Tick
  PROVE  IInv'
<1> USE UringAssumption DEF Tick, ringVars, coroVars, history
<1>1. TypeOK'
  BY DEF IInv, TypeOK, Ids, Pending
<1>2. OneAnswerPerAwait'
  BY DEF IInv, OneAnswerPerAwait, Pending, Elems, Suspended
<1>3. RingAndTableAgree' /\ CrashNeedsFailures' /\ SubmissionsInv'
  BY DEF IInv, RingAndTableAgree, CrashNeedsFailures, SubmissionsInv, InRing, Pending, Elems
<1>4. now' <= MaxTime
  BY DEF IInv, TypeOK
<1>5. AwaitsInv'
  BY <1>4 DEF IInv, AwaitsInv, Elems, Distinct, Suspended, Started
<1> QED BY <1>1, <1>2, <1>3, <1>5 DEF IInv

\* The worker starts a coroutine exactly when it takes its connection.
LEMMA WorkerStarts ==
  ASSUME IInv, Worker
  PROVE  \/ /\ queue # <<>> /\ queue' = Tail(queue)
            /\ \A g \in Handles : Started(g)' <=> Started(g) \/ g = Head(queue)
         \/ /\ queue' = queue
            /\ \A g \in Handles : Started(g)' <=> Started(g)
<1>1. ASSUME NEW h \in Handles, NEW timeout \in Timeouts, Await(h, timeout)
      PROVE  \A g \in Handles : Started(g)' <=> Started(g) \/ g = h
  <2>1. /\ awaits \in [Handles -> 0 .. MaxAwaits] /\ MaxAwaits \in Nat
        /\ awaits' = [awaits EXCEPT ![h] = @ + 1]
    BY <1>1, UringAssumption DEF IInv, TypeOK, Await
  <2> QED BY <2>1 DEF Started
<1>2. ASSUME NEW timeout \in Timeouts, StartCoroutine(timeout)
      PROVE  /\ queue # <<>> /\ queue' = Tail(queue)
             /\ \A g \in Handles : Started(g)' <=> Started(g) \/ g = Head(queue)
  <2>1. /\ queue # <<>> /\ queue' = Tail(queue) /\ Await(Head(queue), timeout)
        /\ queue \in Seq(Handles)
    BY <1>2 DEF StartCoroutine, IInv, TypeOK
  <2>2. Head(queue) \in Handles
    BY <2>1, HeadTailProperties
  <2> QED BY <1>1, <2>1, <2>2
<1>3. ASSUME NEW timeout \in Timeouts, ResumeToAwait(timeout)
      PROVE  queue' = queue /\ \A g \in Handles : Started(g)' <=> Started(g)
  <2>1. /\ ready # <<>> /\ queue' = queue /\ Await(Head(ready), timeout)
        /\ ready \in Seq(Handles) /\ Distinct(ready)
    BY <1>3 DEF ResumeToAwait, IInv, TypeOK, OneAnswerPerAwait
  <2>2. Head(ready) \in Handles /\ Head(ready) \in Elems(ready)
    BY <2>1, TailElems
  <2>3. Started(Head(ready))
    BY <2>2, ReadyFacts
  <2> QED BY <1>1, <2>1, <2>2, <2>3
<1>4. CASE UNCHANGED <<queue, awaits>>
  BY <1>4 DEF Started
<1>5. CASE StartCrashes \/ DrainDone \/ PollCompleted \/ PollStale
  BY <1>4, <1>5 DEF StartCrashes, SqeIsNull, DrainDone, PollCompleted, PollStale, vars, coroVars
<1>6. CASE PollTimeout \/ ResumeCrashes \/ ResumeToEnd \/ ResumeDone
  BY <1>4, <1>6 DEF PollTimeout, ResumeCrashes, SqeIsNull, ResumeToEnd, ResumeDone, coroVars
<1> QED BY <1>2, <1>3, <1>5, <1>6 DEF Worker

LEMMA NextIInv == IInv /\ [Next]_vars => IInv'
<1> SUFFICES ASSUME IInv, [Next]_vars PROVE IInv'
  OBVIOUS
<1>1. ASSUME NEW timeout \in Timeouts, StartCoroutine(timeout) PROVE IInv'
  BY <1>1, StartIInv
<1>2. CASE StartCrashes
  BY <1>2, SqeIsNullIInv DEF StartCrashes
<1>3. CASE DrainDone
  BY <1>3, PhaseIInv DEF DrainDone
<1>4. CASE PollCompleted
  BY <1>4, PollCompletedIInv
<1>5. CASE UNCHANGED vars
  <2>1. phase' \in {"drain", "poll", "resume", "crashed"} /\ (phase' = "crashed" => failures >= UringSize)
    BY <1>5 DEF vars, IInv, TypeOK, CrashNeedsFailures
  <2> QED BY <1>5, <2>1, PhaseIInv DEF vars
<1>6. CASE PollTimeout
  BY <1>6, PollTimeoutIInv
<1>7. ASSUME NEW timeout \in Timeouts, ResumeToAwait(timeout) PROVE IInv'
  BY <1>7, ResumeToAwaitIInv
<1>8. CASE ResumeCrashes
  BY <1>8, SqeIsNullIInv DEF ResumeCrashes
<1>9. CASE ResumeToEnd
  BY <1>9, ResumeToEndIInv
<1>10. CASE ResumeDone
  BY <1>10, PhaseIInv DEF ResumeDone
<1>11. ASSUME NEW h \in Handles, Accept(h) PROVE IInv'
  BY <1>11, AcceptIInv
<1>12. ASSUME NEW id \in inflight, KernelComplete(id) PROVE IInv'
  BY <1>12, KernelCompleteIInv
<1>13. CASE Tick
  BY <1>13, TickIInv
<1>14. PollStale => UNCHANGED vars
  BY DEF PollStale
<1> QED
  BY <1>1, <1>2, <1>3, <1>4, <1>5, <1>6, <1>7, <1>8, <1>9, <1>10, <1>11, <1>12, <1>13, <1>14
     DEF Next, Worker

\* The inductive invariant holds in every reachable state.
THEOREM IInvHolds == Spec => []IInv
BY InitIInv, NextIInv, PTL DEF Spec

\* The types, and that each io id in the table or in the ring was handed out.
THEOREM TypeCorrect == Spec => []TypeOK
BY IInvHolds, PTL DEF IInv

\* A suspended coroutine is recorded as pending or waits to be resumed with its
\* answer, never both and never twice, and an answer takes the timer with it,
\* whatever completes late and whichever submissions fail.
THEOREM OneAnswerPerAwaitHolds == Spec => []OneAnswerPerAwait
BY IInvHolds, PTL DEF IInv

\* What is recorded is in the ring once, and what else is in the ring is expired.
THEOREM RingAndTableAgreeHolds == Spec => []RingAndTableAgree
BY IInvHolds, PTL DEF IInv

\* The process ends on the unchecked NULL of io_uring_get_sqe only after as many
\* submissions failed as the ring has entries, however many coroutines there are.
THEOREM CrashNeedsFailuresHolds == Spec => []CrashNeedsFailures
BY IInvHolds, PTL DEF IInv

\* No step removes the completion of an expired request from the head of the queue,
\* and with it there none leaves poll.
LEMMA StuckStep ==
  ASSUME IInv, [Next]_vars, Stuck
  PROVE  Stuck' /\ (phase = "poll" => phase' = "poll")
<1>1. /\ cq \in Seq(Ids) /\ cq # <<>> /\ Head(cq) \in expired /\ Head(cq) \notin Pending
  BY DEF IInv, TypeOK, Stuck, RingAndTableAgree
<1>2. ASSUME UNCHANGED <<cq, expired>>, phase = "poll" => phase' = "poll"
      PROVE  Stuck' /\ (phase = "poll" => phase' = "poll")
  BY <1>2 DEF Stuck
<1>3. CASE (\E timeout \in Timeouts : StartCoroutine(timeout) \/ ResumeToAwait(timeout))
  BY <1>2, <1>3 DEF StartCoroutine, ResumeToAwait, Await
<1>4. CASE StartCrashes \/ ResumeCrashes \/ DrainDone
  BY <1>2, <1>4 DEF StartCrashes, ResumeCrashes, SqeIsNull, DrainDone, ringVars, history
<1>5. CASE ResumeToEnd \/ ResumeDone
  BY <1>2, <1>5 DEF ResumeToEnd, ResumeDone, ringVars, history
<1>6. CASE PollCompleted \/ PollTimeout
  BY <1>1, <1>6 DEF PollCompleted, PollTimeout, Pending
<1>7. CASE PollStale \/ UNCHANGED vars
  BY <1>2, <1>7 DEF PollStale, vars, ringVars, history
<1>8. CASE Tick \/ \E h \in Handles : Accept(h)
  BY <1>2, <1>8 DEF Tick, Accept, ringVars, history
<1>9. ASSUME NEW id \in inflight, KernelComplete(id)
      PROVE  Stuck' /\ (phase = "poll" => phase' = "poll")
  <2>1. id \in Ids /\ cq' = Append(cq, id) /\ UNCHANGED <<phase, expired>>
    BY <1>9 DEF KernelComplete, IInv, TypeOK, history
  <2>2. cq' # <<>> /\ Head(cq') = Head(cq)
    BY <1>1, <2>1
  <2> QED BY <1>1, <2>1, <2>2 DEF Stuck
<1> QED BY <1>3, <1>4, <1>5, <1>6, <1>7, <1>8, <1>9 DEF Next, Worker

\* Once the completion of an expired request is at the head of the queue while the
\* worker polls, it is there for ever and the worker polls for ever, for any
\* coroutines and timeouts and whatever completes later: the loop of core.cpp:85
\* does not get over it.
THEOREM StuckForEver ==
  Spec => [](phase = "poll" /\ Stuck => [](phase = "poll" /\ Stuck))
<1>1. IInv /\ [Next]_vars /\ (phase = "poll" /\ Stuck) => (phase = "poll" /\ Stuck)'
  BY StuckStep
<1> QED BY <1>1, IInvHolds, PTL DEF Spec

\* Nothing else holds poll: any other completion it looks at is of a request that
\* is recorded, and is taken.
THEOREM OnlyStuckIsStale ==
  Spec => [](cq # <<>> => (Head(cq) \notin Pending <=> Stuck))
<1>1. IInv => (cq # <<>> => (Head(cq) \notin Pending <=> Stuck))
  <2> SUFFICES ASSUME IInv, cq # <<>> PROVE Head(cq) \notin Pending <=> Stuck
    OBVIOUS
  <2>1. cq \in Seq(Ids) /\ Distinct(cq)
    BY DEF IInv, TypeOK, RingAndTableAgree
  <2>2. Head(cq) \in Elems(cq)
    BY <2>1, TailElems
  <2> QED BY <2>2 DEF IInv, RingAndTableAgree, InRing, Stuck
<1> QED BY <1>1, IInvHolds, PTL

\* A program that sets no timeouts, as static_web_http, never gets stuck.
THEOREM UntimedNeverStuck == Timeouts \subseteq {0} /\ Spec => []~Stuck
<1> DEFINE NoneArmed == DOMAIN deadline = {} /\ expired = {}
<1>1. Init => NoneArmed
  BY DEF Init
<1>2. ASSUME Timeouts \subseteq {0}, NoneArmed, [Next]_vars PROVE NoneArmed'
  <2>1. ASSUME NEW h, NEW timeout \in Timeouts, Await(h, timeout) PROVE NoneArmed'
    <3>1. timeout = 0
      BY <1>2
    <3>2. deadline' = deadline /\ expired' = expired
      BY <2>1, <3>1 DEF Await, ArmTimer
    <3> QED BY <1>2, <3>2
  <2>2. CASE (\E timeout \in Timeouts : StartCoroutine(timeout) \/ ResumeToAwait(timeout))
    BY <2>1, <2>2 DEF StartCoroutine, ResumeToAwait
  <2>3. CASE PollCompleted
    BY <1>2, <2>3 DEF PollCompleted, RemoveTimer, TS!Without, history
  <2>4. CASE PollTimeout
    <3>1. PICK keys \in Listings(TS!Due \cap DOMAIN ioIndex2req) :
            /\ expired' = expired \cup Elems(keys)
            /\ deadline' = TS!Without(deadline, TS!Due)
      BY <2>4 DEF PollTimeout
    <3>2. TS!Due \cap DOMAIN ioIndex2req = {}
      BY <1>2 DEF TS!Due
    <3>3. Elems(keys) = {}
      BY <3>1, <3>2, FS_EmptySet DEF Listings, Elems
    <3> QED BY <1>2, <3>1, <3>3 DEF TS!Without
  <2>5. CASE UNCHANGED <<deadline, expired>>
    BY <1>2, <2>5
  <2>6. CASE StartCrashes \/ ResumeCrashes \/ DrainDone
    BY <2>5, <2>6 DEF StartCrashes, ResumeCrashes, SqeIsNull, DrainDone, history
  <2>7. CASE ResumeToEnd \/ ResumeDone \/ PollStale \/ UNCHANGED vars
    BY <2>5, <2>7 DEF ResumeToEnd, ResumeDone, PollStale, vars, history
  <2>8. CASE Tick \/ (\E h \in Handles : Accept(h)) \/ \E id \in inflight : KernelComplete(id)
    BY <2>5, <2>8 DEF Tick, Accept, KernelComplete, history
  <2> QED BY <1>2, <2>2, <2>3, <2>4, <2>6, <2>7, <2>8 DEF Next, Worker
<1>3. NoneArmed => ~Stuck
  BY DEF Stuck
<1>4. Timeouts \subseteq {0} => (NoneArmed /\ [Next]_vars => NoneArmed')
  BY <1>2
<1> SUFFICES ASSUME Timeouts \subseteq {0} PROVE Spec => []~Stuck
  OBVIOUS
<1>5. NoneArmed /\ [Next]_vars => NoneArmed'
  BY <1>4
<1> QED BY <1>1, <1>3, <1>5, PTL DEF Spec

------------------------------------------------------------------------------
(* The worker implements AsyncIo *)

Stat == [h \in Handles |-> Status(h)]
Answ == [h \in Handles |-> Answer(h)]
Dues == [h \in Handles |-> DueAt(h)]

IsPending(h) == \E id \in Pending : ioIndex2req[id] = h

\* The cases of Status exclude each other.
LEMMA StatusFacts ==
  ASSUME IInv, NEW h \in Handles
  PROVE  /\ h \in Elems(ready) => Status(h) = "answered"
         /\ IsPending(h) => Status(h) = "pending"
         /\ h \in Elems(queue) => Status(h) = "queued"
         /\ ~Started(h) /\ h \notin Elems(queue) => Status(h) = "new"
         /\ h \notin Elems(ready) => Answer(h) = "none"
<1>1. h \in Elems(ready) => Status(h) = "answered"
  BY ReadyFacts DEF Status
<1>2. IsPending(h) => Status(h) = "pending"
  BY PendingFacts DEF Status, IsPending
<1>3. ~Started(h) => h \notin finished /\ h \notin Elems(ready) /\ ~IsPending(h)
  <2>1. h \in finished => Started(h)
    BY DEF IInv, AwaitsInv
  <2>2. h \in Elems(ready) => Started(h)
    BY ReadyFacts
  <2>3. IsPending(h) => Suspended(h)
    BY PendingFacts DEF IsPending, Suspended
  <2> QED BY <2>1, <2>2, <2>3 DEF IInv, AwaitsInv
<1>4. h \in Elems(queue) => ~Started(h)
  BY DEF IInv, AwaitsInv
<1> QED BY <1>1, <1>2, <1>3, <1>4 DEF Status, Answer, IsPending

\* What neither returns, gets an answer, is recorded nor is queued in a step
\* stays as far as it is.
LEMMA SameStatus ==
  ASSUME NEW h \in Handles,
         (h \in finished)' <=> h \in finished,
         (h \in Elems(ready))' <=> h \in Elems(ready),
         IsPending(h)' <=> IsPending(h),
         (h \in Elems(queue))' <=> h \in Elems(queue)
  PROVE  Status(h)' = Status(h)
BY DEF Status, IsPending

LEMMA AwaitStep ==
  ASSUME IInv, NEW h \in Handles, NEW timeout \in Timeouts, Await(h, timeout),
         h \notin finished, \A id \in Pending : ioIndex2req[id] # h,
         Elems(ready)' = Elems(ready) \ {h}, Elems(queue)' = Elems(queue) \ {h},
         retCode' = retCode, Status(h) \in {"queued", "answered"}
  PROVE  Io!Await(h)
<1>1. /\ Pending' = Pending \cup {ioIndex}
      /\ ioIndex2req'[ioIndex] = h
      /\ \A id \in Pending : ioIndex2req'[id] = ioIndex2req[id]
      /\ ioIndex \notin Pending /\ ioIndex \notin DOMAIN deadline
      /\ DOMAIN deadline' = DOMAIN deadline \cup (IF timeout > 0 THEN {ioIndex} ELSE {})
      /\ timeout > 0 => deadline'[ioIndex] = now + timeout
      /\ \A id \in DOMAIN deadline : deadline'[id] = deadline[id]
  BY RecordFacts
<1>2. /\ now' = now /\ finished' = finished
      /\ awaiting' = [awaiting EXCEPT ![h] = ioIndex]
      /\ awaiting \in [Handles -> Nat] /\ ioIndex \in Nat
      /\ \A g \in Handles : awaiting[g] < ioIndex
  BY DEF Await, IInv, TypeOK, AwaitsInv
<1>3. Status(h)' = "pending"
  BY <1>1, <1>2 DEF Status
<1>4. ASSUME NEW g \in Handles \ {h}
      PROVE  Status(g)' = Status(g) /\ Answer(g)' = Answer(g) /\ DueAt(g)' = DueAt(g)
  <2>1. IsPending(g)' <=> IsPending(g)
    BY <1>1 DEF IsPending
  <2>2. (g \in Elems(ready))' <=> g \in Elems(ready)
    OBVIOUS
  <2>3. Status(g)' = Status(g)
    BY <1>2, <2>1, <2>2, SameStatus
  <2>4. Answer(g)' = Answer(g)
    BY <2>2 DEF Answer
  <2>5. awaiting'[g] = awaiting[g] /\ awaiting[g] # ioIndex
    BY <1>2
  <2>6. DueAt(g)' = DueAt(g)
    BY <1>1, <2>5 DEF DueAt
  <2> QED BY <2>3, <2>4, <2>6
<1>5. Answer(h)' = "none"
  BY DEF Answer
<1>6. DueAt(h)' = IF timeout > 0 THEN now + timeout ELSE 0
  BY <1>1, <1>2 DEF DueAt
<1>7. Stat' = [Stat EXCEPT ![h] = "pending"]
  BY <1>3, <1>4 DEF Stat
<1>8. Answ' = [Answ EXCEPT ![h] = "none"]
  BY <1>4, <1>5 DEF Answ
<1>9. Dues' = [Dues EXCEPT ![h] = IF timeout > 0 THEN now + timeout ELSE 0]
  BY <1>4, <1>6 DEF Dues
<1> QED BY <1>2, <1>7, <1>8, <1>9 DEF Io!Await, Io!Move, Stat, Answ, Dues

LEMMA StartStep ==
  ASSUME IInv, NEW timeout \in Timeouts, StartCoroutine(timeout)
  PROVE  \E h \in Handles : Io!Await(h)
<1> DEFINE h == Head(queue)
<1>1. queue \in Seq(Handles) /\ queue # <<>> /\ Distinct(queue)
  BY DEF IInv, TypeOK, AwaitsInv, StartCoroutine
<1>2. /\ h \in Handles /\ h \in Elems(queue) /\ Elems(Tail(queue)) = Elems(queue) \ {h}
  BY <1>1, TailElems
<1>3. h \notin finished /\ h \notin Elems(ready)
  BY <1>2, ReadyFacts DEF IInv, AwaitsInv
<1>4. \A id \in Pending : ioIndex2req[id] # h
  BY <1>2, PendingFacts
<1>5. queue' = Tail(queue) /\ ready' = ready /\ retCode' = retCode /\ Await(h, timeout)
  BY DEF StartCoroutine
<1> HIDE DEF h
<1>6. Elems(ready)' = Elems(ready) \ {h} /\ Elems(queue)' = Elems(queue) \ {h}
  <2>1. Elems(ready)' = Elems(ready) /\ Elems(queue)' = Elems(Tail(queue))
    BY <1>5 DEF Elems
  <2> QED BY <1>2, <1>3, <2>1
<1>7. Status(h) = "queued"
  BY <1>2, StatusFacts
<1> QED BY <1>2, <1>3, <1>4, <1>5, <1>6, <1>7, AwaitStep

LEMMA ResumeToAwaitStep ==
  ASSUME IInv, NEW timeout \in Timeouts, ResumeToAwait(timeout)
  PROVE  \E h \in Handles : Io!Await(h)
<1> DEFINE h == Head(ready)
<1>1. ready \in Seq(Handles) /\ ready # <<>> /\ Distinct(ready)
  BY DEF IInv, TypeOK, OneAnswerPerAwait, ResumeToAwait, Distinct
<1>2. h \in Handles /\ h \in Elems(ready) /\ Elems(Tail(ready)) = Elems(ready) \ {h}
  BY <1>1, TailElems
<1>3. h \notin finished /\ h \notin Elems(queue) /\ \A id \in Pending : ioIndex2req[id] # h
  BY <1>2, ReadyFacts
<1>4. ready' = Tail(ready) /\ queue' = queue /\ retCode' = retCode /\ Await(h, timeout)
  BY DEF ResumeToAwait, NextReady
<1> HIDE DEF h
<1>5. Elems(ready)' = Elems(ready) \ {h} /\ Elems(queue)' = Elems(queue) \ {h}
  <2>1. Elems(ready)' = Elems(Tail(ready)) /\ Elems(queue)' = Elems(queue)
    BY <1>4 DEF Elems
  <2> QED BY <1>2, <1>3, <2>1
<1>6. Status(h) = "answered"
  BY <1>2, StatusFacts
<1> QED BY <1>2, <1>3, <1>4, <1>5, <1>6, AwaitStep

LEMMA PollCompletedStep ==
  ASSUME IInv, PollCompleted
  PROVE  \E h \in Handles : Io!Complete(h)
<1>1. /\ Head(cq) \in Pending /\ ready \in Seq(Handles)
      /\ retCode \in [Handles -> {"none", "completed", "expired"}]
  BY DEF IInv, TypeOK, PollCompleted, Pending
<1>2. PICK id \in Pending : id = Head(cq)
  BY <1>1
<1>3. PICK h \in Handles : /\ h = ioIndex2req[id] /\ h \notin finished /\ awaiting[h] = id
                          /\ \A g \in Handles : awaiting[g] = id => g = h
  BY PendingFacts
<1>4. /\ ready' = Append(ready, h)
      /\ retCode' = [retCode EXCEPT ![h] = "completed"]
      /\ ioIndex2req' = TS!Without(ioIndex2req, {id})
      /\ deadline' = TS!Without(deadline, {id})
      /\ UNCHANGED <<queue, now, awaiting, finished>>
  BY <1>2, <1>3 DEF PollCompleted, RemoveTimer
<1>5. Elems(ready)' = Elems(ready) \cup {h} /\ Elems(queue)' = Elems(queue)
  <2>1. Elems(Append(ready, h)) = Elems(ready) \cup {h}
    BY <1>1, <1>3, AppendElems
  <2> QED BY <1>4, <2>1 DEF Elems
<1>6. /\ Pending' = Pending \ {id}
      /\ \A k \in Pending' : ioIndex2req'[k] = ioIndex2req[k]
      /\ DOMAIN deadline' = DOMAIN deadline \ {id}
      /\ \A k \in DOMAIN deadline' : deadline'[k] = deadline[k]
  BY <1>4 DEF Pending, TS!Without
<1>7. Status(h) = "pending" /\ IsPending(h)
  BY <1>3, StatusFacts DEF IsPending
<1>8. Status(h)' = "answered" /\ Answer(h)' = "completed" /\ DueAt(h)' = 0
  <2>1. Status(h)' = "answered"
    BY <1>4, <1>3, <1>5 DEF Status
  <2>2. Answer(h)' = "completed"
    BY <1>1, <1>4, <1>3, <1>5 DEF Answer
  <2>3. DueAt(h)' = 0
    BY <1>4, <1>3, <1>6 DEF DueAt
  <2> QED BY <2>1, <2>2, <2>3
<1>9. ASSUME NEW g \in Handles \ {h}
      PROVE  Status(g)' = Status(g) /\ Answer(g)' = Answer(g) /\ DueAt(g)' = DueAt(g)
  <2>1. ioIndex2req[id] # g
    BY <1>3
  <2>2. IsPending(g)' <=> IsPending(g)
    BY <1>6, <2>1 DEF IsPending
  <2>3. Status(g)' = Status(g)
    BY <1>4, <1>5, <2>2, SameStatus
  <2>4. Answer(g)' = Answer(g)
    BY <1>1, <1>4, <1>5 DEF Answer
  <2>5. DueAt(g)' = DueAt(g)
    BY <1>4, <1>3, <1>6 DEF DueAt
  <2> QED BY <2>3, <2>4, <2>5
<1>10. Stat' = [Stat EXCEPT ![h] = "answered"]
  BY <1>8, <1>9 DEF Stat
<1>11. Answ' = [Answ EXCEPT ![h] = "completed"]
  BY <1>8, <1>9 DEF Answ
<1>12. Dues' = [Dues EXCEPT ![h] = 0]
  BY <1>8, <1>9 DEF Dues
<1> QED BY <1>4, <1>3, <1>7, <1>10, <1>11, <1>12 DEF Io!Complete, Io!Move, Stat, Answ, Dues

\* The coroutines whose await is late are those of the expired timers.
LEMMA LateFacts ==
  ASSUME IInv
  PROVE  Io!Late = {ioIndex2req[k] : k \in TS!Due}
<1>1. DOMAIN deadline \subseteq Pending /\ \A k \in DOMAIN deadline : deadline[k] \in Nat \ {0}
  BY DEF IInv, OneAnswerPerAwait, TypeOK
<1>2. ASSUME NEW k \in TS!Due PROVE ioIndex2req[k] \in Io!Late
  <2> DEFINE h == ioIndex2req[k]
  <2>1. k \in Pending /\ k \in DOMAIN deadline /\ deadline[k] <= now /\ deadline[k] # 0
    BY <1>1 DEF TS!Due
  <2>2. h \in Handles /\ awaiting[h] = k
    BY <2>1, PendingFacts
  <2>3. Status(h) = "pending"
    BY <2>1, <2>2, StatusFacts DEF IsPending
  <2>4. DueAt(h) = deadline[k]
    BY <2>1, <2>2 DEF DueAt
  <2> HIDE DEF h
  <2>5. h \in Io!Late
    BY <2>1, <2>2, <2>3, <2>4 DEF Io!Late
  <2> QED BY <2>5 DEF h
<1>3. ASSUME NEW h \in Handles, h \in Io!Late PROVE \E k \in TS!Due : h = ioIndex2req[k]
  <2>1. DueAt(h) # 0 /\ DueAt(h) <= now
    BY <1>3 DEF Io!Late
  <2>2. awaiting[h] \in DOMAIN deadline /\ deadline[awaiting[h]] <= now
    BY <2>1 DEF DueAt
  <2>3. awaiting[h] \in Pending /\ awaiting[h] \in TS!Due
    BY <1>1, <2>2 DEF TS!Due
  <2> QED BY <2>3, PendingFacts
<1>4. Io!Late \subseteq Handles
  BY DEF Io!Late
<1> QED BY <1>2, <1>3, <1>4

LEMMA PollTimeoutStep ==
  ASSUME IInv, PollTimeout
  PROVE  Io!Expire
<1>1. PICK keys \in Listings(TS!Due \cap DOMAIN ioIndex2req) :
        LET late == {ioIndex2req[k] : k \in Elems(keys)}
        IN /\ ready' = ready \o [i \in 1 .. Len(keys) |-> ioIndex2req[keys[i]]]
           /\ retCode' = [h \in Handles |-> IF h \in late THEN "expired" ELSE retCode[h]]
           /\ EraseExpired(Elems(keys))
           /\ expired' = expired \cup Elems(keys)
           /\ deadline' = TS!Without(deadline, TS!Due)
  BY DEF PollTimeout
<1> DEFINE hs == [i \in 1 .. Len(keys) |-> ioIndex2req[keys[i]]]
           late == {ioIndex2req[k] : k \in TS!Due}
<1>2. /\ Elems(keys) = TS!Due /\ TS!Due \subseteq Pending
      /\ hs \in Seq(Handles) /\ Elems(hs) = late
      /\ late \cap Elems(ready) = {}
  BY ExpiryFacts
<1>3. /\ ready' = ready \o hs
      /\ retCode' = [h \in Handles |-> IF h \in late THEN "expired" ELSE retCode[h]]
      /\ ioIndex2req' = TS!Without(ioIndex2req, TS!Due)
      /\ deadline' = TS!Without(deadline, TS!Due)
      /\ UNCHANGED <<queue, now, awaiting, finished>>
  BY <1>1, <1>2 DEF EraseExpired, PollTimeout
<1> HIDE DEF hs
<1>4. Elems(ready)' = Elems(ready) \cup late /\ Elems(queue)' = Elems(queue)
  <2>1. Elems(ready \o hs) = Elems(ready) \cup late
    BY <1>2, ConcatElems DEF IInv, TypeOK
  <2> QED BY <1>3, <2>1 DEF Elems
<1>5. /\ Pending' = Pending \ TS!Due
      /\ \A k \in Pending' : ioIndex2req'[k] = ioIndex2req[k]
      /\ DOMAIN deadline' = DOMAIN deadline \ TS!Due
      /\ \A k \in DOMAIN deadline' : deadline'[k] = deadline[k]
  BY <1>3 DEF Pending, TS!Without
<1>6. \A k \in Pending :
        /\ ioIndex2req[k] \in Handles /\ ioIndex2req[k] \notin finished
        /\ awaiting[ioIndex2req[k]] = k
        /\ \A g \in Handles : awaiting[g] = k => g = ioIndex2req[k]
  BY PendingFacts
<1>7. ASSUME NEW h \in late
      PROVE  Status(h)' = "answered" /\ Answer(h)' = "expired" /\ DueAt(h)' = 0
  <2>1. PICK k \in TS!Due : h = ioIndex2req[k]
    OBVIOUS
  <2>2. h \in Handles /\ h \notin finished /\ awaiting[h] = k
    BY <1>2, <1>6, <2>1
  <2>3. Status(h)' = "answered"
    BY <1>3, <1>4, <2>2 DEF Status
  <2>4. Answer(h)' = "expired"
    BY <1>3, <1>4, <2>2 DEF Answer
  <2>5. DueAt(h)' = 0
    BY <1>3, <1>5, <2>2 DEF DueAt
  <2> QED BY <2>3, <2>4, <2>5
<1>8. ASSUME NEW h \in Handles \ late
      PROVE  Status(h)' = Status(h) /\ Answer(h)' = Answer(h) /\ DueAt(h)' = DueAt(h)
  <2>1. \A k \in TS!Due : ioIndex2req[k] # h
    OBVIOUS
  <2>2. IsPending(h)' <=> IsPending(h)
    BY <1>5, <2>1 DEF IsPending
  <2>3. Status(h)' = Status(h)
    BY <1>3, <1>4, <2>2, SameStatus
  <2>4. Answer(h)' = Answer(h)
    BY <1>3, <1>4 DEF Answer
  <2>5. awaiting[h] \notin TS!Due
    BY <1>2, <1>6, <2>1
  <2>6. DueAt(h)' = DueAt(h)
    BY <1>3, <1>5, <2>5 DEF DueAt
  <2> QED BY <2>3, <2>4, <2>6
<1>9. late = Io!Late
  BY LateFacts
<1> HIDE DEF late
<1>10. Stat' = [h \in Handles |-> IF h \in late THEN "answered" ELSE Status(h)]
  BY <1>7, <1>8 DEF Stat
<1>11. Answ' = [h \in Handles |-> IF h \in late THEN "expired" ELSE Answer(h)]
  BY <1>7, <1>8 DEF Answ
<1>12. Dues' = [h \in Handles |-> IF h \in late THEN 0 ELSE DueAt(h)]
  BY <1>7, <1>8 DEF Dues
<1>13. \A h \in Handles : Stat[h] = Status(h) /\ Answ[h] = Answer(h) /\ Dues[h] = DueAt(h)
  BY DEF Stat, Answ, Dues
<1> QED BY <1>3, <1>9, <1>10, <1>11, <1>12 DEF Io!Expire, Stat, Answ, Dues

LEMMA ResumeToEndStep ==
  ASSUME IInv, ResumeToEnd
  PROVE  \E h \in Handles : Io!Finish(h)
<1>1. ready \in Seq(Handles) /\ ready # <<>> /\ Distinct(ready)
  BY DEF IInv, TypeOK, OneAnswerPerAwait, ResumeToEnd, Distinct
<1>2. PICK h \in Handles : /\ h = Head(ready) /\ h \in Elems(ready)
                          /\ Elems(Tail(ready)) = Elems(ready) \ {h}
  BY <1>1, TailElems
<1>3. /\ ready' = Tail(ready) /\ finished' = finished \cup {h}
      /\ awaiting' = [awaiting EXCEPT ![h] = 0]
      /\ UNCHANGED <<queue, ioIndex2req, deadline, now, retCode>>
  BY <1>2 DEF ResumeToEnd, NextReady
<1>4. awaiting[h] \notin DOMAIN deadline /\ Status(h) = "answered"
  BY <1>2, ReadyFacts, StatusFacts
<1>5. awaiting \in [Handles -> Nat] /\ 0 \notin DOMAIN deadline
  BY DEF IInv, TypeOK, Ids
<1>6. Elems(ready)' = Elems(ready) \ {h} /\ Elems(queue)' = Elems(queue)
  BY <1>2, <1>3 DEF Elems
<1>7. Status(h)' = "done" /\ Answer(h)' = "none" /\ DueAt(h)' = DueAt(h)
  <2>1. Status(h)' = "done"
    BY <1>3 DEF Status
  <2>2. Answer(h)' = "none"
    BY <1>6 DEF Answer
  <2>3. awaiting'[h] = 0
    BY <1>2, <1>3, <1>5
  <2>4. DueAt(h)' = 0 /\ DueAt(h) = 0
    BY <1>3, <1>4, <1>5, <2>3 DEF DueAt
  <2> QED BY <2>1, <2>2, <2>4
<1>8. ASSUME NEW g \in Handles \ {h}
      PROVE  Status(g)' = Status(g) /\ Answer(g)' = Answer(g) /\ DueAt(g)' = DueAt(g)
  <2>1. IsPending(g)' <=> IsPending(g)
    BY <1>3 DEF IsPending, Pending
  <2>2. Status(g)' = Status(g)
    BY <1>3, <1>6, <2>1, SameStatus
  <2>3. Answer(g)' = Answer(g) /\ DueAt(g)' = DueAt(g)
    BY <1>3, <1>5, <1>6 DEF Answer, DueAt
  <2> QED BY <2>2, <2>3
<1>9. Stat' = [Stat EXCEPT ![h] = "done"]
  BY <1>7, <1>8 DEF Stat
<1>10. Answ' = [Answ EXCEPT ![h] = "none"]
  BY <1>7, <1>8 DEF Answ
<1>11. Dues' = Dues
  BY <1>7, <1>8 DEF Dues
<1> QED BY <1>2, <1>3, <1>4, <1>9, <1>10, <1>11 DEF Io!Finish, Io!Move, Stat, Answ, Dues

LEMMA AcceptStep ==
  ASSUME IInv, NEW h \in Handles, Accept(h)
  PROVE  Io!Accept(h)
<1>1. /\ h \notin Elems(queue) /\ ~Started(h) /\ queue' = Append(queue, h)
      /\ UNCHANGED <<ready, ioIndex2req, deadline, now, retCode, awaiting, finished>>
  BY DEF Accept, coroVars
<1>2. Elems(queue)' = Elems(queue) \cup {h} /\ Elems(ready)' = Elems(ready)
  <2>1. Elems(Append(queue, h)) = Elems(queue) \cup {h}
    BY AppendElems DEF IInv, TypeOK
  <2> QED BY <1>1, <2>1 DEF Elems
<1>3. Status(h) = "new"
  BY <1>1, StatusFacts
<1>4. Status(h)' = "queued"
  BY <1>1, <1>2, <1>3 DEF Status, Pending
<1>5. \A g \in Handles : Answer(g)' = Answer(g) /\ DueAt(g)' = DueAt(g)
  BY <1>1, <1>2 DEF Answer, DueAt
<1>6. ASSUME NEW g \in Handles \ {h} PROVE Status(g)' = Status(g)
  <2>1. IsPending(g)' <=> IsPending(g)
    BY <1>1 DEF IsPending, Pending
  <2> QED BY <1>1, <1>2, <2>1, SameStatus
<1>7. Stat' = [Stat EXCEPT ![h] = "queued"] /\ Answ' = Answ /\ Dues' = Dues
  BY <1>4, <1>5, <1>6 DEF Stat, Answ, Dues
<1> QED BY <1>1, <1>3, <1>7 DEF Io!Accept, Io!Move, Stat, Answ, Dues

\* Steps that no coroutine notices.
LEMMA SilentStep ==
  ASSUME UNCHANGED <<queue, ready, ioIndex2req, deadline, coroVars>>
  PROVE  Stat' = Stat /\ Answ' = Answ /\ Dues' = Dues
BY DEF Stat, Answ, Dues, Status, Answer, DueAt, Pending, Elems, coroVars

LEMMA InitIo == Init => Io!Init
<1> SUFFICES ASSUME Init PROVE Io!Init
  OBVIOUS
<1> USE DEF Init
<1>1. Elems(ready) = {} /\ Elems(queue) = {} /\ Pending = {} /\ DOMAIN deadline = {}
  BY DEF Elems, Pending
<1>2. \A h \in Handles : Status(h) = "new" /\ Answer(h) = "none" /\ DueAt(h) = 0
  BY <1>1 DEF Status, Answer, DueAt
<1>3. now \in 0 .. MaxTime
  BY UringAssumption
<1> QED BY <1>2, <1>3 DEF Io!Init

\* Every step of the worker, the main thread, the kernel and the clock is a step
\* of AsyncIo or one that AsyncIo does not see.
LEMMA NextIo == IInv /\ [Next]_vars => [Io!Next]_Io!aioVars
<1> SUFFICES ASSUME IInv, [Next]_vars PROVE Io!Next \/ UNCHANGED Io!aioVars
  OBVIOUS
<1>1. ASSUME UNCHANGED <<queue, ready, ioIndex2req, deadline, now, coroVars>>
      PROVE  UNCHANGED Io!aioVars
  <2>1. Stat' = Stat /\ Answ' = Answ /\ Dues' = Dues
    BY <1>1, SilentStep
  <2> QED BY <1>1, <2>1 DEF Io!aioVars, Stat, Answ, Dues
<1>2. ASSUME NEW timeout \in Timeouts, StartCoroutine(timeout) PROVE Io!Next
  BY <1>2, StartStep DEF Io!Next
<1>3. ASSUME NEW timeout \in Timeouts, ResumeToAwait(timeout) PROVE Io!Next
  BY <1>3, ResumeToAwaitStep DEF Io!Next
<1>4. CASE PollCompleted
  BY <1>4, PollCompletedStep DEF Io!Next
<1>5. CASE PollTimeout
  BY <1>5, PollTimeoutStep DEF Io!Next
<1>6. CASE ResumeToEnd
  BY <1>6, ResumeToEndStep DEF Io!Next
<1>7. ASSUME NEW h \in Handles, Accept(h) PROVE Io!Next
  BY <1>7, AcceptStep DEF Io!Next
<1>8. CASE Tick
  <2>1. Stat' = Stat /\ Answ' = Answ /\ Dues' = Dues
    BY <1>8, SilentStep DEF Tick
  <2>2. now' \in 0 .. MaxTime
    BY <1>8, UringAssumption DEF Tick, IInv, TypeOK
  <2> QED BY <2>1, <2>2 DEF Io!Next, Io!Clock, Stat, Answ, Dues
<1>9. CASE StartCrashes \/ ResumeCrashes
  BY <1>1, <1>9 DEF StartCrashes, ResumeCrashes, SqeIsNull
<1>10. CASE DrainDone \/ ResumeDone
  BY <1>1, <1>10 DEF DrainDone, ResumeDone
<1>11. CASE PollStale \/ UNCHANGED vars
  BY <1>1, <1>11 DEF PollStale, vars
<1>12. ASSUME NEW id \in inflight, KernelComplete(id) PROVE UNCHANGED Io!aioVars
  BY <1>1, <1>12 DEF KernelComplete
<1> QED
  BY <1>2, <1>3, <1>4, <1>5, <1>6, <1>7, <1>8, <1>9, <1>10, <1>11, <1>12 DEF Next, Worker

\* The worker answers each await once, by its completion or when it is late, and
\* resumes the coroutine once for each answer: Scheduler::loop, poll and the
\* awaiters implement AsyncIo.
THEOREM ImplementsAsyncIoHolds == Spec => ImplementsAsyncIo
<1>1. Init => Io!Init
  BY InitIo
<1>2. IInv /\ [Next]_vars => [Io!Next]_Io!aioVars
  BY NextIo
<1> QED BY <1>1, <1>2, IInvHolds, PTL DEF Spec, ImplementsAsyncIo, Io!Spec
==============================================================================
