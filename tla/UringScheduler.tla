--------------------------- MODULE UringScheduler ---------------------------
(***************************************************************************)
(* One worker thread: Scheduler<UringScheduler>::loop (include/core.h),    *)
(* UringScheduler (src/core.cpp), its io_uring and the coroutines it runs. *)
(*                                                                         *)
(* A coroutine is known by its handle.  Between two awaits it runs on the  *)
(* worker without a pause, so the segment up to the next await, or to its  *)
(* end, is one step.  handleRead and handleWrite treat their request alike *)
(* and are the one operator Await.  The queue of connections and the timer *)
(* queue are used through what LockfreeQueue and TimerQueue are shown to   *)
(* implement.                                                              *)
(***************************************************************************)
EXTENDS Naturals, Sequences, FiniteSets, Elements

CONSTANTS Handles,    \* the coroutines, one for each connection
          Timeouts,   \* the values of IoRequest::timeout, 0 for none
          UringSize,  \* how many entries the submission queue holds
          MaxAwaits,  \* bound: how many times a coroutine awaits
          MaxTime,    \* bound: the last reading of the clock
          MaxFailures \* bound: how many submissions fail

ASSUME UringAssumption ==
  /\ Timeouts \subseteq Nat
  /\ UringSize \in Nat \ {0}
  /\ MaxAwaits \in Nat \ {0}
  /\ MaxTime \in Nat
  /\ MaxFailures \in Nat

VARIABLES
  queue,        \* queue_: connections not yet taken, named by their coroutine
  phase,        \* where loop() is: "drain", "poll" or "resume"; or "crashed"
  ready,        \* readyHandleAddrs, without those already resumed
  ioIndex,      \* ioIndex_
  ioIndex2req,  \* ioIndex2req_: io id -> handle of the awaiting coroutine
  deadline,     \* timerQueue_: io id -> when it expires
  now,          \* the clock
  sq,           \* io ids in the submission queue that no submit took yet
  inflight,     \* io ids the kernel works on
  cq,           \* the completion queue: io ids, oldest first
  retCode,      \* handle -> what the last answer left in the request
  awaiting,     \* handle -> the io id it is suspended at, 0 if it is not
  awaits,       \* handle -> how many awaits it issued
  finished,     \* the coroutines that returned
  expired,      \* history: the io ids answered as expired
  failures      \* history: how many submissions failed

ringVars == <<sq, inflight, cq>>
coroVars == <<retCode, awaiting, awaits, finished>>
history == <<expired, failures>>
vars == <<queue, phase, ready, ioIndex, ioIndex2req, deadline, now, ringVars, coroVars, history>>

TS == INSTANCE TimerSet WITH Keys <- Nat, Times <- Nat, fired <- <<>>

\* The ways to list S by deadline
Listings(S) ==
  {s \in [1 .. Cardinality(S) -> S] :
     /\ TS!IsListing(s, S)
     /\ \A i, j \in 1 .. Len(s) : i < j => deadline[s[i]] <= deadline[s[j]]}

Started(h) == awaits[h] > 0
Suspended(h) == awaiting[h] # 0

Init ==
  /\ queue = <<>>
  /\ phase = "drain"
  /\ ready = <<>>
  /\ ioIndex = 1
  /\ ioIndex2req = <<>>
  /\ deadline = <<>>
  /\ now = 0
  /\ sq = {}
  /\ inflight = {}
  /\ cq = <<>>
  /\ retCode = [h \in Handles |-> "none"]
  /\ awaiting = [h \in Handles |-> 0]
  /\ awaits = [h \in Handles |-> 0]
  /\ finished = {}
  /\ expired = {}
  /\ failures = 0

------------------------------------------------------------------------------
(* The worker *)

\* variant: the request is recorded under the counter after its increment
RecordNextId(h) == ioIndex2req' = TS!With(ioIndex2req, ioIndex + 1, h)

Record(h) == ioIndex2req' = TS!With(ioIndex2req, ioIndex, h)

SubmitFails ==
  /\ failures < MaxFailures
  /\ failures' = failures + 1
  /\ sq' = sq \cup {ioIndex}
  /\ UNCHANGED inflight

\* variant: io_uring_submit is forgotten
Unsubmitted == sq' = sq \cup {ioIndex} /\ UNCHANGED <<inflight, failures>>

\* io_uring_submit hands over every entry of the queue.  Its result is ignored:
\* when it fails the entries stay for the next submit.
Submit ==
  \/ /\ inflight' = inflight \cup sq \cup {ioIndex}
     /\ sq' = {}
     /\ UNCHANGED failures
  \/ SubmitFails

\* variant: the timer is armed with the duration instead of a point in time
ArmRelative(timeout) ==
  deadline' = IF timeout > 0 THEN TS!With(deadline, ioIndex, timeout) ELSE deadline

ArmTimer(timeout) ==
  deadline' = IF timeout > 0 THEN TS!With(deadline, ioIndex, now + timeout) ELSE deadline

\* await_suspend: the request gets an id, goes to the kernel and is recorded;
\* a positive timeout arms a timer with the same id.
Await(h, timeout) ==
  /\ awaits[h] < MaxAwaits
  /\ Cardinality(sq) < UringSize
  /\ ioIndex' = ioIndex + 1
  /\ Submit
  /\ Record(h)
  /\ ArmTimer(timeout)
  /\ awaiting' = [awaiting EXCEPT ![h] = ioIndex]
  /\ awaits' = [awaits EXCEPT ![h] = @ + 1]
  /\ UNCHANGED <<now, cq, finished, expired>>

\* io_uring_get_sqe returns NULL when the submission queue is full; the request
\* is prepared in it all the same, which ends the process.
SqeIsNull(h) ==
  /\ awaits[h] < MaxAwaits
  /\ Cardinality(sq) = UringSize
  /\ phase' = "crashed"
  /\ UNCHANGED <<queue, ready, ioIndex, ioIndex2req, deadline, now, ringVars, coroVars, history>>

\* queue_->pop succeeds and func_ runs to its first await.
StartCoroutine(timeout) ==
  /\ phase = "drain"
  /\ queue # <<>>
  /\ queue' = Tail(queue)
  /\ Await(Head(queue), timeout)
  /\ UNCHANGED <<phase, ready, retCode>>

StartCrashes == phase = "drain" /\ queue # <<>> /\ SqeIsNull(Head(queue))

DrainDone ==
  /\ phase = "drain"
  /\ queue = <<>>
  /\ phase' = "poll"
  /\ UNCHANGED <<queue, ready, ioIndex, ioIndex2req, deadline, now, ringVars, coroVars, history>>

\* variant: io_uring_cqe_seen is forgotten
CqeUnseen == cq' = cq

CqeSeen == cq' = Tail(cq)

\* variant: the timer of a completed request is left armed
KeepTimer(id) == deadline' = deadline

RemoveTimer(id) == deadline' = TS!Without(deadline, {id})

\* A completion of a request that is still recorded.
PollCompleted ==
  /\ phase = "poll"
  /\ cq # <<>>
  /\ Head(cq) \in DOMAIN ioIndex2req
  /\ LET id == Head(cq)
         h == ioIndex2req[id]
     IN /\ retCode' = [retCode EXCEPT ![h] = "completed"]
        /\ ready' = Append(ready, h)
        /\ ioIndex2req' = TS!Without(ioIndex2req, {id})
        /\ RemoveTimer(id)
  /\ CqeSeen
  /\ UNCHANGED <<queue, phase, ioIndex, now, sq, inflight, awaiting, awaits, finished, history>>

\* A completion of a request that was already erased: the loop goes on without
\* io_uring_cqe_seen, and the next wait returns the same completion.
PollStale ==
  /\ phase = "poll"
  /\ cq # <<>>
  /\ Head(cq) \notin DOMAIN ioIndex2req
  /\ UNCHANGED vars

\* variant: an expired request stays recorded
KeepExpired(ids) == ioIndex2req' = ioIndex2req

EraseExpired(ids) == ioIndex2req' = TS!Without(ioIndex2req, ids)

\* Nothing completed within a millisecond, or the wait failed: poll leaves its
\* loop, pops the expired timers and answers those of their requests that are
\* still recorded.
PollTimeout ==
  /\ phase = "poll"
  /\ cq = <<>>
  /\ \E keys \in Listings(TS!Due \cap DOMAIN ioIndex2req) :
       LET late == {ioIndex2req[k] : k \in Elems(keys)}
       IN /\ ready' = ready \o [i \in 1 .. Len(keys) |-> ioIndex2req[keys[i]]]
          /\ retCode' = [h \in Handles |-> IF h \in late THEN "expired" ELSE retCode[h]]
          /\ EraseExpired(Elems(keys))
          /\ expired' = expired \cup Elems(keys)
          /\ deadline' = TS!Without(deadline, TS!Due)
  /\ phase' = "resume"
  /\ UNCHANGED <<queue, ioIndex, now, ringVars, awaiting, awaits, finished, failures>>

\* variant: only the first ready coroutine is resumed
DropReady == ready' = <<>>

NextReady == ready' = Tail(ready)

\* handle.resume() runs the coroutine to its next await ...
ResumeToAwait(timeout) ==
  /\ phase = "resume"
  /\ ready # <<>>
  /\ NextReady
  /\ Await(Head(ready), timeout)
  /\ UNCHANGED <<queue, phase, retCode>>

ResumeCrashes == phase = "resume" /\ ready # <<>> /\ SqeIsNull(Head(ready))

\* ... or to its end, which frees its frame.
ResumeToEnd ==
  /\ phase = "resume"
  /\ ready # <<>>
  /\ NextReady
  /\ awaiting' = [awaiting EXCEPT ![Head(ready)] = 0]
  /\ finished' = finished \cup {Head(ready)}
  /\ UNCHANGED <<queue, phase, ioIndex, ioIndex2req, deadline, now, ringVars, retCode, awaits, history>>

ResumeDone ==
  /\ phase = "resume"
  /\ ready = <<>>
  /\ phase' = "drain"
  /\ UNCHANGED <<queue, ready, ioIndex, ioIndex2req, deadline, now, ringVars, coroVars, history>>

Worker ==
  \/ \E timeout \in Timeouts : StartCoroutine(timeout)
  \/ StartCrashes
  \/ DrainDone
  \/ PollCompleted
  \/ PollStale
  \/ PollTimeout
  \/ \E timeout \in Timeouts : ResumeToAwait(timeout)
  \/ ResumeCrashes
  \/ ResumeToEnd
  \/ ResumeDone

------------------------------------------------------------------------------
(* The main thread, the kernel and the clock *)

Accept(h) ==
  /\ phase # "crashed"
  /\ h \notin Elems(queue)
  /\ ~Started(h)
  /\ queue' = Append(queue, h)
  /\ UNCHANGED <<phase, ready, ioIndex, ioIndex2req, deadline, now, ringVars, coroVars, history>>

\* The kernel ends an operation, in any order, and posts its completion.
KernelComplete(id) ==
  /\ id \in inflight
  /\ inflight' = inflight \ {id}
  /\ cq' = Append(cq, id)
  /\ UNCHANGED <<queue, phase, ready, ioIndex, ioIndex2req, deadline, now, sq, coroVars, history>>

Tick ==
  /\ now < MaxTime
  /\ now' = now + 1
  /\ UNCHANGED <<queue, phase, ready, ioIndex, ioIndex2req, deadline, ringVars, coroVars, history>>

Next ==
  \/ Worker
  \/ \E h \in Handles : Accept(h)
  \/ \E id \in inflight : KernelComplete(id)
  \/ Tick

Spec == Init /\ [][Next]_vars

\* The worker thread keeps running.  Nothing is assumed of the kernel: an
\* operation without a timeout may last for ever.
FairSpec == Spec /\ WF_vars(Worker)

------------------------------------------------------------------------------
(* Properties *)

Ids == 1 .. ioIndex - 1
Pending == DOMAIN ioIndex2req
InRing == sq \cup inflight \cup Elems(cq)

\* The completion of an expired request is at the head of the queue, where no
\* step removes it.
Stuck == cq # <<>> /\ Head(cq) \in expired

\* The types; every io id in the table or in the ring was handed out.
TypeOK ==
  /\ queue \in Seq(Handles)
  /\ phase \in {"drain", "poll", "resume", "crashed"}
  /\ ready \in Seq(Handles)
  /\ ioIndex \in Nat \ {0}
  /\ Pending \subseteq Ids
  /\ \A id \in Pending : ioIndex2req[id] \in Handles
  /\ DOMAIN deadline \subseteq Ids
  /\ \A id \in DOMAIN deadline : deadline[id] \in Nat \ {0}
  /\ now \in Nat
  /\ sq \subseteq Ids
  /\ inflight \subseteq Ids
  /\ cq \in Seq(Ids)
  /\ retCode \in [Handles -> {"none", "completed", "expired"}]
  /\ awaiting \in [Handles -> Nat]
  /\ awaits \in [Handles -> 0 .. MaxAwaits]
  /\ finished \subseteq Handles
  /\ expired \subseteq Ids
  /\ failures \in 0 .. MaxFailures

\* A coroutine is suspended at the await it issued last, and that await is in
\* one place only: recorded as pending, or answered and waiting to be resumed.
\* So it is resumed exactly once, never by the late completion of an earlier
\* await of its own, and never after it returned.  The answer takes the timer
\* with it, on the completion and on the expiry path alike.
OneAnswerPerAwait ==
  /\ \A id \in Pending :
       awaiting[ioIndex2req[id]] = id /\ ioIndex2req[id] \notin Elems(ready)
  /\ Distinct(ready)
  /\ \A h \in Elems(ready) : Suspended(h)
  /\ \A h \in Handles : Suspended(h) => h \in Elems(ready) \/ awaiting[h] \in Pending
  /\ \A h \in finished : ~Suspended(h)
  /\ DOMAIN deadline \subseteq Pending

\* The table and the ring agree, also when submissions fail: each pending request
\* is in one place of the ring, and what else is in the ring are expired requests
\* the kernel was never told about.  So a request without a timeout that the
\* kernel works on has its coroutine suspended at it, with its buffer.
RingAndTableAgree ==
  /\ InRing = Pending \cup expired
  /\ Pending \cap expired = {}
  /\ sq \cap inflight = {} /\ (sq \cup inflight) \cap Elems(cq) = {}
  /\ Distinct(cq)

\* The unchecked NULL of io_uring_get_sqe takes a queue full of submissions that
\* failed: the number of coroutines alone never fills the ring.
CrashNeedsFailures == phase = "crashed" => failures >= UringSize

\* How far a coroutine is, the answer it waits to be resumed with, and when its
\* await expires, in the terms of AsyncIo
Status(h) ==
  IF h \in finished THEN "done"
  ELSE IF h \in Elems(ready) THEN "answered"
  ELSE IF \E id \in Pending : ioIndex2req[id] = h THEN "pending"
  ELSE IF h \in Elems(queue) THEN "queued" ELSE "new"
Answer(h) == IF h \in Elems(ready) THEN retCode[h] ELSE "none"
DueAt(h) == IF awaiting[h] \in DOMAIN deadline THEN deadline[awaiting[h]] ELSE 0

Io == INSTANCE AsyncIo
  WITH Times <- 0 .. MaxTime,
       status <- [h \in Handles |-> Status(h)],
       answer <- [h \in Handles |-> Answer(h)],
       dueAt <- [h \in Handles |-> DueAt(h)]

\* The worker answers each await once, by its completion or when it is late, and
\* resumes the coroutine once for each answer.
ImplementsAsyncIo == Io!Spec

\* The worker comes back from poll: a completion never holds it there.
PollReturns == phase = "poll" ~> phase # "poll"

\* The completion of an expired request is all that can hold the worker in poll.
PollReturnsUnlessStuck == phase = "poll" ~> phase # "poll" \/ Stuck

\* An await that has completed or is late is answered and its coroutine goes on,
\* unless the worker is stuck or the process ends.
AnswersResume ==
  \A h \in Handles :
    \A n \in 1 .. MaxAwaits :
      /\ awaits[h] = n
      /\ \/ awaiting[h] \in Elems(cq)
         \/ awaiting[h] \in DOMAIN deadline /\ deadline[awaiting[h]] <= now
      ~> awaits[h] > n \/ h \in finished \/ Stuck \/ phase = "crashed"
==============================================================================
