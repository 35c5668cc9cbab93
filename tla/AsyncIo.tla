------------------------------- MODULE AsyncIo -------------------------------
(***************************************************************************)
(* What a worker promises to its coroutines (Scheduler in include/core.h): *)
(* each co_await of asyncRead or asyncWrite is answered once, by the       *)
(* completion of the operation or because its timeout has passed, and the  *)
(* coroutine is resumed once for each answer.  When the worker looks at    *)
(* the timeouts it answers every await that is late and no other.          *)
(***************************************************************************)
EXTENDS Naturals

CONSTANTS Handles,
          Timeouts,  \* what an await may ask for, 0 for no timeout
          Times      \* the readings of the clock

VARIABLES now,      \* the wall clock
          status,   \* handle -> how far its coroutine is
          answer,   \* handle -> the answer it will be resumed with
          dueAt     \* handle -> when its await expires, 0 for never

aioVars == <<now, status, answer, dueAt>>

Init ==
  /\ now \in Times
  /\ status = [h \in Handles |-> "new"]
  /\ answer = [h \in Handles |-> "none"]
  /\ dueAt = [h \in Handles |-> 0]

Move(h, from, to) ==
  status[h] = from /\ status' = [status EXCEPT ![h] = to]

Accept(h) ==
  Move(h, "new", "queued") /\ UNCHANGED <<now, answer, dueAt>>

\* The coroutine starts, or is resumed, and runs up to its next await.
Await(h) ==
  /\ Move(h, "queued", "pending") \/ Move(h, "answered", "pending")
  /\ answer' = [answer EXCEPT ![h] = "none"]
  /\ \E t \in Timeouts : dueAt' = [dueAt EXCEPT ![h] = IF t > 0 THEN now + t ELSE 0]
  /\ UNCHANGED now

Complete(h) ==
  /\ Move(h, "pending", "answered")
  /\ answer' = [answer EXCEPT ![h] = "completed"]
  /\ dueAt' = [dueAt EXCEPT ![h] = 0]
  /\ UNCHANGED now

Late == {h \in Handles : status[h] = "pending" /\ dueAt[h] # 0 /\ dueAt[h] <= now}

Expire ==
  /\ status' = [h \in Handles |-> IF h \in Late THEN "answered" ELSE status[h]]
  /\ answer' = [h \in Handles |-> IF h \in Late THEN "expired" ELSE answer[h]]
  /\ dueAt' = [h \in Handles |-> IF h \in Late THEN 0 ELSE dueAt[h]]
  /\ UNCHANGED now

Finish(h) ==
  /\ Move(h, "answered", "done")
  /\ answer' = [answer EXCEPT ![h] = "none"]
  /\ UNCHANGED <<now, dueAt>>

Clock == now' \in Times /\ UNCHANGED <<status, answer, dueAt>>

Next ==
  \/ \E h \in Handles : Accept(h) \/ Await(h) \/ Complete(h) \/ Finish(h)
  \/ Expire
  \/ Clock

Spec == Init /\ [][Next]_aioVars
==============================================================================
