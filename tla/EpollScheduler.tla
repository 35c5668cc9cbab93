--------------------------- MODULE EpollScheduler ---------------------------
(***************************************************************************)
(* One worker thread on EpollScheduler (src/core.cpp): it tries a read or  *)
(* a write at once and, when that would block, registers the descriptor    *)
(* with an edge-triggered epoll under a fresh io id.                       *)
(*                                                                         *)
(* Each coroutine has one connection; FdOf gives the number of its socket. *)
(* A socket is what the code can see of it: how many units of data a read  *)
(* would find, how much room a write would find, and whether the peer has  *)
(* closed.  A read takes one unit; a write sends WriteSize units.          *)
(* Io ids are given to epoll as descriptors, so the other descriptors of   *)
(* the process matter too: the numbers in OtherFds.                        *)
(***************************************************************************)
EXTENDS Naturals, Sequences, FiniteSets, Elements

CONSTANTS Handles,    \* the coroutines, one for each connection
          FdOf,       \* handle -> the number of its socket
          OtherFds,   \* numbers of other descriptors epoll can watch: a terminal,
                      \* a pipe, the listening socket, another worker's connection
          Timeouts,   \* the values of IoRequest::timeout, 0 for none
          WriteSize,  \* IoRequest::size of a write
          MaxAwaits,  \* bound: how many times a coroutine awaits
          MaxUnits,   \* bound: units a socket holds, in each direction
          MaxTime     \* bound: the last reading of the clock

ASSUME EpollAssumption ==
  /\ FdOf \in [Handles -> Nat]
  /\ \A h, g \in Handles : FdOf[h] = FdOf[g] => h = g
  /\ OtherFds \subseteq Nat /\ \A h \in Handles : FdOf[h] \notin OtherFds
  /\ Timeouts \subseteq Nat
  /\ WriteSize \in Nat \ {0}
  /\ MaxAwaits \in Nat /\ MaxUnits \in Nat /\ MaxTime \in Nat

VARIABLES
  phase,        \* where the worker is: "resume", "wait", "events", "aborted"
  ready,        \* readyHandleAddrs, without those already resumed
  completed,    \* completedHandleAddrs_
  ioIndex,      \* ioIndex_
  ioIndex2req,  \* ioIndex2req_: io id -> handle of the awaiting coroutine
  deadline,     \* timerQueue_: io id -> when it expires
  now,          \* the clock
  watched,      \* the epoll instance: socket number -> what it waits for
  edges,        \* the registered numbers with an edge not reported yet
  events,       \* what epoll_wait returned and poll has not handled yet
  rx, tx,       \* handle -> units to read, room to write
  closed,       \* the coroutines whose peer has closed, or that have themselves
  awaits,       \* handle -> how many awaits it issued
  op,           \* handle -> "read" or "write" while suspended, else "none"
  sent,         \* handle -> retCode of a write in progress
  rest,         \* the coroutine whose write went out in part, until the next write call
  fresh,        \* history: io id -> the number of the await it was made for
  strayed       \* history: a write was registered for another descriptor than its socket

workerVars == <<phase, ready, completed, rest>>
tableVars == <<ioIndex, ioIndex2req, deadline, fresh>>
epollVars == <<watched, edges, strayed>>
socketVars == <<rx, tx, closed>>
coroVars == <<awaits, op, sent>>
vars == <<workerVars, tableVars, epollVars, events, now, socketVars, coroVars>>

TS == INSTANCE TimerSet WITH Keys <- Nat, Times <- Nat, fired <- <<>>

\* The ways to list S by deadline
Listings(S) ==
  {s \in [1 .. Cardinality(S) -> S] :
     /\ TS!IsListing(s, S)
     /\ \A i, j \in 1 .. Len(s) : i < j => deadline[s[i]] <= deadline[s[j]]}
Owner(fd) == CHOOSE h \in Handles : FdOf[h] = fd
Sockets == {FdOf[h] : h \in Handles}

\* A coroutine has its socket until it returns; what has the number then is not its own.
Open == {FdOf[h] : h \in {g \in Handles : op[g] # "none" \/ awaits[g] = 0}}
Foreign == OtherFds \cup (Sockets \ Open)

Readable(h) == rx[h] > 0 \/ h \in closed
Writable(h) == tx[h] > 0 \/ h \in closed

\* A coroutine starts by awaiting; until then its connection waits in queue_.
Init ==
  /\ phase = "resume"
  /\ ready = <<>>
  /\ completed = <<>>
  /\ ioIndex = 0
  /\ ioIndex2req = <<>>
  /\ deadline = <<>>
  /\ now = 0
  /\ watched = <<>>
  /\ edges = {}
  /\ events = {}
  /\ rx = [h \in Handles |-> 0]
  /\ tx = [h \in Handles |-> 0]
  /\ closed = {}
  /\ awaits = [h \in Handles |-> 0]
  /\ op = [h \in Handles |-> "none"]
  /\ sent = [h \in Handles |-> 0]
  /\ rest = {}
  /\ fresh = <<>>
  /\ strayed = FALSE

------------------------------------------------------------------------------
(* epoll_ctl *)

\* ADD takes any descriptor that can be watched and is not watched yet; under a
\* number that is not one of the open sockets there may be none.
CanAdd(fd) == fd \in Sockets \cup OtherFds /\ fd \notin DOMAIN watched
AddCanFail(fd) == fd \notin Open \/ fd \in DOMAIN watched

\* An edge-triggered ADD reports a socket that is ready already.
AddWatch(fd, kind, id) ==
  /\ watched' = TS!With(watched, fd, [kind |-> kind, id |-> id])
  /\ edges' = IF /\ fd \in Open
                 /\ \/ kind = "in" /\ Readable(Owner(fd))
                    \/ kind = "out" /\ Writable(Owner(fd))
              THEN edges \cup {fd} ELSE edges

DelWatch(fd) ==
  /\ watched' = TS!Without(watched, {fd})
  /\ edges' = edges \ {fd}

------------------------------------------------------------------------------
(* handleRead and handleWrite *)

\* variant: the counter is read but not advanced
SameId(h) ==
  /\ ioIndex' = ioIndex
  /\ ioIndex2req' = TS!With(ioIndex2req, ioIndex, h)
  /\ fresh' = TS!With(fresh, ioIndex, awaits[h] + 1)

NewId(h) ==
  /\ ioIndex' = ioIndex + 1
  /\ ioIndex2req' = TS!With(ioIndex2req, ioIndex, h)
  /\ fresh' = TS!With(fresh, ioIndex, awaits[h] + 1)

ArmTimer(timeout) ==
  deadline' = IF timeout > 0 THEN TS!With(deadline, ioIndex, now + timeout) ELSE deadline

\* variant: the request is not put among the completed ones
Forget(h) == completed' = completed

Answer(h) == completed' = Append(completed, h)

\* The socket is read at once; closed and error answers are answers too.
ReadNow(h) ==
  /\ Readable(h)
  /\ rx' = IF rx[h] > 0 THEN [rx EXCEPT ![h] = @ - 1] ELSE rx
  /\ Answer(h)
  /\ UNCHANGED <<tableVars, epollVars, tx, closed, sent>>

\* The read would block.  When the registration fails the request is answered
\* and its table entry stays.
ReadLater(h, timeout) ==
  /\ ~Readable(h)
  /\ NewId(h)
  /\ \/ /\ CanAdd(FdOf[h])
        /\ AddWatch(FdOf[h], "in", ioIndex)
        /\ UNCHANGED strayed
        /\ ArmTimer(timeout)
        /\ UNCHANGED completed
     \/ /\ AddCanFail(FdOf[h])
        /\ Answer(h)
        /\ UNCHANGED <<epollVars, deadline>>
  /\ UNCHANGED <<rx, tx, closed, sent>>

\* The whole request fits, or the peer is gone.
WriteNow(h) ==
  /\ tx[h] >= WriteSize \/ h \in closed
  /\ tx' = IF h \in closed THEN tx ELSE [tx EXCEPT ![h] = @ - WriteSize]
  /\ sent' = [sent EXCEPT ![h] = IF h \in closed THEN 0 ELSE WriteSize]
  /\ Answer(h)
  /\ UNCHANGED <<tableVars, epollVars, rx, closed>>

\* The write sends what fits until it would block; epoll_ctl is then given the
\* io id where the number of the socket belongs.
WriteLater(h, timeout) ==
  /\ tx[h] < WriteSize /\ h \notin closed
  /\ tx' = [tx EXCEPT ![h] = 0]
  /\ sent' = [sent EXCEPT ![h] = tx[h]]
  /\ NewId(h)
  /\ \/ /\ CanAdd(ioIndex)
        /\ AddWatch(ioIndex, "out", ioIndex)
        /\ strayed' = (strayed \/ ioIndex # FdOf[h])
        /\ ArmTimer(timeout)
        /\ UNCHANGED completed
     \/ /\ AddCanFail(ioIndex)
        /\ Answer(h)
        /\ UNCHANGED <<epollVars, deadline>>
  /\ UNCHANGED <<rx, closed>>

Await(h, kind, timeout) ==
  /\ awaits[h] < MaxAwaits
  /\ awaits' = [awaits EXCEPT ![h] = @ + 1]
  /\ op' = [op EXCEPT ![h] = kind]
  /\ \/ kind = "read" /\ (ReadNow(h) \/ ReadLater(h, timeout))
     \/ kind = "write" /\ (WriteNow(h) \/ WriteLater(h, timeout))

------------------------------------------------------------------------------
(* The worker's loop *)

\* queue_->pop succeeds between two polls; the coroutine reads first.
StartCoroutine(h, timeout) ==
  /\ phase = "resume" /\ ready = <<>>
  /\ awaits[h] = 0
  /\ Await(h, "read", timeout)
  /\ UNCHANGED <<phase, ready, rest, now, events>>

ResumeToAwait(kind, timeout) ==
  /\ phase = "resume" /\ ready # <<>>
  /\ ready' = Tail(ready)
  /\ Await(Head(ready), kind, timeout)
  /\ UNCHANGED <<phase, rest, now, events>>

\* The coroutine returns and closes its socket, which leaves the epoll instance.
ResumeToEnd ==
  /\ phase = "resume" /\ ready # <<>>
  /\ ready' = Tail(ready)
  /\ LET h == Head(ready)
     IN /\ op' = [op EXCEPT ![h] = "none"]
        /\ awaits' = [awaits EXCEPT ![h] = MaxAwaits]
        /\ DelWatch(FdOf[h])
        /\ rx' = [rx EXCEPT ![h] = 0] /\ tx' = [tx EXCEPT ![h] = 0]
        /\ sent' = [sent EXCEPT ![h] = 0]
        /\ closed' = closed \cup {h}
  /\ UNCHANGED <<phase, completed, rest, tableVars, strayed, events, now>>

ResumeDone ==
  /\ phase = "resume" /\ ready = <<>>
  /\ phase' = "wait"
  /\ UNCHANGED <<ready, completed, rest, tableVars, epollVars, events, now, socketVars, coroVars>>

\* epoll_wait reports the sockets with an edge that are ready still.  A foreign
\* descriptor may report that it hung up or failed, and nothing else.
StillReady(fd) ==
  IF watched[fd].kind = "in" THEN Readable(Owner(fd)) ELSE Writable(Owner(fd))

HungUp(registration) == [registration EXCEPT !.kind = "hup"]

EpollWait ==
  /\ phase = "wait"
  /\ \E hung \in SUBSET (edges \cap Foreign) :
       events' = {watched[fd] : fd \in {f \in edges \ hung : f \in Foreign \/ StillReady(f)}}
                   \cup {HungUp(watched[fd]) : fd \in hung}
  /\ edges' = {}
  /\ phase' = "events"
  /\ UNCHANGED <<ready, completed, rest, tableVars, watched, strayed, now, socketVars, coroVars>>

\* An answered request leaves the tables.
Settle(h, id) ==
  /\ ioIndex2req' = TS!Without(ioIndex2req, {id})
  /\ deadline' = TS!Without(deadline, {id})
  /\ Answer(h)
  /\ UNCHANGED <<ioIndex, fresh>>

HandleGone(e) ==
  /\ e.kind # "hup" /\ e.id \notin DOMAIN ioIndex2req
  /\ UNCHANGED <<phase, completed, rest, tableVars, epollVars, socketVars, coroVars>>

\* variant: a registration outlives its request
KeepWatch(fd) == UNCHANGED epollVars

DropWatch(fd) == DelWatch(fd) /\ UNCHANGED strayed

HandleIn(e) ==
  /\ e.kind = "in" /\ e.id \in DOMAIN ioIndex2req
  /\ LET h == ioIndex2req[e.id]
     IN /\ Readable(h)
        /\ rx' = IF rx[h] > 0 THEN [rx EXCEPT ![h] = @ - 1] ELSE rx
        /\ DropWatch(FdOf[h])
        /\ Settle(h, e.id)
  /\ UNCHANGED <<phase, rest, tx, closed, coroVars>>

HandleOut(e) ==
  /\ e.kind = "out" /\ e.id \in DOMAIN ioIndex2req
  /\ LET h == ioIndex2req[e.id]
         left == WriteSize - sent[h]
     IN /\ tx[h] >= left \/ h \in closed
        /\ tx' = IF h \in closed THEN tx ELSE [tx EXCEPT ![h] = @ - left]
        /\ sent' = [sent EXCEPT ![h] = IF h \in closed THEN 0 ELSE WriteSize]
        /\ DropWatch(FdOf[h])
        /\ Settle(h, e.id)
  /\ UNCHANGED <<phase, rest, rx, closed, awaits, op>>

\* A part fits; the rest is tried by another call.
HandleOutPart(e) ==
  /\ e.kind = "out" /\ e.id \in DOMAIN ioIndex2req
  /\ LET h == ioIndex2req[e.id]
     IN /\ tx[h] > 0 /\ tx[h] < WriteSize - sent[h] /\ h \notin closed
        /\ tx' = [tx EXCEPT ![h] = 0]
        /\ sent' = [sent EXCEPT ![h] = @ + tx[h]]
        /\ rest' = {h}
  /\ UNCHANGED <<phase, completed, tableVars, epollVars, rx, closed, awaits, op>>

\* The assertions that an event's socket does not block (lines 250 and 286).
AssertFails(e) ==
  /\ e.kind # "hup" /\ e.id \in DOMAIN ioIndex2req
  /\ LET h == ioIndex2req[e.id]
     IN ~(IF e.kind = "in" THEN Readable(h) ELSE Writable(h))
  /\ phase' = "aborted"
  /\ UNCHANGED <<completed, rest, tableVars, epollVars, socketVars, coroVars>>

\* An event that is neither EPOLLIN nor EPOLLOUT (line 311), whatever its id.
UnknownEvent(e) ==
  /\ e.kind = "hup"
  /\ phase' = "aborted"
  /\ UNCHANGED <<completed, rest, tableVars, epollVars, socketVars, coroVars>>

HandleEvent ==
  /\ phase = "events" /\ rest = {}
  /\ \E e \in events :
       /\ events' = events \ {e}
       /\ \/ HandleGone(e) \/ HandleIn(e) \/ HandleOut(e) \/ HandleOutPart(e)
          \/ AssertFails(e) \/ UnknownEvent(e)
  /\ UNCHANGED <<ready, now>>

\* variant: every event ends the registration
WatchOnce(fd) == DropWatch(fd)

WatchOn(fd) == UNCHANGED epollVars

\* The second write finds no room, and the registration goes on.
RestBlocks(h) ==
  /\ ~Writable(h)
  /\ WatchOn(FdOf[h])
  /\ rest' = {}
  /\ UNCHANGED <<phase, tx>>

\* The peer made room or closed since the first write: the assertions that the
\* second one blocks (lines 279 and 281) end the process.
RestFails(h) ==
  /\ Writable(h)
  /\ LET left == WriteSize - sent[h]
     IN tx' = IF h \in closed THEN tx ELSE [tx EXCEPT ![h] = IF @ > left THEN @ - left ELSE 0]
  /\ phase' = "aborted"
  /\ UNCHANGED <<rest, epollVars>>

WriteRest ==
  /\ phase = "events"
  /\ \E h \in rest : RestBlocks(h) \/ RestFails(h)
  /\ UNCHANGED <<ready, completed, tableVars, events, now, rx, closed, coroVars>>

\* variant: the answers are copied to the worker and kept
CopyAnswers(late) ==
  /\ ready' = completed
  /\ completed' = completed \o ready \o late

\* poll appends the late requests to readyHandleAddrs and swaps it with the
\* answered ones.
SwapAnswers(late) ==
  /\ ready' = completed
  /\ completed' = ready \o late

\* The late requests stay in the table and in the epoll instance, and the swap
\* makes their coroutines wait for the next poll.
PollEnds ==
  /\ phase = "events" /\ events = {} /\ rest = {}
  /\ \E keys \in Listings(TS!Due \cap DOMAIN ioIndex2req) :
       SwapAnswers([i \in 1 .. Len(keys) |-> ioIndex2req[keys[i]]])
  /\ deadline' = TS!Without(deadline, TS!Due)
  /\ phase' = "resume"
  /\ UNCHANGED <<rest, ioIndex, ioIndex2req, fresh, epollVars, events, now, socketVars, coroVars>>

Worker ==
  \/ \E h \in Handles, timeout \in Timeouts : StartCoroutine(h, timeout)
  \/ \E kind \in {"read", "write"}, timeout \in Timeouts : ResumeToAwait(kind, timeout)
  \/ ResumeToEnd
  \/ ResumeDone
  \/ EpollWait
  \/ HandleEvent
  \/ WriteRest
  \/ PollEnds

------------------------------------------------------------------------------
(* The peers, the owners of the other descriptors and the clock *)

\* A connection ends with the process, with its coroutine or by its peer.
Connected(h) == phase # "aborted" /\ h \notin closed

Wake(h, kind) ==
  edges' = IF FdOf[h] \in DOMAIN watched /\ watched[FdOf[h]].kind = kind
           THEN edges \cup {FdOf[h]} ELSE edges

PeerSends(h) ==
  /\ Connected(h) /\ rx[h] < MaxUnits
  /\ rx' = [rx EXCEPT ![h] = @ + 1]
  /\ Wake(h, "in")
  /\ UNCHANGED <<workerVars, tableVars, watched, strayed, events, now, tx, closed, coroVars>>

PeerReads(h) ==
  /\ Connected(h) /\ tx[h] < MaxUnits
  /\ tx' = [tx EXCEPT ![h] = @ + 1]
  /\ Wake(h, "out")
  /\ UNCHANGED <<workerVars, tableVars, watched, strayed, events, now, rx, closed, coroVars>>

\* The end of a connection is an edge in both directions.
PeerCloses(h) ==
  /\ Connected(h)
  /\ closed' = closed \cup {h}
  /\ edges' = IF FdOf[h] \in DOMAIN watched THEN edges \cup {FdOf[h]} ELSE edges
  /\ UNCHANGED <<workerVars, tableVars, watched, strayed, events, now, rx, tx, coroVars>>

\* A foreign descriptor takes data, hangs up or fails: an edge of its registration.
ForeignWakes ==
  /\ phase # "aborted"
  /\ \E fd \in Foreign \cap DOMAIN watched : edges' = edges \cup {fd}
  /\ UNCHANGED <<workerVars, tableVars, watched, strayed, events, now, socketVars, coroVars>>

\* When it is closed it leaves the epoll instance.
ForeignCloses ==
  /\ phase # "aborted"
  /\ \E fd \in Foreign : DelWatch(fd)
  /\ UNCHANGED <<workerVars, tableVars, strayed, events, now, socketVars, coroVars>>

Tick ==
  /\ now < MaxTime
  /\ now' = now + 1
  /\ UNCHANGED <<workerVars, tableVars, epollVars, events, socketVars, coroVars>>

Next ==
  \/ Worker
  \/ \E h \in Handles : PeerSends(h) \/ PeerReads(h) \/ PeerCloses(h)
  \/ ForeignWakes \/ ForeignCloses
  \/ Tick

Spec == Init /\ [][Next]_vars

FairSpec == Spec /\ WF_vars(Worker)

------------------------------------------------------------------------------
(* Properties *)

Answered(h) == h \in Elems(ready) \/ h \in Elems(completed)

\* The types; every io id in use was handed out, and every armed one is in the
\* table.
TypeOK ==
  /\ phase \in {"resume", "wait", "events", "aborted"}
  /\ ready \in Seq(Handles) /\ completed \in Seq(Handles)
  /\ ioIndex \in Nat
  /\ DOMAIN ioIndex2req \subseteq 0 .. ioIndex - 1
  /\ DOMAIN deadline \subseteq DOMAIN ioIndex2req
  /\ DOMAIN watched \subseteq Sockets \cup OtherFds
  /\ edges \subseteq DOMAIN watched
  /\ events \subseteq [kind : {"in", "out", "hup"}, id : 0 .. ioIndex - 1]
  /\ rest \subseteq Handles
  /\ rx \in [Handles -> 0 .. MaxUnits] /\ tx \in [Handles -> 0 .. MaxUnits]
  /\ sent \in [Handles -> 0 .. WriteSize]
  /\ op \in [Handles -> {"none", "read", "write"}]
  /\ awaits \in [Handles -> 0 .. MaxAwaits]

\* A coroutine is resumed once for each await: it is never twice among those to
\* be resumed, and never there without being suspended.
ResumedOnce ==
  LET all == ready \o completed
  IN /\ Distinct(all)
     /\ \A h \in Elems(all) : op[h] # "none"

\* A suspended read is answered, or its own socket is registered for it and its
\* table entry is there; an edge that is due has not been lost on the way.  And a
\* socket is registered for reading only for the read its coroutine is suspended
\* in: what is answered leaves the epoll instance, so that no later event meets a
\* freed IoRequest and the next registration succeeds.
ReadsAreWatched ==
  phase # "aborted" =>
    /\ \A h \in Handles :
         op[h] = "read" /\ ~Answered(h) =>
           \E id \in DOMAIN ioIndex2req :
             /\ ioIndex2req[id] = h /\ fresh[id] = awaits[h]
             /\ FdOf[h] \in DOMAIN watched
             /\ watched[FdOf[h]] = [kind |-> "in", id |-> id]
             /\ Readable(h) => FdOf[h] \in edges \/ watched[FdOf[h]] \in events
    /\ \A fd \in DOMAIN watched :
         watched[fd].kind = "in" =>
           /\ op[Owner(fd)] = "read" /\ ~Answered(Owner(fd))
           /\ fresh[watched[fd].id] = awaits[Owner(fd)]

\* A suspended write has a rest to send and its socket is registered for it, with no
\* edge lost on the way, and a socket is registered for writing only for such a
\* write, unless an io id was registered in the place of another descriptor's number.
\* And a write is answered when all of it was sent or the peer is gone; otherwise
\* its registration failed, and then its table entry has stayed.
WritesAreWatched ==
  /\ phase # "aborted" /\ ~strayed =>
       /\ \A h \in Handles :
            op[h] = "write" /\ ~Answered(h) =>
              \E id \in DOMAIN ioIndex2req :
                /\ ioIndex2req[id] = h /\ fresh[id] = awaits[h] /\ sent[h] < WriteSize
                /\ FdOf[h] \in DOMAIN watched
                /\ watched[FdOf[h]] = [kind |-> "out", id |-> id]
                /\ Writable(h) => FdOf[h] \in edges \/ watched[FdOf[h]] \in events
       /\ \A fd \in DOMAIN watched :
            watched[fd].kind = "out" =>
              /\ op[Owner(fd)] = "write" /\ ~Answered(Owner(fd))
              /\ fresh[watched[fd].id] = awaits[Owner(fd)]
  /\ \A h \in Handles :
       op[h] = "write" /\ Answered(h) =>
         \/ sent[h] = WriteSize \/ h \in closed
         \/ \E id \in DOMAIN ioIndex2req : ioIndex2req[id] = h /\ fresh[id] = awaits[h]

\* Whatever a coroutine waits for, the epoll instance watches for it.
SuspendedAreWatched == ReadsAreWatched /\ WritesAreWatched

\* What the assertions on an event take for granted is true: its socket does not
\* block (lines 250 and 286) and its kind is known (line 311), unless an io id was
\* once registered in the place of another descriptor's number.  Only the assertions
\* on the second write (279 and 281), where rest is not empty, fail without that: the
\* peer has but to read or to close between the two writes.
AbortNeedsStray == phase = "aborted" /\ rest = {} => strayed

\* A read that has something to return ends, unless an assertion ends the
\* process first.
ReadsEnd ==
  \A h \in Handles : \A n \in 1 .. MaxAwaits :
    (op[h] = "read" /\ awaits[h] = n /\ Readable(h))
      ~> (op[h] # "read" \/ awaits[h] # n \/ phase = "aborted")

\* A write for which there is room ends too, in as many parts as it takes, unless
\* an io id was registered in the place of another descriptor's number, or the process
\* ended at an assertion.
WritesEnd ==
  \A h \in Handles : \A n \in 1 .. MaxAwaits :
    (op[h] = "write" /\ awaits[h] = n /\ (tx[h] >= WriteSize - sent[h] \/ h \in closed))
      ~> (op[h] # "write" \/ awaits[h] # n \/ phase = "aborted" \/ strayed)
==============================================================================
