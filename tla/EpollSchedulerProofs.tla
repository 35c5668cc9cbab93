------------------------ MODULE EpollSchedulerProofs ------------------------
(***************************************************************************)
(* One worker on epoll: for any number of coroutines, whatever the numbers *)
(* of their sockets, and any size of a write.  The types hold with every   *)
(* timeout; what the worker owes a coroutine holds while no await has one, *)
(* since PollEnds leaves a request that expired where it is.               *)
(***************************************************************************)
EXTENDS EpollScheduler, ElementsProofs, FiniteSetTheorems, TLAPS

\* static_web_http and every other await without a timeout
NoTimeouts == Timeouts \subseteq {0}

Pending == DOMAIN ioIndex2req
Registrations == [kind : {"in", "out"}, id : 0 .. ioIndex - 1]
Reports == [kind : {"in", "out", "hup"}, id : 0 .. ioIndex - 1]
Numbers == Sockets \cup OtherFds

TypeInv ==
  /\ TypeOK
  /\ \A id \in Pending : ioIndex2req[id] \in Handles
  /\ \A fd \in DOMAIN watched : watched[fd] \in Registrations

\* A coroutine has one answer at most; the answers are handed over between two
\* polls, when no event is left and none is resumed.
AnswersInv ==
  /\ Distinct(ready) /\ Distinct(completed) /\ Elems(ready) \cap Elems(completed) = {}
  /\ \A h \in Handles : Answered(h) => op[h] # "none"
  /\ \A h \in Handles : awaits[h] = 0 => op[h] = "none"
  /\ phase \in {"resume", "wait"} => events = {}
  /\ phase # "resume" => ready = <<>>
  /\ DOMAIN deadline = {}

\* An io id names one await of one coroutine.
IdsInv ==
  /\ DOMAIN fresh = 0 .. ioIndex - 1
  /\ \A id \in Pending : fresh[id] \in Nat /\ fresh[id] <= awaits[ioIndex2req[id]]
  /\ \A i, j \in Pending :
       ioIndex2req[i] = ioIndex2req[j] /\ fresh[i] = fresh[j] => i = j

\* h is suspended in the await that id was made for.
Waits(h, kind, id) == op[h] = kind /\ ~Answered(h) /\ fresh[id] = awaits[h]

\* A registration for reading is on the socket of the coroutine that reads.  One for
\* writing is for a coroutine that writes, or for a request that is gone; its socket
\* is another's only if an io id strayed, and so is a number that is no open socket.
Serves(fd, kind, id) ==
  /\ kind = "in" =>
       /\ fd \in Sockets /\ id \in Pending /\ ioIndex2req[id] = Owner(fd)
       /\ Waits(Owner(fd), "read", id)
  /\ kind = "out" /\ id \in Pending =>
       /\ Waits(ioIndex2req[id], "write", id)
       /\ strayed \/ fd = FdOf[ioIndex2req[id]]
  /\ strayed \/ fd \in Open

WatchInv == \A fd \in DOMAIN watched : Serves(fd, watched[fd].kind, watched[fd].id)

\* An event is for a registration that is there still, and its socket does not block;
\* only a foreign descriptor reports something else.
EventsInv ==
  phase = "events" => \A e \in events :
    /\ e.kind = "hup" => strayed
    /\ e.id \in Pending =>
      LET h == ioIndex2req[e.id]
      IN /\ e.kind = "in" =>
              FdOf[h] \in DOMAIN watched /\ watched[FdOf[h]] = e /\ Readable(h)
         /\ e.kind = "out" =>
              Waits(h, "write", e.id) /\ (strayed \/ Writable(h))

IInv ==
  /\ TypeInv /\ AnswersInv /\ IdsInv /\ WatchInv /\ EventsInv
  /\ ReadsAreWatched /\ AbortNeedsStray

------------------------------------------------------------------------------
(* Types *)

TableTyped ==
  /\ ioIndex \in Nat /\ Pending \subseteq 0 .. ioIndex - 1
  /\ \A id \in Pending : ioIndex2req[id] \in Handles
  /\ DOMAIN deadline \subseteq Pending
WatchTyped ==
  /\ DOMAIN watched \subseteq Numbers /\ edges \subseteq DOMAIN watched
  /\ \A fd \in DOMAIN watched : watched[fd] \in Registrations
  /\ events \subseteq Reports
SocketsTyped ==
  /\ rx \in [Handles -> 0 .. MaxUnits] /\ tx \in [Handles -> 0 .. MaxUnits]
  /\ sent \in [Handles -> 0 .. WriteSize]
CoroutinesTyped ==
  /\ phase \in {"resume", "wait", "events", "aborted"}
  /\ ready \in Seq(Handles) /\ completed \in Seq(Handles)
  /\ rest \subseteq Handles
  /\ op \in [Handles -> {"none", "read", "write"}]
  /\ awaits \in [Handles -> 0 .. MaxAwaits]

RecordsGrow == Registrations \subseteq Registrations' /\ Reports \subseteq Reports'

LEMMA TypeParts ==
  /\ TypeInv <=> TableTyped /\ WatchTyped /\ SocketsTyped /\ CoroutinesTyped
  /\ TypeInv' <=> TableTyped' /\ WatchTyped' /\ SocketsTyped' /\ CoroutinesTyped'
BY DEF TypeInv, TypeOK, TableTyped, WatchTyped, SocketsTyped, CoroutinesTyped, Registrations,
       Reports, Numbers, Pending

\* A socket belongs to one coroutine.
LEMMA Owners ==
  /\ \A h \in Handles : FdOf[h] \in Sockets /\ Owner(FdOf[h]) = h
  /\ \A fd \in Sockets : Owner(fd) \in Handles /\ FdOf[Owner(fd)] = fd
BY EpollAssumption DEF Owner, Sockets

\* A suspended coroutine has its socket; the numbers of open sockets are not foreign.
LEMMA OpenFacts ==
  /\ \A h \in Handles : op[h] # "none" => FdOf[h] \in Open
  /\ \A fd \in Open : fd \in Sockets /\ fd \notin Foreign
  /\ op' = op /\ awaits' = awaits => Open' = Open
BY EpollAssumption DEF Open, Foreign, Sockets

\* What an io id is given to.
LEMMA NewIdFacts ==
  ASSUME TypeInv, NEW h \in Handles, NewId(h)
  PROVE  /\ ioIndex \in Nat /\ ioIndex' = ioIndex + 1 /\ ioIndex \notin Pending
         /\ Pending' = Pending \cup {ioIndex} /\ ioIndex2req'[ioIndex] = h
         /\ \A id \in Pending : ioIndex2req'[id] = ioIndex2req[id]
         /\ DOMAIN fresh' = DOMAIN fresh \cup {ioIndex} /\ fresh'[ioIndex] = awaits[h] + 1
         /\ \A id \in DOMAIN fresh \ {ioIndex} : fresh'[id] = fresh[id]
<1>1. TableTyped
  BY TypeParts
<1>2. ioIndex \in Nat /\ ioIndex \notin Pending
  BY <1>1 DEF TableTyped
<1> QED BY <1>2 DEF NewId, TS!With, Pending

LEMMA NewIdTyped ==
  ASSUME TypeInv, NEW h \in Handles, NewId(h),
         NEW timeout \in Nat, ArmTimer(timeout) \/ deadline' = deadline
  PROVE  TableTyped' /\ RecordsGrow
<1>1. TableTyped
  BY TypeParts
<1>2. DOMAIN deadline' \subseteq DOMAIN deadline \cup {ioIndex}
  <2>1. CASE deadline' = deadline
    BY <2>1
  <2>2. CASE deadline' = TS!With(deadline, ioIndex, now + timeout)
    BY <2>2 DEF TS!With
  <2> QED BY <2>1, <2>2 DEF ArmTimer
<1>3. RecordsGrow
  BY <1>1, NewIdFacts DEF RecordsGrow, Registrations, Reports, TableTyped
<1>4. ioIndex' \in Nat /\ Pending' \subseteq 0 .. ioIndex' - 1
  <2>1. ioIndex \in Nat /\ ioIndex' = ioIndex + 1 /\ Pending' = Pending \cup {ioIndex}
    BY NewIdFacts
  <2>2. Pending \subseteq 0 .. ioIndex - 1
    BY <1>1 DEF TableTyped
  <2> QED BY <2>1, <2>2
<1>5. \A id \in Pending' : ioIndex2req'[id] \in Handles
  BY <1>1, NewIdFacts DEF TableTyped
<1>6. DOMAIN deadline' \subseteq Pending'
  BY <1>1, <1>2, NewIdFacts DEF TableTyped
<1> QED BY <1>3, <1>4, <1>5, <1>6 DEF TableTyped

\* What epoll_ctl adds and removes.
LEMMA AddWatchFacts ==
  ASSUME NEW fd, NEW kind, NEW id, AddWatch(fd, kind, id), fd \notin DOMAIN watched
  PROVE  /\ DOMAIN watched' = DOMAIN watched \cup {fd}
         /\ watched'[fd] = [kind |-> kind, id |-> id]
         /\ \A f \in DOMAIN watched : watched'[f] = watched[f]
         /\ edges \subseteq edges' /\ edges' \subseteq edges \cup {fd}
         /\ fd \in Open /\ kind = "in" /\ Readable(Owner(fd)) => fd \in edges'
BY DEF AddWatch, TS!With

LEMMA DelWatchFacts ==
  ASSUME NEW fd, DelWatch(fd)
  PROVE  /\ DOMAIN watched' = DOMAIN watched \ {fd}
         /\ \A f \in DOMAIN watched' : watched'[f] = watched[f]
         /\ edges' = edges \ {fd}
BY DEF DelWatch, TS!Without

LEMMA AddWatchTyped ==
  ASSUME TypeInv, NEW h \in Handles, NewId(h), NEW fd, CanAdd(fd), NEW kind \in {"in", "out"},
         AddWatch(fd, kind, ioIndex), events' = events, RecordsGrow
  PROVE  WatchTyped'
<1>1. WatchTyped /\ ioIndex \in Nat /\ ioIndex' = ioIndex + 1
  BY TypeParts, NewIdFacts
<1>2. [kind |-> kind, id |-> ioIndex] \in Registrations'
  BY <1>1 DEF Registrations
<1>3. /\ DOMAIN watched' = DOMAIN watched \cup {fd}
      /\ watched'[fd] = [kind |-> kind, id |-> ioIndex]
      /\ \A f \in DOMAIN watched : watched'[f] = watched[f]
      /\ edges' \subseteq edges \cup {fd}
  BY AddWatchFacts DEF CanAdd
<1> QED BY <1>1, <1>2, <1>3 DEF WatchTyped, CanAdd, RecordsGrow, Numbers

LEMMA DelWatchTyped ==
  ASSUME TypeInv, NEW fd, DelWatch(fd), events' \subseteq events, ioIndex' = ioIndex
  PROVE  WatchTyped'
<1>1. WatchTyped /\ Registrations' = Registrations /\ Reports' = Reports
  BY TypeParts DEF Registrations, Reports
<1> QED BY <1>1, DelWatchFacts DEF WatchTyped

\* Nothing of the registrations changes but that events are handled.
LEMMA SameWatchTyped ==
  ASSUME TypeInv, UNCHANGED <<watched, edges>>, events' \subseteq events,
         RecordsGrow
  PROVE  WatchTyped'
<1>1. WatchTyped
  BY TypeParts
<1> QED BY <1>1 DEF WatchTyped, RecordsGrow

\* The read or write that an await starts with.
LEMMA AwaitTyped ==
  ASSUME TypeInv, NEW h \in Handles, NEW kind \in {"read", "write"}, NEW timeout \in Timeouts,
         Await(h, kind, timeout), ready' \in Seq(Handles), UNCHANGED <<phase, rest, events>>
  PROVE  TypeInv'
<1>1. TableTyped /\ WatchTyped /\ SocketsTyped /\ CoroutinesTyped
  BY TypeParts
<1>2. timeout \in Nat /\ WriteSize \in Nat /\ MaxUnits \in Nat /\ MaxAwaits \in Nat
  BY EpollAssumption
<1>3. completed' \in Seq(Handles)
  <2>1. completed' = Append(completed, h) \/ completed' = completed
    BY DEF Await, ReadNow, ReadLater, WriteNow, WriteLater, Answer
  <2>2. completed \in Seq(Handles)
    BY <1>1 DEF CoroutinesTyped
  <2>3. Append(completed, h) \in Seq(Handles)
    BY <2>2, AppendElems
  <2> QED BY <2>1, <2>2, <2>3
<1>4. CoroutinesTyped'
  BY <1>1, <1>2, <1>3 DEF CoroutinesTyped, Await
<1>5. SocketsTyped'
  <2> USE <1>1, <1>2 DEF SocketsTyped
  <2>1. CASE ReadNow(h)
    BY <2>1 DEF ReadNow
  <2>2. CASE ReadLater(h, timeout)
    BY <2>2 DEF ReadLater
  <2>3. CASE WriteNow(h)
    BY <2>3 DEF WriteNow
  <2>4. CASE WriteLater(h, timeout)
    BY <2>4 DEF WriteLater
  <2> QED BY <2>1, <2>2, <2>3, <2>4 DEF Await
<1>6. CASE ReadNow(h) \/ WriteNow(h)
  <2>1. UNCHANGED <<tableVars, epollVars>>
    BY <1>6 DEF ReadNow, WriteNow
  <2>2. TableTyped' /\ WatchTyped'
    BY <1>1, <2>1 DEF TableTyped, WatchTyped, Registrations, Reports, Pending, tableVars, epollVars
  <2> QED BY <1>4, <1>5, <2>2, TypeParts
<1>7. CASE ReadLater(h, timeout) \/ WriteLater(h, timeout)
  <2>1. NewId(h) /\ (ArmTimer(timeout) \/ deadline' = deadline)
    BY <1>7 DEF ReadLater, WriteLater
  <2>2. TableTyped' /\ RecordsGrow
    BY <1>2, <2>1, NewIdTyped
  <2>3. CASE UNCHANGED epollVars
    <3>1. WatchTyped'
      BY <2>2, <2>3, SameWatchTyped DEF epollVars
    <3> QED BY <1>4, <1>5, <2>2, <3>1, TypeParts
  <2>4. CASE \E fd \in Nat, k \in {"in", "out"} : CanAdd(fd) /\ AddWatch(fd, k, ioIndex)
    <3>1. WatchTyped'
      BY <2>1, <2>2, <2>4, AddWatchTyped
    <3> QED BY <1>4, <1>5, <2>2, <3>1, TypeParts
  <2>5. FdOf[h] \in Nat /\ ioIndex \in Nat
    BY <1>1, EpollAssumption DEF TableTyped
  <2> QED BY <1>7, <2>3, <2>4, <2>5 DEF ReadLater, WriteLater
<1> QED BY <1>6, <1>7 DEF Await

LEMMA InitTyped == Init => TypeInv
<1> SUFFICES ASSUME Init PROVE TypeInv
  OBVIOUS
<1> USE EpollAssumption DEF Init
<1>1. ready \in Seq(Handles) /\ completed \in Seq(Handles)
  BY EmptySeq
<1>2. TableTyped /\ WatchTyped
  BY DEF TableTyped, WatchTyped, Pending
<1>3. SocketsTyped /\ CoroutinesTyped
  BY <1>1 DEF SocketsTyped, CoroutinesTyped
<1> QED BY <1>2, <1>3, TypeParts

LEMMA ResumeTyped ==
  ASSUME TypeInv, phase = "resume",
         \/ \E h \in Handles, timeout \in Timeouts : StartCoroutine(h, timeout)
         \/ \E kind \in {"read", "write"}, timeout \in Timeouts : ResumeToAwait(kind, timeout)
         \/ ResumeToEnd
  PROVE  TypeInv'
<1>1. ready \in Seq(Handles)
  BY TypeParts DEF CoroutinesTyped
<1>2. ASSUME NEW h \in Handles, NEW timeout \in Timeouts, StartCoroutine(h, timeout)
      PROVE  TypeInv'
  BY <1>1, <1>2, AwaitTyped DEF StartCoroutine
<1>3. ready # <<>> => Head(ready) \in Handles /\ Tail(ready) \in Seq(Handles)
  BY <1>1
<1>4. ASSUME NEW kind \in {"read", "write"}, NEW timeout \in Timeouts, ResumeToAwait(kind, timeout)
      PROVE  TypeInv'
  <2>1. PICK h \in Handles : h = Head(ready)
    BY <1>3, <1>4 DEF ResumeToAwait
  <2>2. ready' \in Seq(Handles)
    BY <1>3, <1>4 DEF ResumeToAwait
  <2>3. Await(h, kind, timeout) /\ UNCHANGED <<phase, rest, events>>
    BY <1>4, <2>1 DEF ResumeToAwait
  <2> QED BY <2>2, <2>3, AwaitTyped
<1>5. CASE ResumeToEnd
  <2>1. PICK h \in Handles : h = Head(ready)
    BY <1>3, <1>5 DEF ResumeToEnd
  <2>2. ready' \in Seq(Handles)
    BY <1>3, <1>5 DEF ResumeToEnd
  <2>3. /\ op' = [op EXCEPT ![h] = "none"] /\ awaits' = [awaits EXCEPT ![h] = MaxAwaits]
        /\ DelWatch(FdOf[h])
        /\ rx' = [rx EXCEPT ![h] = 0] /\ tx' = [tx EXCEPT ![h] = 0] /\ sent' = [sent EXCEPT ![h] = 0]
        /\ UNCHANGED <<phase, completed, rest, tableVars, events>>
    BY <1>5, <2>1 DEF ResumeToEnd
  <2>4. WatchTyped'
    BY <2>3, DelWatchTyped DEF tableVars
  <2>5. TableTyped'
    BY <2>3, TypeParts DEF TableTyped, Pending, tableVars
  <2>6. MaxAwaits \in 0 .. MaxAwaits /\ 0 \in 0 .. MaxUnits /\ 0 \in 0 .. WriteSize
    BY EpollAssumption
  <2>8. SocketsTyped'
    BY <2>3, <2>6, TypeParts DEF SocketsTyped
  <2>7. CoroutinesTyped'
    BY <2>2, <2>3, <2>6, TypeParts DEF CoroutinesTyped
  <2> QED BY <2>4, <2>5, <2>7, <2>8, TypeParts
<1> QED BY <1>2, <1>4, <1>5

LEMMA EpollWaitTyped ==
  ASSUME TypeInv, EpollWait
  PROVE  TypeInv'
<1>1. PICK hung \in SUBSET edges :
        /\ events' = {watched[fd] : fd \in {f \in edges \ hung : f \in Foreign \/ StillReady(f)}}
                        \cup {HungUp(watched[fd]) : fd \in hung}
        /\ edges' = {} /\ UNCHANGED <<ioIndex, watched>>
  BY DEF EpollWait, tableVars
<1>2. WatchTyped
  BY TypeParts
<1>3. \A fd \in edges : watched[fd] \in Reports /\ HungUp(watched[fd]) \in Reports
  BY <1>2 DEF WatchTyped, Registrations, Reports, HungUp
<1>4. WatchTyped'
  BY <1>1, <1>2, <1>3 DEF WatchTyped, Registrations, Reports
<1>5. TableTyped' /\ SocketsTyped' /\ CoroutinesTyped'
  BY TypeParts
  DEF EpollWait, TableTyped, SocketsTyped, CoroutinesTyped, Pending, tableVars, socketVars, coroVars
<1> QED BY <1>4, <1>5, TypeParts

\* An event answers one request at most.
LEMMA SettleTyped ==
  ASSUME TypeInv, NEW h \in Handles, NEW id, Settle(h, id)
  PROVE  TableTyped' /\ completed' \in Seq(Handles)
<1>1. Pending' \subseteq Pending /\ \A k \in Pending' : ioIndex2req'[k] = ioIndex2req[k]
  BY DEF Settle, TS!Without, Pending
<1>2. DOMAIN deadline' \subseteq Pending'
  BY TypeParts DEF Settle, TS!Without, Pending, TableTyped
<1>3. TableTyped'
  BY <1>1, <1>2, TypeParts DEF TableTyped, Settle
<1>4. completed \in Seq(Handles)
  BY TypeParts DEF CoroutinesTyped
<1>5. Append(completed, h) \in Seq(Handles)
  BY <1>4, AppendElems
<1> QED BY <1>3, <1>5 DEF Settle, Answer

LEMMA HandleEventTyped ==
  ASSUME TypeInv, HandleEvent
  PROVE  TypeInv'
<1>1. PICK e \in events :
        /\ events' = events \ {e}
        /\ \/ HandleGone(e) \/ HandleIn(e) \/ HandleOut(e) \/ HandleOutPart(e)
           \/ AssertFails(e) \/ UnknownEvent(e)
  BY DEF HandleEvent
<1>2. UNCHANGED <<ready, now>>
  BY DEF HandleEvent
<1>3. TableTyped /\ WatchTyped /\ SocketsTyped /\ CoroutinesTyped
  BY TypeParts
<1>4. CASE HandleGone(e) \/ AssertFails(e) \/ UnknownEvent(e)
  <2>1. WatchTyped'
    BY <1>1, <1>4, SameWatchTyped
    DEF HandleGone, AssertFails, UnknownEvent, epollVars, tableVars, RecordsGrow, Registrations, Reports
  <2>2. TableTyped' /\ SocketsTyped' /\ CoroutinesTyped'
    BY <1>2, <1>3, <1>4
    DEF HandleGone, AssertFails, UnknownEvent, TableTyped, SocketsTyped, CoroutinesTyped,
        Pending, tableVars, socketVars, coroVars
  <2> QED BY <2>1, <2>2, TypeParts
<1> DEFINE h == ioIndex2req[e.id]
<1>5. e.id \in Pending => h \in Handles
  BY <1>3 DEF TableTyped
<1>6. WriteSize \in Nat /\ MaxUnits \in Nat
  BY EpollAssumption
<1>7. CASE HandleIn(e)
  <2>1. /\ e.id \in Pending /\ DelWatch(FdOf[h]) /\ Settle(h, e.id)
        /\ rx' = IF rx[h] > 0 THEN [rx EXCEPT ![h] = @ - 1] ELSE rx
        /\ UNCHANGED <<phase, rest, tx, closed, coroVars>>
    BY <1>7 DEF HandleIn, DropWatch, Pending
  <2> HIDE DEF h
  <2>2. TableTyped' /\ completed' \in Seq(Handles)
    BY <1>5, <2>1, SettleTyped
  <2>3. WatchTyped'
    BY <1>1, <2>1, DelWatchTyped DEF Settle
  <2>4. SocketsTyped'
    BY <1>3, <1>5, <1>6, <2>1 DEF SocketsTyped, coroVars
  <2>5. CoroutinesTyped'
    BY <1>2, <1>3, <2>1, <2>2 DEF CoroutinesTyped, coroVars
  <2> QED BY <2>2, <2>3, <2>4, <2>5, TypeParts
<1>8. CASE HandleOut(e)
  <2>1. /\ e.id \in Pending /\ DelWatch(FdOf[h]) /\ Settle(h, e.id)
        /\ tx[h] >= WriteSize - sent[h] \/ h \in closed
        /\ tx' = IF h \in closed THEN tx ELSE [tx EXCEPT ![h] = @ - (WriteSize - sent[h])]
        /\ sent' = [sent EXCEPT ![h] = IF h \in closed THEN 0 ELSE WriteSize]
        /\ UNCHANGED <<phase, rest, rx, closed, awaits, op>>
    BY <1>8 DEF HandleOut, DropWatch, Pending
  <2> HIDE DEF h
  <2>2. TableTyped' /\ completed' \in Seq(Handles)
    BY <1>5, <2>1, SettleTyped
  <2>3. WatchTyped'
    BY <1>1, <2>1, DelWatchTyped DEF Settle
  <2>4. SocketsTyped'
    BY <1>3, <1>5, <1>6, <2>1 DEF SocketsTyped
  <2>5. CoroutinesTyped'
    BY <1>2, <1>3, <2>1, <2>2 DEF CoroutinesTyped
  <2> QED BY <2>2, <2>3, <2>4, <2>5, TypeParts
<1>9. CASE HandleOutPart(e)
  <2>1. /\ e.id \in Pending
        /\ tx[h] > 0 /\ tx[h] < WriteSize - sent[h]
        /\ tx' = [tx EXCEPT ![h] = 0] /\ sent' = [sent EXCEPT ![h] = @ + tx[h]]
        /\ rest' = {h}
        /\ UNCHANGED <<epollVars, phase, completed, tableVars, rx, closed, awaits, op>>
    BY <1>9 DEF HandleOutPart, Pending
  <2> HIDE DEF h
  <2>2. TableTyped' /\ CoroutinesTyped'
    BY <1>2, <1>3, <1>5, <2>1 DEF TableTyped, CoroutinesTyped, Pending, tableVars
  <2>3. WatchTyped'
    BY <1>1, <2>1, SameWatchTyped DEF epollVars, tableVars, RecordsGrow, Registrations, Reports
  <2>4. SocketsTyped'
    BY <1>3, <1>5, <1>6, <2>1 DEF SocketsTyped
  <2> QED BY <2>2, <2>3, <2>4, TypeParts
<1> QED BY <1>1, <1>4, <1>7, <1>8, <1>9

LEMMA WriteRestTyped ==
  ASSUME TypeInv, WriteRest
  PROVE  TypeInv'
<1>1. PICK h \in rest : RestBlocks(h) \/ RestFails(h)
  BY DEF WriteRest
<1>2. UNCHANGED <<ready, completed, tableVars, events, now, rx, closed, coroVars>>
  BY DEF WriteRest
<1>3. /\ epollVars' = epollVars /\ phase' \in {phase, "aborted"} /\ rest' \in {rest, {}}
  BY <1>1 DEF RestBlocks, RestFails, WatchOn
<1>4. TableTyped /\ SocketsTyped /\ CoroutinesTyped /\ WriteSize \in Nat /\ MaxUnits \in Nat
  BY TypeParts, EpollAssumption
<1>5. TableTyped' /\ CoroutinesTyped'
  BY <1>2, <1>3, <1>4 DEF TableTyped, CoroutinesTyped, Pending, tableVars, coroVars
<1>6. WatchTyped'
  BY <1>2, <1>3, SameWatchTyped DEF epollVars, tableVars, RecordsGrow, Registrations, Reports
<1>7. SocketsTyped'
  <2>1. tx[h] \in 0 .. MaxUnits /\ WriteSize - sent[h] \in Nat
    BY <1>1, <1>4 DEF SocketsTyped, CoroutinesTyped
  <2>2. \/ tx' = tx
        \/ tx' = [tx EXCEPT ![h] = IF @ > WriteSize - sent[h] THEN @ - (WriteSize - sent[h]) ELSE 0]
    BY <1>1 DEF RestBlocks, RestFails
  <2>3. tx' \in [Handles -> 0 .. MaxUnits]
    BY <1>4, <2>1, <2>2 DEF SocketsTyped
  <2> QED BY <1>2, <1>4, <2>3 DEF SocketsTyped, coroVars
<1> QED BY <1>5, <1>6, <1>7, TypeParts

\* The coroutines of the requests that expired.
LEMMA LateTyped ==
  ASSUME TypeInv, NEW keys \in Listings(TS!Due \cap DOMAIN ioIndex2req)
  PROVE  [i \in 1 .. Len(keys) |-> ioIndex2req[keys[i]]] \in Seq(Handles)
<1>1. keys \in Seq(TS!Due \cap Pending)
  BY DEF Listings, TS!IsListing, Pending
<1>2. Len(keys) \in Nat /\ \A i \in 1 .. Len(keys) : keys[i] \in Pending
  BY <1>1
<1>3. \A i \in 1 .. Len(keys) : ioIndex2req[keys[i]] \in Handles
  BY <1>2, TypeParts DEF TableTyped
<1> QED BY <1>2, <1>3

LEMMA PollEndsTyped ==
  ASSUME TypeInv, PollEnds
  PROVE  TypeInv'
<1>1. /\ deadline' = TS!Without(deadline, TS!Due) /\ phase' = "resume"
      /\ UNCHANGED <<rest, ioIndex, ioIndex2req, fresh, epollVars, events, now, socketVars, coroVars>>
  BY DEF PollEnds
<1>2. PICK late \in Seq(Handles) : SwapAnswers(late)
  BY LateTyped DEF PollEnds
<1>3. ready' \in Seq(Handles) /\ completed' \in Seq(Handles)
  <2>1. ready \in Seq(Handles) /\ completed \in Seq(Handles)
    BY TypeParts DEF CoroutinesTyped
  <2>2. ready \o late \in Seq(Handles)
    BY <2>1, ConcatElems
  <2> QED BY <1>2, <2>1, <2>2 DEF SwapAnswers
<1>4. DOMAIN deadline' \subseteq DOMAIN deadline
  BY <1>1 DEF TS!Without
<1>5. TableTyped' /\ SocketsTyped'
  BY <1>1, <1>4, TypeParts DEF TableTyped, SocketsTyped, Pending, socketVars, coroVars
<1>6. WatchTyped'
  BY <1>1, SameWatchTyped DEF epollVars, RecordsGrow, Registrations, Reports
<1>7. CoroutinesTyped'
  BY <1>1, <1>3, TypeParts DEF CoroutinesTyped, coroVars
<1> QED BY <1>5, <1>6, <1>7, TypeParts

LEMMA PeersTyped ==
  ASSUME TypeInv, NEW h \in Handles, PeerSends(h) \/ PeerReads(h) \/ PeerCloses(h)
  PROVE  TypeInv'
<1>1. UNCHANGED <<workerVars, tableVars, watched, strayed, events, now, coroVars>>
  BY DEF PeerSends, PeerReads, PeerCloses
<1>2. edges' \subseteq DOMAIN watched
  BY TypeParts DEF PeerSends, PeerReads, PeerCloses, Wake, WatchTyped
<1>3. TableTyped' /\ CoroutinesTyped'
  BY <1>1, TypeParts DEF TableTyped, CoroutinesTyped, Pending, workerVars, tableVars, coroVars
<1>4. WatchTyped'
  BY <1>1, <1>2, TypeParts DEF WatchTyped, Registrations, Reports, tableVars
<1>5. SocketsTyped'
  BY <1>1, EpollAssumption, TypeParts DEF PeerSends, PeerReads, PeerCloses, SocketsTyped, coroVars
<1> QED BY <1>3, <1>4, <1>5, TypeParts

LEMMA ForeignTyped ==
  ASSUME TypeInv, ForeignWakes \/ ForeignCloses
  PROVE  TypeInv'
<1>1. UNCHANGED <<workerVars, tableVars, strayed, events, now, socketVars, coroVars>>
  BY DEF ForeignWakes, ForeignCloses
<1>2. TableTyped' /\ CoroutinesTyped' /\ SocketsTyped'
  BY <1>1, TypeParts
  DEF TableTyped, CoroutinesTyped, SocketsTyped, Pending, workerVars, tableVars, socketVars, coroVars
<1>3. CASE ForeignWakes
  <2>1. WatchTyped'
    BY <1>1, <1>3, TypeParts DEF ForeignWakes, WatchTyped, Registrations, Reports, tableVars
  <2> QED BY <1>2, <2>1, TypeParts
<1>4. CASE ForeignCloses
  <2>1. WatchTyped'
    BY <1>1, <1>4, DelWatchTyped DEF ForeignCloses, tableVars
  <2> QED BY <1>2, <2>1, TypeParts
<1> QED BY <1>3, <1>4

LEMMA NextTyped == TypeInv /\ [Next]_vars => TypeInv'
<1> SUFFICES ASSUME TypeInv, [Next]_vars PROVE TypeInv'
  OBVIOUS
<1>1. CASE \/ \E h \in Handles, timeout \in Timeouts : StartCoroutine(h, timeout)
           \/ \E kind \in {"read", "write"}, timeout \in Timeouts : ResumeToAwait(kind, timeout)
           \/ ResumeToEnd
  BY <1>1, ResumeTyped DEF StartCoroutine, ResumeToAwait, ResumeToEnd
<1>2. CASE EpollWait
  BY <1>2, EpollWaitTyped
<1>3. CASE HandleEvent
  BY <1>3, HandleEventTyped
<1>4. CASE PollEnds
  BY <1>4, PollEndsTyped
<1>5. ASSUME NEW h \in Handles, PeerSends(h) \/ PeerReads(h) \/ PeerCloses(h) PROVE TypeInv'
  BY <1>5, PeersTyped
<1>6. CASE WriteRest
  BY <1>6, WriteRestTyped
<1>7. CASE ForeignWakes \/ ForeignCloses
  BY <1>7, ForeignTyped
<1>8. CASE ResumeDone \/ Tick \/ UNCHANGED vars
  <2>1. /\ UNCHANGED <<ready, completed, rest, tableVars, epollVars, events, socketVars, coroVars>>
        /\ phase' \in {phase, "wait"}
    BY <1>8 DEF ResumeDone, Tick, vars, workerVars
  <2>2. TableTyped' /\ WatchTyped'
    BY <2>1, TypeParts DEF TableTyped, WatchTyped, Registrations, Reports, Pending, tableVars, epollVars
  <2>3. SocketsTyped' /\ CoroutinesTyped'
    BY <2>1, TypeParts DEF SocketsTyped, CoroutinesTyped, socketVars, coroVars
  <2> QED BY <2>2, <2>3, TypeParts
<1> QED BY <1>1, <1>2, <1>3, <1>4, <1>5, <1>6, <1>7, <1>8 DEF Next, Worker

------------------------------------------------------------------------------
(* A coroutine that awaits *)

\* Nothing is registered for a coroutine that was answered, or that never awaited.
LEMMA NothingWatched ==
  ASSUME IInv, NEW h \in Handles, Answered(h) \/ op[h] = "none"
  PROVE  \A fd \in DOMAIN watched :
           /\ watched[fd].kind = "in" => Owner(fd) # h
           /\ watched[fd].id \in Pending => ioIndex2req[watched[fd].id] # h
<1> SUFFICES ASSUME NEW fd \in DOMAIN watched
             PROVE  /\ watched[fd].kind = "in" => Owner(fd) # h
                    /\ watched[fd].id \in Pending => ioIndex2req[watched[fd].id] # h
  OBVIOUS
<1>1. watched[fd].kind \in {"in", "out"}
  BY DEF IInv, TypeInv, Registrations
<1> QED BY <1>1 DEF IInv, WatchInv, Serves, Waits

\* What an await does to the socket, the tables and the answers: it is answered at
\* once or registered under a fresh io id.
AnsweredAtOnce(h) ==
  /\ completed' = Append(completed, h)
  /\ UNCHANGED epollVars

Registered(h, kind) ==
  \E fd \in Nat :
    /\ NewId(h) /\ CanAdd(fd) /\ completed' = completed
    /\ \/ /\ kind = "read" /\ fd = FdOf[h] /\ ~Readable(h)
          /\ AddWatch(fd, "in", ioIndex) /\ strayed' = strayed
       \/ /\ kind = "write"
          /\ AddWatch(fd, "out", ioIndex) /\ strayed' = (strayed \/ fd # FdOf[h])

LEMMA AwaitFacts ==
  ASSUME NoTimeouts, IInv, NEW h \in Handles, NEW kind \in {"read", "write"},
         NEW timeout \in Timeouts, Await(h, kind, timeout)
  PROVE  /\ AnsweredAtOnce(h) \/ Registered(h, kind)
         /\ UNCHANGED tableVars \/ NewId(h)
         /\ DOMAIN deadline' = {}
         /\ closed' = closed /\ \A g \in Handles \ {h} : rx'[g] = rx[g]
         /\ Readable(h)' => Readable(h)
         /\ awaits'[h] = awaits[h] + 1 /\ op'[h] = kind
         /\ \A g \in Handles \ {h} : awaits'[g] = awaits[g] /\ op'[g] = op[g]
<1>1. timeout = 0 /\ DOMAIN deadline = {}
  BY DEF NoTimeouts, IInv, AnswersInv
<1>2. SocketsTyped /\ CoroutinesTyped /\ TableTyped
  BY TypeParts DEF IInv
<1>3. AnsweredAtOnce(h) \/ Registered(h, kind)
  <2>1. CASE ReadNow(h) \/ WriteNow(h)
    BY <2>1 DEF ReadNow, WriteNow, AnsweredAtOnce, Answer
  <2>2. CASE kind = "read" /\ ReadLater(h, timeout)
    BY <2>2, EpollAssumption DEF ReadLater, AnsweredAtOnce, Registered, Answer
  <2>3. CASE kind = "write" /\ WriteLater(h, timeout)
    BY <1>2, <2>3 DEF WriteLater, AnsweredAtOnce, Registered, Answer, TableTyped
  <2> QED BY <2>1, <2>2, <2>3 DEF Await
<1>4. UNCHANGED tableVars \/ NewId(h)
  BY DEF Await, ReadNow, ReadLater, WriteNow, WriteLater
<1>5. DOMAIN deadline' = {}
  BY <1>1 DEF Await, ReadNow, ReadLater, WriteNow, WriteLater, ArmTimer, tableVars
<1>6. /\ closed' = closed /\ \A g \in Handles \ {h} : rx'[g] = rx[g]
      /\ rx'[h] <= rx[h] /\ rx'[h] \in Nat
  <2>1. rx[h] \in Nat /\ rx \in [Handles -> 0 .. MaxUnits]
    BY <1>2 DEF SocketsTyped
  <2>2. closed' = closed /\ (rx' = rx \/ (rx[h] > 0 /\ rx' = [rx EXCEPT ![h] = @ - 1]))
    BY DEF Await, ReadNow, ReadLater, WriteNow, WriteLater
  <2> QED BY <2>1, <2>2
<1>7. Readable(h)' => Readable(h)
  BY <1>2, <1>6 DEF Readable, SocketsTyped
<1>8. /\ awaits'[h] = awaits[h] + 1 /\ op'[h] = kind
      /\ \A g \in Handles \ {h} : awaits'[g] = awaits[g] /\ op'[g] = op[g]
  BY <1>2 DEF Await, CoroutinesTyped
<1> QED BY <1>3, <1>4, <1>5, <1>6, <1>7, <1>8

\* The tables keep every request and may get one more.
LEMMA AwaitTable ==
  ASSUME IInv, NEW h \in Handles, UNCHANGED tableVars \/ NewId(h)
  PROVE  /\ Pending \subseteq Pending' /\ Pending' \subseteq Pending \cup {ioIndex}
         /\ \A id \in Pending : ioIndex2req'[id] = ioIndex2req[id] /\ fresh'[id] = fresh[id]
         /\ ioIndex \notin Pending
         /\ ioIndex \in Pending' => ioIndex2req'[ioIndex] = h /\ fresh'[ioIndex] = awaits[h] + 1
         /\ DOMAIN fresh' = 0 .. ioIndex' - 1
<1>1. ioIndex \in Nat /\ ioIndex \notin Pending /\ Pending \subseteq 0 .. ioIndex - 1
      /\ DOMAIN fresh = 0 .. ioIndex - 1
  BY TypeParts DEF IInv, TableTyped, IdsInv
<1>2. CASE UNCHANGED tableVars
  BY <1>1, <1>2 DEF tableVars, Pending
<1>3. CASE NewId(h)
  <2>1. /\ ioIndex' = ioIndex + 1
        /\ Pending' = Pending \cup {ioIndex} /\ ioIndex2req'[ioIndex] = h
        /\ \A id \in Pending : ioIndex2req'[id] = ioIndex2req[id]
        /\ DOMAIN fresh' = DOMAIN fresh \cup {ioIndex} /\ fresh'[ioIndex] = awaits[h] + 1
        /\ \A id \in DOMAIN fresh \ {ioIndex} : fresh'[id] = fresh[id]
    BY <1>3, NewIdFacts DEF IInv
  <2>2. \A id \in Pending : id \in DOMAIN fresh \ {ioIndex}
    BY <1>1
  <2>3. DOMAIN fresh' = 0 .. ioIndex' - 1
    <3>1. DOMAIN fresh' = (0 .. ioIndex - 1) \cup {ioIndex}
      BY <1>1, <2>1
    <3> QED BY <1>1, <2>1, <3>1
  <2> QED BY <1>1, <2>1, <2>2, <2>3
<1> QED BY <1>2, <1>3

LEMMA AwaitIds ==
  ASSUME IInv, NEW h \in Handles, UNCHANGED tableVars \/ NewId(h),
         awaits'[h] = awaits[h] + 1, \A g \in Handles \ {h} : awaits'[g] = awaits[g]
  PROVE  IdsInv'
<1>1. /\ Pending \subseteq Pending' /\ Pending' \subseteq Pending \cup {ioIndex}
      /\ \A id \in Pending : ioIndex2req'[id] = ioIndex2req[id] /\ fresh'[id] = fresh[id]
      /\ ioIndex \in Pending' => ioIndex2req'[ioIndex] = h /\ fresh'[ioIndex] = awaits[h] + 1
      /\ DOMAIN fresh' = 0 .. ioIndex' - 1
  BY AwaitTable
<1>2. /\ \A id \in Pending : fresh[id] \in Nat /\ fresh[id] <= awaits[ioIndex2req[id]]
      /\ \A id \in Pending : ioIndex2req[id] \in Handles
      /\ \A g \in Handles : awaits[g] \in Nat
  BY TypeParts DEF IInv, IdsInv, TableTyped, CoroutinesTyped
<1>3. ASSUME NEW id \in Pending' PROVE fresh'[id] \in Nat /\ fresh'[id] <= awaits'[ioIndex2req'[id]]
  <2>1. CASE id \in Pending
    BY <1>1, <1>2, <2>1
  <2>2. CASE id = ioIndex
    BY <1>1, <1>2, <2>2
  <2> QED BY <1>1, <2>1, <2>2
<1>4. ASSUME NEW i \in Pending', NEW j \in Pending',
             ioIndex2req'[i] = ioIndex2req'[j], fresh'[i] = fresh'[j]
      PROVE  i = j
  <2>1. CASE i \in Pending /\ j \in Pending
    BY <1>1, <1>4, <2>1 DEF IInv, IdsInv
  <2>2. CASE i \in Pending /\ j = ioIndex
    BY <1>1, <1>2, <1>4, <2>2
  <2>3. CASE i = ioIndex /\ j \in Pending
    BY <1>1, <1>2, <1>4, <2>3
  <2> QED BY <1>1, <2>1, <2>2, <2>3
<1> QED BY <1>1, <1>3, <1>4 DEF IdsInv

\* Who is answered after a coroutine was taken from the answers and awaits anew.
LEMMA AwaitAnswers ==
  ASSUME IInv, NEW h \in Handles, h \notin Elems(completed),
         ready' \in Seq(Handles), Distinct(ready)', Elems(ready)' = Elems(ready) \ {h},
         completed' = completed \/ completed' = Append(completed, h)
  PROVE  /\ Distinct(completed)' /\ Elems(ready)' \cap Elems(completed)' = {}
         /\ Elems(completed)' = Elems(completed) \cup (IF completed' = completed THEN {} ELSE {h})
         /\ \A g \in Handles \ {h} : Answered(g)' <=> Answered(g)
         /\ Answered(h)' <=> completed' # completed
<1>1. /\ completed \in Seq(Handles) /\ Distinct(completed)
      /\ Elems(ready) \cap Elems(completed) = {}
  BY TypeParts DEF IInv, CoroutinesTyped, AnswersInv
<1>2. /\ Elems(Append(completed, h)) = Elems(completed) \cup {h} /\ Distinct(Append(completed, h))
  BY <1>1, AppendElems
<1>3. CASE completed' = completed
  <2>1. Elems(completed)' = Elems(completed) /\ Distinct(completed)'
    BY <1>1, <1>3 DEF Elems, Distinct
  <2> QED BY <1>1, <1>3, <2>1 DEF Answered
<1>4. CASE completed' = Append(completed, h)
  <2>1. Elems(completed)' = Elems(Append(completed, h)) /\ Distinct(completed)'
    BY <1>2, <1>4 DEF Elems, Distinct
  <2>2. completed' # completed
    BY <1>1, <1>4, <1>2
  <2> QED BY <1>1, <1>2, <2>1, <2>2 DEF Answered
<1> QED BY <1>3, <1>4

\* A coroutine that is neither answered nor waited for awaits.
LEMMA AwaitIInv ==
  ASSUME NoTimeouts, IInv, TypeInv', NEW h \in Handles, NEW kind \in {"read", "write"},
         NEW timeout \in Timeouts, Await(h, kind, timeout),
         phase = "resume", UNCHANGED <<phase, rest, events>>,
         Answered(h) \/ op[h] = "none", h \notin Elems(completed),
         ready' \in Seq(Handles), Distinct(ready)', Elems(ready)' = Elems(ready) \ {h}
  PROVE  IInv'
<1>1. /\ AnsweredAtOnce(h) \/ Registered(h, kind)
      /\ UNCHANGED tableVars \/ NewId(h)
      /\ DOMAIN deadline' = {}
      /\ closed' = closed /\ \A g \in Handles \ {h} : rx'[g] = rx[g]
      /\ awaits'[h] = awaits[h] + 1 /\ op'[h] = kind
      /\ \A g \in Handles \ {h} : awaits'[g] = awaits[g] /\ op'[g] = op[g]
  BY AwaitFacts
<1>2. /\ Pending \subseteq Pending' /\ Pending' \subseteq Pending \cup {ioIndex}
      /\ \A id \in Pending : ioIndex2req'[id] = ioIndex2req[id] /\ fresh'[id] = fresh[id]
      /\ ioIndex \notin Pending
      /\ ioIndex \in Pending' => ioIndex2req'[ioIndex] = h /\ fresh'[ioIndex] = awaits[h] + 1
  BY <1>1, AwaitTable
<1>3. completed' = completed \/ completed' = Append(completed, h)
  BY <1>1 DEF AnsweredAtOnce, Registered
<1>4. /\ Distinct(completed)' /\ Elems(ready)' \cap Elems(completed)' = {}
      /\ \A g \in Handles \ {h} : Answered(g)' <=> Answered(g)
      /\ Answered(h)' <=> completed' # completed
  BY <1>3, AwaitAnswers
<1>5. \A fd \in DOMAIN watched :
        /\ watched[fd] \in Registrations
        /\ watched[fd].kind = "in" => fd \in Sockets /\ Owner(fd) \in Handles \ {h}
        /\ watched[fd].id \in Pending =>
             ioIndex2req[watched[fd].id] # h /\ ioIndex2req[watched[fd].id] \in Handles
        /\ watched[fd].id # ioIndex
  <2>1. WatchTyped /\ TableTyped
    BY TypeParts DEF IInv
  <2>2. ioIndex \in Nat /\ \A r \in Registrations : r.id # ioIndex
    BY <2>1 DEF Registrations, TableTyped
  <2>3. \A fd \in DOMAIN watched : watched[fd].kind = "in" => fd \in Sockets
    BY DEF IInv, WatchInv, Serves
  <2> QED BY <2>1, <2>2, <2>3, NothingWatched, Owners DEF WatchTyped, TableTyped
<1>6. events = {}
  BY DEF IInv, AnswersInv
<1>7. AnswersInv'
  <2>1. \A g \in Handles : Answered(g)' => op'[g] # "none"
    BY <1>1, <1>4 DEF IInv, AnswersInv
  <2>2. \A g \in Handles : awaits'[g] = 0 => op'[g] = "none"
    <3>1. awaits[h] \in Nat
      BY TypeParts DEF IInv, CoroutinesTyped
    <3> QED BY <1>1, <3>1 DEF IInv, AnswersInv
  <2> QED BY <1>1, <1>4, <1>6, <2>1, <2>2 DEF AnswersInv
<1>8. IdsInv'
  BY <1>1, AwaitIds
<1>9. EventsInv'
  BY DEF EventsInv
<1>10. AbortNeedsStray'
  BY DEF AbortNeedsStray
<1>11. \* what was registered before is as it was
       ASSUME NEW fd \in DOMAIN watched, NEW k, NEW id,
              k = watched[fd].kind, id = watched[fd].id, strayed => strayed'
       PROVE  Serves(fd, k, id)'
  <2>1. strayed' \/ fd \in Open'
    <3>1. strayed \/ fd \in Open
      BY <1>11 DEF IInv, WatchInv, Serves
    <3>2. fd \in Open => fd \in Open'
      BY <1>1 DEF Open
    <3> QED BY <1>11, <3>1, <3>2
  <2>2. CASE k = "in"
    <3>1. /\ fd \in Sockets /\ id \in Pending /\ ioIndex2req[id] = Owner(fd)
          /\ Waits(Owner(fd), "read", id) /\ Owner(fd) \in Handles \ {h}
      BY <1>5, <1>11, <2>2 DEF IInv, WatchInv, Serves
    <3> QED BY <1>1, <1>2, <1>4, <2>2, <2>1, <3>1 DEF Serves, Waits
  <2>3. CASE k = "out" /\ id \in Pending'
    <3>1. id \in Pending
      BY <1>2, <1>5, <1>11, <2>3
    <3>2. PICK g \in Handles \ {h} : g = ioIndex2req[id]
      BY <1>5, <1>11, <3>1
    <3>3. Waits(g, "write", id) /\ (strayed \/ fd = FdOf[g])
      BY <1>11, <2>3, <3>1, <3>2 DEF IInv, WatchInv, Serves
    <3>4. ioIndex2req'[id] = g /\ Waits(g, "write", id)'
      BY <1>1, <1>2, <1>4, <3>1, <3>2, <3>3 DEF Waits
    <3> QED BY <1>11, <2>3, <2>1, <3>3, <3>4 DEF Serves, Waits
  <2> QED BY <2>2, <2>3, <2>1 DEF Serves
<1>12. ASSUME NEW g \in Handles \ {h}, op'[g] = "read", ~Answered(g)', phase # "aborted"
       PROVE  \E id \in Pending :
                /\ ioIndex2req[id] = g /\ fresh[id] = awaits[g]
                /\ FdOf[g] \in DOMAIN watched
                /\ watched[FdOf[g]] = [kind |-> "in", id |-> id]
                /\ Readable(g)' => FdOf[g] \in edges
  BY <1>1, <1>4, <1>6, <1>12 DEF IInv, ReadsAreWatched, Readable, Pending
<1>13. CASE AnsweredAtOnce(h)
  <2>1. UNCHANGED epollVars /\ Answered(h)'
    <3>1. completed' # completed
      BY <1>13, AppendElems, TypeParts DEF AnsweredAtOnce, IInv, CoroutinesTyped
    <3> QED BY <1>4, <1>13, <3>1 DEF AnsweredAtOnce
  <2>2. WatchInv'
    <3>1. watched' = watched /\ strayed' = strayed
      BY <2>1 DEF epollVars
    <3> QED BY <1>11, <3>1 DEF WatchInv, Serves, Waits
  <2>3. ReadsAreWatched'
    <3>1. ASSUME NEW g \in Handles, op'[g] = "read", ~Answered(g)'
          PROVE  \E id \in Pending' :
                   /\ ioIndex2req'[id] = g /\ fresh'[id] = awaits'[g]
                   /\ FdOf[g] \in DOMAIN watched'
                   /\ watched'[FdOf[g]] = [kind |-> "in", id |-> id]
                   /\ Readable(g)' => FdOf[g] \in edges'
      <4>1. g \in Handles \ {h}
        BY <2>1, <3>1
      <4>2. PICK id \in Pending :
              /\ ioIndex2req[id] = g /\ fresh[id] = awaits[g]
              /\ FdOf[g] \in DOMAIN watched
              /\ watched[FdOf[g]] = [kind |-> "in", id |-> id]
              /\ Readable(g)' => FdOf[g] \in edges
        BY <1>12, <3>1, <4>1
      <4>3. watched' = watched /\ edges' = edges
        BY <2>1 DEF epollVars
      <4>4. id \in Pending' /\ ioIndex2req'[id] = g /\ fresh'[id] = awaits'[g]
        BY <1>1, <1>2, <4>1, <4>2
      <4> QED BY <4>2, <4>3, <4>4
    <3>2. ASSUME NEW fd \in DOMAIN watched', watched'[fd].kind = "in"
          PROVE  /\ op'[Owner(fd)] = "read" /\ ~Answered(Owner(fd))'
                 /\ fresh'[watched'[fd].id] = awaits'[Owner(fd)]
      BY <2>2, <3>2 DEF WatchInv, Serves, Waits
    <3> QED BY <3>1, <3>2 DEF ReadsAreWatched, Pending
  <2> QED BY <1>7, <1>8, <1>9, <1>10, <2>2, <2>3 DEF IInv
<1>14. CASE Registered(h, kind)
  <2>1. PICK fd0 \in Nat :
          /\ NewId(h) /\ CanAdd(fd0) /\ completed' = completed
          /\ \/ /\ kind = "read" /\ fd0 = FdOf[h] /\ ~Readable(h)
                /\ AddWatch(fd0, "in", ioIndex) /\ strayed' = strayed
             \/ /\ kind = "write"
                /\ AddWatch(fd0, "out", ioIndex) /\ strayed' = (strayed \/ fd0 # FdOf[h])
    BY <1>14 DEF Registered
  <2>2. PICK k \in {"in", "out"} :
          /\ AddWatch(fd0, k, ioIndex) /\ (k = "in" <=> kind = "read")
          /\ kind = "read" => fd0 = FdOf[h] /\ ~Readable(h)
          /\ strayed \/ fd0 # FdOf[h] => strayed'
    <3>1. CASE kind = "read"
      <4>1. /\ AddWatch(fd0, "in", ioIndex) /\ ("in" = "in" <=> kind = "read")
            /\ kind = "read" => fd0 = FdOf[h] /\ ~Readable(h)
            /\ strayed \/ fd0 # FdOf[h] => strayed'
        BY <2>1, <3>1
      <4> QED BY <4>1
    <3>2. CASE kind = "write"
      <4>1. /\ AddWatch(fd0, "out", ioIndex) /\ ("out" = "in" <=> kind = "read")
            /\ kind = "read" => fd0 = FdOf[h] /\ ~Readable(h)
            /\ strayed \/ fd0 # FdOf[h] => strayed'
        BY <2>1, <3>2
      <4> QED BY <4>1
    <3> QED BY <3>1, <3>2
  <2>3. /\ fd0 \notin DOMAIN watched /\ FdOf[h] \in Sockets
        /\ DOMAIN watched' = DOMAIN watched \cup {fd0}
        /\ watched'[fd0] = [kind |-> k, id |-> ioIndex]
        /\ \A f \in DOMAIN watched : watched'[f] = watched[f]
        /\ edges \subseteq edges' /\ Owner(FdOf[h]) = h
    BY <2>1, <2>2, AddWatchFacts, Owners DEF CanAdd
  <2>4. /\ ioIndex \in Pending' /\ ioIndex2req'[ioIndex] = h /\ fresh'[ioIndex] = awaits'[h]
        /\ ~Answered(h)' /\ op'[h] = kind
    BY <1>1, <1>2, <1>4, <2>1, NewIdFacts DEF IInv
  <2>5. WatchInv'
    <3>1. ASSUME NEW fd \in DOMAIN watched', NEW kd, NEW id,
                 kd = watched'[fd].kind, id = watched'[fd].id
          PROVE  Serves(fd, kd, id)'
      <4>1. CASE fd \in DOMAIN watched
        BY <1>11, <2>2, <2>3, <3>1, <4>1
      <4>2. CASE fd = fd0
        <5>1. id = ioIndex /\ kd = k
          BY <2>3, <3>1, <4>2
        <5>2. k = "in" => Owner(fd) = h /\ fd \in Sockets
          BY <2>2, <2>3, <4>2
        <5>3. k = "in" => kind = "read"
          BY <2>2
        <5>4. k = "out" => kind = "write"
          BY <2>2
        <5>5. strayed' \/ fd \in Open'
          BY <2>2, <2>4, <4>2 DEF Open
        <5> QED BY <2>2, <2>4, <4>2, <5>1, <5>2, <5>3, <5>4, <5>5 DEF Serves, Waits
      <4> QED BY <2>3, <4>1, <4>2
    <3> QED BY <3>1 DEF WatchInv, Serves, Waits
  <2>6. ReadsAreWatched'
    <3>1. ASSUME NEW g \in Handles, op'[g] = "read", ~Answered(g)'
          PROVE  \E id \in Pending' :
                   /\ ioIndex2req'[id] = g /\ fresh'[id] = awaits'[g]
                   /\ FdOf[g] \in DOMAIN watched'
                   /\ watched'[FdOf[g]] = [kind |-> "in", id |-> id]
                   /\ Readable(g)' => FdOf[g] \in edges'
      <4>1. CASE g = h
        <5>1. kind = "read" /\ fd0 = FdOf[h] /\ ~Readable(h) /\ k = "in"
          BY <2>2, <2>4, <3>1, <4>1
        <5>2. ~Readable(h)'
          BY <5>1, AwaitFacts
        <5> QED BY <2>3, <2>4, <4>1, <5>1, <5>2
      <4>2. CASE g # h
        <5>1. op'[g] = "read" /\ ~Answered(g)' /\ phase # "aborted" /\ g \in Handles \ {h}
          BY <3>1, <4>2
        <5>2. PICK id \in Pending :
                /\ ioIndex2req[id] = g /\ fresh[id] = awaits[g]
                /\ FdOf[g] \in DOMAIN watched
                /\ watched[FdOf[g]] = [kind |-> "in", id |-> id]
                /\ Readable(g)' => FdOf[g] \in edges
          BY <1>12, <5>1
        <5>3. /\ id \in Pending' /\ ioIndex2req'[id] = g /\ fresh'[id] = awaits'[g]
          BY <1>1, <1>2, <5>1, <5>2
        <5>4. /\ FdOf[g] \in DOMAIN watched' /\ watched'[FdOf[g]] = [kind |-> "in", id |-> id]
              /\ Readable(g)' => FdOf[g] \in edges'
          BY <2>3, <5>2
        <5> QED BY <5>3, <5>4
      <4> QED BY <4>1, <4>2
    <3>2. ASSUME NEW fd \in DOMAIN watched', watched'[fd].kind = "in"
          PROVE  /\ op'[Owner(fd)] = "read" /\ ~Answered(Owner(fd))'
                 /\ fresh'[watched'[fd].id] = awaits'[Owner(fd)]
      BY <2>5, <3>2 DEF WatchInv, Serves, Waits
    <3> QED BY <3>1, <3>2 DEF ReadsAreWatched, Pending
  <2> QED BY <1>7, <1>8, <1>9, <1>10, <2>5, <2>6 DEF IInv
<1> QED BY <1>1, <1>13, <1>14

------------------------------------------------------------------------------
(* What a step leaves alone *)

\* Only the coroutines of S are answered, resumed or ended.
Others(S) ==
  \A g \in Handles \ S :
    op'[g] = op[g] /\ awaits'[g] = awaits[g] /\ (Answered(g)' <=> Answered(g))

TableShrinks ==
  /\ Pending' \subseteq Pending /\ fresh' = fresh
  /\ \A id \in Pending' : ioIndex2req'[id] = ioIndex2req[id]

\* The registration of a suspended read.
LEMMA ReadFacts ==
  ASSUME IInv, phase # "aborted", NEW g \in Handles, op[g] = "read", ~Answered(g)
  PROVE  \E id \in Pending :
           /\ ioIndex2req[id] = g /\ fresh[id] = awaits[g]
           /\ FdOf[g] \in DOMAIN watched /\ FdOf[g] \in Sockets
           /\ watched[FdOf[g]] = [kind |-> "in", id |-> id]
           /\ Readable(g) => FdOf[g] \in edges \/ watched[FdOf[g]] \in events
BY Owners DEF IInv, ReadsAreWatched, Pending

LEMMA StillServes ==
  ASSUME IInv, NEW S \in SUBSET Handles, Others(S), TableShrinks, strayed => strayed',
         NEW fd \in DOMAIN watched, NEW k, NEW id, k = watched[fd].kind, id = watched[fd].id,
         k = "in" => Owner(fd) \notin S /\ id \in Pending',
         k = "out" /\ id \in Pending' => ioIndex2req[id] \notin S,
         fd \in Open => fd \in Open'
  PROVE  Serves(fd, k, id)'
<1>1. Serves(fd, k, id) /\ \A i \in Pending : ioIndex2req[i] \in Handles
  BY TypeParts DEF IInv, WatchInv, TableTyped
<1>2. strayed' \/ fd \in Open'
  BY <1>1 DEF Serves
<1>3. CASE k = "in"
  <2>1. Owner(fd) \in Handles \ S
    BY <1>1, <1>3, Owners DEF Serves
  <2> QED BY <1>1, <1>3, <1>2, <2>1 DEF Serves, Waits, Others, TableShrinks
<1>4. CASE k = "out" /\ id \in Pending'
  <2>1. PICK g \in Handles \ S : g = ioIndex2req[id]
    BY <1>1, <1>4 DEF TableShrinks
  <2>2. Waits(g, "write", id) /\ (strayed \/ fd = FdOf[g])
    BY <1>1, <1>4, <2>1 DEF Serves, TableShrinks
  <2>3. ioIndex2req'[id] = g /\ Waits(g, "write", id)'
    BY <1>4, <2>1, <2>2 DEF Waits, Others, TableShrinks
  <2> QED BY <1>4, <1>2, <2>2, <2>3 DEF Serves, Waits
<1> QED BY <1>3, <1>4, <1>2 DEF Serves

\* A read that is suspended on keeps its registration and what it is due.
LEMMA StillWatched ==
  ASSUME IInv, phase # "aborted", NEW S \in SUBSET Handles, Others(S), TableShrinks, WatchInv',
         \A g \in S : op'[g] # "read" \/ Answered(g)',
         \A g \in Handles \ S, id \in Pending :
           /\ op[g] = "read" /\ ~Answered(g)
           /\ ioIndex2req[id] = g
           /\ FdOf[g] \in DOMAIN watched /\ watched[FdOf[g]] = [kind |-> "in", id |-> id]
           /\ Readable(g) => FdOf[g] \in edges \/ watched[FdOf[g]] \in events
           => /\ id \in Pending'
              /\ FdOf[g] \in DOMAIN watched' /\ watched'[FdOf[g]] = watched[FdOf[g]]
              /\ Readable(g)' => FdOf[g] \in edges' \/ watched[FdOf[g]] \in events'
  PROVE  ReadsAreWatched'
<1>1. ASSUME NEW g \in Handles, op'[g] = "read", ~Answered(g)'
      PROVE  \E id \in Pending' :
               /\ ioIndex2req'[id] = g /\ fresh'[id] = awaits'[g]
               /\ FdOf[g] \in DOMAIN watched'
               /\ watched'[FdOf[g]] = [kind |-> "in", id |-> id]
               /\ Readable(g)' => FdOf[g] \in edges' \/ watched'[FdOf[g]] \in events'
  <2>1. g \in Handles \ S /\ op[g] = "read" /\ ~Answered(g) /\ awaits'[g] = awaits[g]
    BY <1>1 DEF Others
  <2>2. PICK id \in Pending :
          /\ ioIndex2req[id] = g /\ fresh[id] = awaits[g]
          /\ FdOf[g] \in DOMAIN watched
          /\ watched[FdOf[g]] = [kind |-> "in", id |-> id]
          /\ Readable(g) => FdOf[g] \in edges \/ watched[FdOf[g]] \in events
    BY <2>1, ReadFacts
  <2>3. /\ id \in Pending'
        /\ FdOf[g] \in DOMAIN watched' /\ watched'[FdOf[g]] = watched[FdOf[g]]
        /\ Readable(g)' => FdOf[g] \in edges' \/ watched[FdOf[g]] \in events'
    BY <2>1, <2>2
  <2> QED BY <2>1, <2>2, <2>3 DEF TableShrinks
<1>2. ASSUME NEW fd \in DOMAIN watched', watched'[fd].kind = "in"
      PROVE  /\ op'[Owner(fd)] = "read" /\ ~Answered(Owner(fd))'
             /\ fresh'[watched'[fd].id] = awaits'[Owner(fd)]
  BY <1>2 DEF WatchInv, Serves, Waits
<1> QED BY <1>1, <1>2 DEF ReadsAreWatched, Pending

\* Steps that touch neither the tables nor the registrations nor a coroutine.
LEMMA SameIds ==
  ASSUME IInv, TableShrinks, ioIndex' = ioIndex,
         \A g \in Handles : awaits'[g] \in Nat /\ awaits[g] <= awaits'[g]
  PROVE  IdsInv'
<1>1. /\ \A id \in Pending : ioIndex2req[id] \in Handles
      /\ \A g \in Handles : awaits[g] \in Nat
  BY TypeParts DEF IInv, TableTyped, CoroutinesTyped
<1>2. DOMAIN fresh' = 0 .. ioIndex' - 1
  BY DEF IInv, IdsInv, TableShrinks
<1>3. \A id \in Pending' : fresh'[id] \in Nat /\ fresh'[id] <= awaits'[ioIndex2req'[id]]
  <2> SUFFICES ASSUME NEW id \in Pending'
               PROVE  fresh'[id] \in Nat /\ fresh'[id] <= awaits'[ioIndex2req'[id]]
    OBVIOUS
  <2>1. /\ id \in Pending /\ fresh'[id] = fresh[id] /\ ioIndex2req'[id] = ioIndex2req[id]
        /\ fresh[id] \in Nat /\ fresh[id] <= awaits[ioIndex2req[id]]
    BY DEF IInv, IdsInv, TableShrinks
  <2>2. PICK g \in Handles : g = ioIndex2req[id]
    BY <1>1, <2>1
  <2> QED BY <1>1, <2>1, <2>2
<1>4. \A i, j \in Pending' :
        ioIndex2req'[i] = ioIndex2req'[j] /\ fresh'[i] = fresh'[j] => i = j
  BY DEF IInv, IdsInv, TableShrinks
<1> QED BY <1>2, <1>3, <1>4 DEF IdsInv

------------------------------------------------------------------------------
(* Steps of the worker *)

LEMMA InitIInv == Init => IInv
<1> SUFFICES ASSUME Init PROVE IInv
  OBVIOUS
<1>1. TypeInv
  BY InitTyped
<1> USE DEF Init
<1>2. Elems(ready) = {} /\ Elems(completed) = {} /\ Distinct(ready) /\ Distinct(completed)
  BY DEF Elems, Distinct
<1>3. AnswersInv
  BY <1>2 DEF AnswersInv, Answered
<1>4. IdsInv /\ WatchInv /\ EventsInv
  BY DEF IdsInv, WatchInv, EventsInv, Pending
<1>5. ReadsAreWatched /\ AbortNeedsStray
  BY <1>2 DEF ReadsAreWatched, AbortNeedsStray
<1> QED BY <1>1, <1>3, <1>4, <1>5 DEF IInv

LEMMA StartIInv ==
  ASSUME NoTimeouts, IInv, TypeInv', NEW h \in Handles, NEW timeout \in Timeouts,
         StartCoroutine(h, timeout)
  PROVE  IInv'
<1>1. /\ phase = "resume" /\ awaits[h] = 0 /\ Await(h, "read", timeout)
      /\ UNCHANGED <<phase, ready, rest, now, events>>
  BY DEF StartCoroutine
<1>2. op[h] = "none" /\ ~Answered(h)
  BY <1>1 DEF IInv, AnswersInv
<1>3. ready \in Seq(Handles) /\ Distinct(ready)
  BY TypeParts DEF IInv, CoroutinesTyped, AnswersInv
<1>4. Elems(ready)' = Elems(ready) \ {h} /\ Distinct(ready)'
  BY <1>1, <1>2, <1>3 DEF Elems, Distinct, Answered
<1> QED BY <1>1, <1>2, <1>3, <1>4, AwaitIInv DEF Answered

\* The coroutine at the head of the answers.
LEMMA HeadFacts ==
  ASSUME IInv, ready # <<>>
  PROVE  \E h \in Handles :
           /\ h = Head(ready) /\ h \in Elems(ready) /\ h \notin Elems(completed)
           /\ Answered(h) /\ op[h] # "none"
           /\ Tail(ready) \in Seq(Handles) /\ Elems(Tail(ready)) = Elems(ready) \ {h}
           /\ Distinct(Tail(ready))
<1>1. ready \in Seq(Handles) /\ Distinct(ready) /\ Elems(ready) \cap Elems(completed) = {}
  BY TypeParts DEF IInv, CoroutinesTyped, AnswersInv
<1>2. /\ Head(ready) \in Handles /\ Head(ready) \in Elems(ready)
      /\ Tail(ready) \in Seq(Handles) /\ Elems(Tail(ready)) = Elems(ready) \ {Head(ready)}
      /\ Distinct(Tail(ready))
  BY <1>1, TailElems
<1>3. Answered(Head(ready)) /\ Head(ready) \notin Elems(completed)
  BY <1>1, <1>2 DEF Answered
<1>4. op[Head(ready)] # "none"
  BY <1>2, <1>3 DEF IInv, AnswersInv
<1> QED BY <1>2, <1>3, <1>4

LEMMA ResumeToAwaitIInv ==
  ASSUME NoTimeouts, IInv, TypeInv', NEW kind \in {"read", "write"}, NEW timeout \in Timeouts,
         ResumeToAwait(kind, timeout)
  PROVE  IInv'
<1>1. PICK h \in Handles :
        /\ h = Head(ready) /\ h \in Elems(ready) /\ h \notin Elems(completed)
        /\ Answered(h) /\ op[h] # "none"
        /\ Tail(ready) \in Seq(Handles) /\ Elems(Tail(ready)) = Elems(ready) \ {h}
        /\ Distinct(Tail(ready))
  BY HeadFacts DEF ResumeToAwait
<1>2. /\ phase = "resume" /\ ready' = Tail(ready) /\ Await(h, kind, timeout)
      /\ UNCHANGED <<phase, rest, now, events>>
  BY <1>1 DEF ResumeToAwait
<1>3. ready' \in Seq(Handles) /\ Elems(ready)' = Elems(ready) \ {h} /\ Distinct(ready)'
  <2>1. Elems(ready)' = Elems(Tail(ready))
    BY <1>2 DEF Elems
  <2>2. Distinct(ready)'
    BY <1>1, <1>2 DEF Distinct
  <2> QED BY <1>1, <1>2, <2>1, <2>2
<1> QED BY <1>1, <1>2, <1>3, AwaitIInv

\* The end of a coroutine takes what is registered under the number of its socket.
LEMMA ResumeToEndIInv ==
  ASSUME IInv, TypeInv', ResumeToEnd
  PROVE  IInv'
<1>1. PICK h \in Handles :
        /\ h = Head(ready) /\ h \in Elems(ready) /\ h \notin Elems(completed)
        /\ Answered(h) /\ op[h] # "none"
        /\ Tail(ready) \in Seq(Handles) /\ Elems(Tail(ready)) = Elems(ready) \ {h}
        /\ Distinct(Tail(ready))
  BY HeadFacts DEF ResumeToEnd
<1>2. /\ phase = "resume" /\ ready' = Tail(ready)
      /\ op' = [op EXCEPT ![h] = "none"] /\ awaits' = [awaits EXCEPT ![h] = MaxAwaits]
      /\ DelWatch(FdOf[h])
      /\ rx' = [rx EXCEPT ![h] = 0] /\ closed' = closed \cup {h}
      /\ UNCHANGED <<phase, completed, rest, tableVars, strayed, events>>
  BY <1>1 DEF ResumeToEnd
<1>3. Elems(ready)' = Elems(ready) \ {h} /\ Distinct(ready)' /\ Elems(completed)' = Elems(completed)
  <2>1. Elems(ready)' = Elems(Tail(ready)) /\ Elems(completed)' = Elems(completed)
    BY <1>2 DEF Elems
  <2>2. Distinct(ready)'
    BY <1>1, <1>2 DEF Distinct
  <2> QED BY <1>1, <2>1, <2>2
<1>4. CoroutinesTyped /\ TableTyped /\ WatchTyped /\ MaxAwaits \in Nat
  BY TypeParts, EpollAssumption DEF IInv
<1>5. /\ op'[h] = "none" /\ ~Answered(h)' /\ awaits'[h] = MaxAwaits /\ awaits[h] <= MaxAwaits
      /\ Others({h})
  BY <1>1, <1>2, <1>3, <1>4 DEF CoroutinesTyped, Others, Answered
<1>6. TableShrinks
  BY <1>2 DEF TableShrinks, tableVars, Pending
<1>7. /\ DOMAIN watched' = DOMAIN watched \ {FdOf[h]}
      /\ \A fd \in DOMAIN watched' : watched'[fd] = watched[fd]
      /\ edges' = edges \ {FdOf[h]}
  BY <1>2, DelWatchFacts
<1>8. events = {} /\ events' = {}
  BY <1>2 DEF IInv, AnswersInv
<1>9. AnswersInv'
  <2>1. \A g \in Handles : Answered(g)' => op'[g] # "none"
    BY <1>5 DEF IInv, AnswersInv, Others
  <2>2. \A g \in Handles : awaits'[g] = 0 => op'[g] = "none"
    BY <1>5 DEF IInv, AnswersInv, Others
  <2>3. Elems(ready)' \cap Elems(completed)' = {} /\ Distinct(completed)'
    BY <1>2, <1>3 DEF IInv, AnswersInv, Distinct
  <2> QED BY <1>2, <1>3, <1>8, <2>1, <2>2, <2>3 DEF IInv, AnswersInv, tableVars
<1>10. IdsInv'
  <2>1. \A g \in Handles : awaits'[g] \in Nat /\ awaits[g] <= awaits'[g]
    BY <1>4, <1>5 DEF CoroutinesTyped, Others
  <2> QED BY <1>2, <1>6, <2>1, SameIds DEF tableVars
<1>11. WatchInv'
  <2>1. ASSUME NEW fd \in DOMAIN watched', NEW k, NEW id,
               k = watched'[fd].kind, id = watched'[fd].id
        PROVE  Serves(fd, k, id)'
    <3>1. fd \in DOMAIN watched /\ k = watched[fd].kind /\ id = watched[fd].id
      BY <1>7, <2>1
    <3>2. k = "in" => Owner(fd) \notin {h} /\ id \in Pending'
      BY <1>1, <1>2, <3>1, NothingWatched DEF IInv, WatchInv, Serves, tableVars, Pending
    <3>3. k = "out" /\ id \in Pending' => ioIndex2req[id] \notin {h}
      BY <1>1, <1>6, <3>1, NothingWatched DEF TableShrinks
    <3>4. fd \in Open => fd \in Open'
      <4>1. fd # FdOf[h]
        BY <1>7, <2>1
      <4> QED BY <1>5, <4>1 DEF Open, Others
    <3> QED BY <1>2, <1>5, <1>6, <3>1, <3>2, <3>3, <3>4, StillServes
  <2> QED BY <2>1 DEF WatchInv, Serves, Waits
<1>12. ReadsAreWatched'
  <2>1. ASSUME NEW g \in Handles \ {h}, NEW id \in Pending,
               FdOf[g] \in DOMAIN watched, Readable(g) => FdOf[g] \in edges \/ watched[FdOf[g]] \in events
        PROVE  /\ id \in Pending'
               /\ FdOf[g] \in DOMAIN watched' /\ watched'[FdOf[g]] = watched[FdOf[g]]
               /\ Readable(g)' => FdOf[g] \in edges' \/ watched[FdOf[g]] \in events'
    <3>1. FdOf[g] # FdOf[h]
      BY EpollAssumption
    <3>2. Readable(g)' => Readable(g)
      BY <1>2, TypeParts DEF IInv, SocketsTyped, Readable
    <3> QED BY <1>2, <1>7, <2>1, <3>1, <3>2 DEF tableVars, Pending
  <2> QED BY <1>2, <1>5, <1>6, <1>11, <2>1, StillWatched
<1>13. EventsInv' /\ AbortNeedsStray'
  BY <1>2 DEF EventsInv, AbortNeedsStray
<1> QED BY <1>9, <1>10, <1>11, <1>12, <1>13 DEF IInv

\* Only what strayed is registered under a foreign number.
LEMMA ForeignStrayed ==
  ASSUME IInv, NEW fd \in DOMAIN watched, fd \in Foreign
  PROVE  strayed /\ watched[fd].kind = "out"
<1>1. Serves(fd, watched[fd].kind, watched[fd].id) /\ watched[fd] \in Registrations
  BY DEF IInv, TypeInv, WatchInv
<1>2. strayed
  BY <1>1, OpenFacts DEF Serves
<1>3. watched[fd].kind # "in"
  BY <1>1, Owners, OpenFacts DEF Serves, Waits
<1> QED BY <1>1, <1>2, <1>3 DEF Registrations

\* What epoll_wait returns, and what it owes to a suspended coroutine.
LEMMA EpollWaitFacts ==
  ASSUME IInv, EpollWait
  PROVE  /\ \A e \in events' :
              \/ strayed /\ e.kind = "hup"
              \/ \E fd \in edges :
                   e = watched[fd] /\ (StillReady(fd) \/ (strayed /\ e.kind = "out"))
         /\ \A g \in Handles : op[g] # "none" /\ FdOf[g] \in edges /\ StillReady(FdOf[g]) =>
              watched[FdOf[g]] \in events'
<1>1. PICK hung \in SUBSET (edges \cap Foreign) :
        events' = {watched[fd] : fd \in {f \in edges \ hung : f \in Foreign \/ StillReady(f)}}
                    \cup {HungUp(watched[fd]) : fd \in hung}
  BY DEF EpollWait
<1>2. edges \subseteq DOMAIN watched /\ \A fd \in DOMAIN watched : watched[fd] \in Registrations
  BY TypeParts DEF IInv, WatchTyped
<1>3. \A fd \in edges \cap Foreign : strayed /\ watched[fd].kind = "out"
  BY <1>2, ForeignStrayed
<1>4. \A fd \in edges : HungUp(watched[fd]).kind = "hup"
  BY <1>2 DEF HungUp, Registrations
<1>5. \A g \in Handles : op[g] # "none" => FdOf[g] \notin hung
  BY <1>1, OpenFacts
<1> QED BY <1>1, <1>3, <1>4, <1>5

LEMMA EpollWaitIInv ==
  ASSUME IInv, TypeInv', EpollWait
  PROVE  IInv'
<1>1. /\ phase = "wait" /\ phase' = "events" /\ edges' = {}
      /\ UNCHANGED <<ready, completed, rest, tableVars, watched, strayed, now, socketVars, coroVars>>
  BY DEF EpollWait
<1>2. Others({}) /\ TableShrinks /\ ready = <<>> /\ events = {}
  BY <1>1 DEF Others, Answered, Elems, TableShrinks, tableVars, coroVars, Pending, IInv, AnswersInv
<1>3. AnswersInv'
  BY <1>1, <1>2 DEF IInv, AnswersInv, Answered, Elems, Distinct, tableVars, coroVars
<1>4. IdsInv' /\ WatchInv'
  BY <1>1, OpenFacts
  DEF IInv, IdsInv, WatchInv, Serves, Waits, Answered, Elems, tableVars, coroVars, Pending
<1>5. ReadsAreWatched'
  <2>1. ASSUME NEW g \in Handles, NEW id \in Pending, op[g] = "read",
               FdOf[g] \in DOMAIN watched, watched[FdOf[g]] = [kind |-> "in", id |-> id],
               Readable(g) => FdOf[g] \in edges \/ watched[FdOf[g]] \in events
        PROVE  /\ id \in Pending'
               /\ FdOf[g] \in DOMAIN watched' /\ watched'[FdOf[g]] = watched[FdOf[g]]
               /\ Readable(g)' => FdOf[g] \in edges' \/ watched[FdOf[g]] \in events'
    <3>1. Readable(g) => StillReady(FdOf[g])
      BY <2>1, Owners DEF StillReady
    <3>2. Readable(g) => watched[FdOf[g]] \in events'
      BY <1>2, <2>1, <3>1, EpollWaitFacts
    <3> QED BY <1>1, <2>1, <3>2 DEF tableVars, socketVars, Pending, Readable
  <2> QED BY <1>1, <1>2, <1>4, <2>1, StillWatched
<1>6. EventsInv'
  <2>1. ASSUME NEW e \in events', NEW h, e.id \in Pending, h = ioIndex2req[e.id]
        PROVE  /\ e.kind = "in" => FdOf[h] \in DOMAIN watched /\ watched[FdOf[h]] = e /\ Readable(h)
               /\ e.kind = "out" => Waits(h, "write", e.id) /\ (strayed \/ Writable(h))
               /\ e.kind = "hup" => strayed
    <3>1. CASE strayed /\ e.kind = "hup"
      BY <3>1
    <3>2. ASSUME NEW fd \in edges, e = watched[fd], StillReady(fd) \/ (strayed /\ e.kind = "out")
          PROVE  /\ e.kind = "in" =>
                      FdOf[h] \in DOMAIN watched /\ watched[FdOf[h]] = e /\ Readable(h)
                 /\ e.kind = "out" => Waits(h, "write", e.id) /\ (strayed \/ Writable(h))
                 /\ e.kind # "hup"
      <4>1. /\ fd \in DOMAIN watched /\ h \in Handles /\ Serves(fd, e.kind, e.id)
            /\ e \in Registrations
        BY <2>1, <3>2, TypeParts DEF IInv, WatchTyped, TableTyped, WatchInv
      <4>2. CASE e.kind = "in"
        <5>1. h = Owner(fd) /\ FdOf[h] = fd
          BY <2>1, <4>1, <4>2, Owners DEF Serves
        <5> QED BY <3>2, <4>1, <4>2, <5>1 DEF StillReady
      <4>3. CASE e.kind = "out"
        <5>1. Waits(h, "write", e.id) /\ (strayed \/ fd = FdOf[h])
          BY <2>1, <4>1, <4>3 DEF Serves
        <5>2. strayed \/ (fd = FdOf[h] => Writable(h))
          BY <3>2, <4>1, <4>3, Owners DEF StillReady
        <5> QED BY <4>3, <5>1, <5>2
      <4> QED BY <4>1, <4>2, <4>3 DEF Registrations
    <3> QED BY <3>1, <3>2, EpollWaitFacts
  <2>2. ASSUME NEW e \in events' PROVE e.kind = "hup" => strayed
    <3>1. \A fd \in edges : watched[fd] \in Registrations
      BY TypeParts DEF IInv, WatchTyped
    <3> QED BY <3>1, EpollWaitFacts DEF Registrations
  <2>3. ASSUME NEW e \in events', e.id \in Pending', NEW h, h = ioIndex2req'[e.id]
        PROVE  /\ e.kind = "in" =>
                    FdOf[h] \in DOMAIN watched' /\ watched'[FdOf[h]] = e /\ Readable(h)'
               /\ e.kind = "out" => Waits(h, "write", e.id)' /\ (strayed' \/ Writable(h)')
    BY <1>1, <2>1, <2>3 DEF Waits, Answered, Elems, Readable, Writable, tableVars, socketVars,
                            coroVars, Pending
  <2>4. strayed' = strayed
    BY <1>1
  <2> QED BY <2>2, <2>3, <2>4 DEF EventsInv
<1>7. AbortNeedsStray'
  BY <1>1 DEF AbortNeedsStray
<1> QED BY <1>3, <1>4, <1>5, <1>6, <1>7 DEF IInv

------------------------------------------------------------------------------
(* Events *)

\* An event whose request is gone, or is left for the next one: no coroutine notices.
LEMMA QuietEvent ==
  ASSUME IInv, TypeInv', NEW e \in events, phase = "events", events' = events \ {e},
         UNCHANGED <<ready, completed, tableVars, epollVars, rx, closed, awaits, op>>,
         \/ e.id \notin Pending /\ phase' = phase /\ tx' = tx
         \/ e.kind = "out" /\ e.id \in Pending /\ phase' = phase
            /\ \A g \in Handles : g # ioIndex2req[e.id] => tx'[g] = tx[g]
         \/ phase' = "aborted" /\ strayed /\ tx' = tx
  PROVE  IInv'
<1>1. Others({}) /\ TableShrinks
  BY DEF Others, Answered, Elems, TableShrinks, tableVars, Pending
<1>2. AnswersInv'
  BY DEF IInv, AnswersInv, Answered, Elems, Distinct, tableVars
<1>3. IdsInv' /\ WatchInv'
  BY OpenFacts
  DEF IInv, IdsInv, WatchInv, Serves, Waits, Answered, Elems, tableVars, epollVars, Pending
<1>4. ReadsAreWatched'
  <2>1. CASE phase' = "aborted"
    BY <2>1 DEF ReadsAreWatched
  <2>2. CASE phase' = phase
    <3>1. ASSUME NEW g \in Handles, NEW id \in Pending, ioIndex2req[id] = g,
                 FdOf[g] \in DOMAIN watched, watched[FdOf[g]] = [kind |-> "in", id |-> id],
                 Readable(g) => FdOf[g] \in edges \/ watched[FdOf[g]] \in events
          PROVE  /\ id \in Pending'
                 /\ FdOf[g] \in DOMAIN watched' /\ watched'[FdOf[g]] = watched[FdOf[g]]
                 /\ Readable(g)' => FdOf[g] \in edges' \/ watched[FdOf[g]] \in events'
      <4>1. watched[FdOf[g]] # e
        BY <2>2, <3>1
      <4> QED BY <3>1, <4>1 DEF tableVars, epollVars, Pending, Readable
    <3> QED BY <1>1, <1>3, <3>1, StillWatched
  <2> QED BY <2>1, <2>2
<1>5. EventsInv'
  <2>1. ASSUME NEW f \in events', NEW h, f.id \in Pending, h = ioIndex2req[f.id]
        PROVE  /\ f.kind = "in" => FdOf[h] \in DOMAIN watched /\ watched[FdOf[h]] = f /\ Readable(h)
               /\ f.kind = "out" => Waits(h, "write", f.id) /\ (strayed \/ Writable(h)')
    <3>1. /\ f.kind = "in" => FdOf[h] \in DOMAIN watched /\ watched[FdOf[h]] = f /\ Readable(h)
          /\ f.kind = "out" => Waits(h, "write", f.id) /\ (strayed \/ Writable(h))
      BY <2>1 DEF IInv, EventsInv
    <3>2. h \in Handles
      BY <2>1, TypeParts DEF IInv, TableTyped
    <3>3. f.kind = "out" /\ ~strayed => Writable(h)'
      <4>1. CASE tx' = tx
        BY <3>1, <4>1 DEF Writable
      <4>2. CASE e.kind = "out" /\ e.id \in Pending /\ f.kind = "out" /\ h = ioIndex2req[e.id]
        <5>1. fresh[e.id] = awaits[h] /\ fresh[f.id] = awaits[h]
          <6>1. Waits(h, "write", e.id)
            BY <4>2 DEF IInv, EventsInv
          <6> QED BY <3>1, <4>2, <6>1 DEF Waits
        <5>2. f.id = e.id
          BY <2>1, <4>2, <5>1 DEF IInv, IdsInv
        <5>3. e \in Reports /\ f \in Reports
          BY TypeParts DEF IInv, WatchTyped
        <5> QED BY <4>2, <5>2, <5>3 DEF Reports
      <4>3. CASE f.kind = "out" /\ tx'[h] = tx[h]
        BY <3>1, <4>3 DEF Writable
      <4> QED BY <3>2, <4>1, <4>2, <4>3
    <3> QED BY <3>1, <3>3
  <2>2. \A f \in events' : f.kind = "hup" => strayed
    BY DEF IInv, EventsInv
  <2> QED BY <2>1, <2>2
      DEF EventsInv, Waits, Answered, Elems, Readable, Writable, tableVars, epollVars, Pending
<1>6. AbortNeedsStray'
  BY DEF AbortNeedsStray, epollVars
<1> QED BY <1>2, <1>3, <1>4, <1>5, <1>6 DEF IInv

\* An event that answers its request: the request leaves the tables and the socket
\* of its coroutine leaves the epoll instance.
LEMMA AnswerEvent ==
  ASSUME IInv, TypeInv', NEW e \in events, NEW h \in Handles, e.id \in Pending,
         h = ioIndex2req[e.id], phase = "events", phase' = phase, events' = events \ {e},
         op[h] \in {"read", "write"}, Waits(h, op[h], e.id),
         op[h] = "read" => watched[FdOf[h]] = e,
         DelWatch(FdOf[h]), Settle(h, e.id),
         UNCHANGED <<ready, strayed, closed, awaits, op>>,
         \A g \in Handles \ {h} : rx'[g] = rx[g] /\ tx'[g] = tx[g]
  PROVE  IInv'
<1>1. completed' = Append(completed, h) /\ ioIndex' = ioIndex /\ fresh' = fresh
  BY DEF Settle, Answer
<1>2. /\ completed \in Seq(Handles) /\ Distinct(completed) /\ h \notin Elems(completed)
      /\ h \notin Elems(ready) /\ Elems(ready) \cap Elems(completed) = {}
  BY TypeParts DEF IInv, CoroutinesTyped, AnswersInv, Waits, Answered
<1>3. Elems(completed)' = Elems(completed) \cup {h} /\ Distinct(completed)'
  <2>1. Elems(Append(completed, h)) = Elems(completed) \cup {h} /\ Distinct(Append(completed, h))
    BY <1>2, AppendElems
  <2>2. Elems(completed)' = Elems(Append(completed, h))
    BY <1>1 DEF Elems
  <2>3. Distinct(completed)'
    BY <1>1, <2>1 DEF Distinct
  <2> QED BY <2>1, <2>2, <2>3
<1>4. Elems(ready)' = Elems(ready)
  BY DEF Elems
<1>5. Others({h}) /\ Answered(h)'
  BY <1>3, <1>4 DEF Others, Answered
<1>6. /\ Pending' = Pending \ {e.id} /\ TableShrinks /\ DOMAIN deadline' \subseteq DOMAIN deadline
  BY <1>1 DEF Settle, TableShrinks, TS!Without, Pending
<1>7. /\ DOMAIN watched' = DOMAIN watched \ {FdOf[h]}
      /\ \A fd \in DOMAIN watched' : watched'[fd] = watched[fd]
      /\ edges' = edges \ {FdOf[h]}
  BY DelWatchFacts
<1>8. AnswersInv'
  <2>1. \A g \in Handles : Answered(g)' => op'[g] # "none"
    BY <1>5 DEF IInv, AnswersInv, Others
  <2>2. \A g \in Handles : awaits'[g] = 0 => op'[g] = "none"
    BY DEF IInv, AnswersInv
  <2>3. DOMAIN deadline' = {} /\ ready = <<>> /\ ready' = <<>> /\ Distinct(ready)
    BY <1>6 DEF IInv, AnswersInv
  <2>4. Distinct(ready)'
    BY <2>3 DEF Distinct
  <2> QED BY <1>2, <1>3, <1>4, <2>1, <2>2, <2>3, <2>4 DEF AnswersInv
<1>9. IdsInv'
  <2>1. \A g \in Handles : awaits'[g] \in Nat /\ awaits[g] <= awaits'[g]
    BY TypeParts DEF IInv, CoroutinesTyped
  <2> QED BY <1>1, <1>6, <2>1, SameIds
<1>10. ASSUME NEW fd \in DOMAIN watched, NEW id, id = watched[fd].id
       PROVE  /\ watched[fd].kind = "in" =>
                   id \in Pending /\ (fd # FdOf[h] => Owner(fd) # h /\ id # e.id)
              /\ watched[fd].kind = "out" /\ id \in Pending /\ ioIndex2req[id] = h => id = e.id
  <2>1. Serves(fd, watched[fd].kind, id)
    BY <1>10 DEF IInv, WatchInv
  <2>2. CASE watched[fd].kind = "in"
    <3>1. id \in Pending /\ ioIndex2req[id] = Owner(fd) /\ FdOf[Owner(fd)] = fd
      BY <2>1, <2>2, Owners DEF Serves
    <3> QED BY <2>2, <3>1
  <2>3. CASE watched[fd].kind = "out" /\ id \in Pending /\ ioIndex2req[id] = h
    <3>1. fresh[id] = awaits[h] /\ fresh[e.id] = awaits[h]
      BY <2>1, <2>3 DEF Serves, Waits
    <3> QED BY <2>3, <3>1 DEF IInv, IdsInv
  <2> QED BY <2>2, <2>3
<1>11. WatchInv'
  <2>1. ASSUME NEW fd \in DOMAIN watched', NEW k, NEW id,
               k = watched'[fd].kind, id = watched'[fd].id
        PROVE  Serves(fd, k, id)'
    <3>1. fd \in DOMAIN watched /\ fd # FdOf[h] /\ k = watched[fd].kind /\ id = watched[fd].id
      BY <1>7, <2>1
    <3>2. k = "in" => Owner(fd) \notin {h} /\ id \in Pending'
      BY <1>6, <1>10, <3>1
    <3>3. k = "out" /\ id \in Pending' => ioIndex2req[id] \notin {h}
      BY <1>6, <1>10, <3>1
    <3> QED BY <1>5, <1>6, <3>1, <3>2, <3>3, OpenFacts, StillServes
  <2> QED BY <2>1 DEF WatchInv, Serves, Waits
<1>12. ReadsAreWatched'
  <2>1. ASSUME NEW g \in Handles \ {h}, NEW id \in Pending, ioIndex2req[id] = g,
               FdOf[g] \in DOMAIN watched, watched[FdOf[g]] = [kind |-> "in", id |-> id],
               Readable(g) => FdOf[g] \in edges \/ watched[FdOf[g]] \in events
        PROVE  /\ id \in Pending'
               /\ FdOf[g] \in DOMAIN watched' /\ watched'[FdOf[g]] = watched[FdOf[g]]
               /\ Readable(g)' => FdOf[g] \in edges' \/ watched[FdOf[g]] \in events'
    <3>1. FdOf[g] # FdOf[h] /\ id # e.id /\ watched[FdOf[g]] # e
      BY <2>1, EpollAssumption
    <3>2. Readable(g)' => Readable(g)
      BY DEF Readable
    <3> QED BY <1>6, <1>7, <2>1, <3>1, <3>2
  <2> QED BY <1>5, <1>6, <1>11, <2>1, StillWatched
<1>13. EventsInv'
  <2>1. ASSUME NEW f \in events', NEW g, f.id \in Pending', g = ioIndex2req'[f.id]
        PROVE  /\ f.kind = "in" =>
                    FdOf[g] \in DOMAIN watched' /\ watched'[FdOf[g]] = f /\ Readable(g)'
               /\ f.kind = "out" => Waits(g, "write", f.id)' /\ (strayed' \/ Writable(g)')
    <3>1. /\ f \in events /\ f # e /\ f.id \in Pending /\ f.id # e.id /\ g = ioIndex2req[f.id]
          /\ g \in Handles
      BY <1>6, <2>1, TypeParts DEF TableShrinks, IInv, TableTyped
    <3>2. /\ f.kind = "in" => FdOf[g] \in DOMAIN watched /\ watched[FdOf[g]] = f /\ Readable(g)
          /\ f.kind = "out" => Waits(g, "write", f.id) /\ (strayed \/ Writable(g))
      BY <3>1 DEF IInv, EventsInv
    <3>3. CASE f.kind = "in"
      <4>1. op[g] = "read"
        BY <3>1, <3>2, <3>3, Owners DEF IInv, WatchInv, Serves, Waits
      <4>2. g # h
        BY <3>1, <3>2, <3>3, <4>1
      <4>3. FdOf[g] # FdOf[h]
        BY <3>1, <4>2, EpollAssumption
      <4> QED BY <1>7, <3>1, <3>2, <3>3, <4>2, <4>3 DEF Readable
    <3>4. CASE f.kind = "out"
      <4>1. g # h
        <5>1. g = h => fresh[f.id] = fresh[e.id]
          BY <3>2, <3>4 DEF Waits
        <5> QED BY <3>1, <5>1 DEF IInv, IdsInv
      <4>2. Waits(g, "write", f.id)'
        BY <1>1, <1>5, <3>1, <3>2, <3>4, <4>1 DEF Waits, Others
      <4>3. Writable(g) => Writable(g)'
        BY <3>1, <4>1 DEF Writable
      <4> QED BY <3>2, <3>4, <4>2, <4>3
    <3> QED BY <3>3, <3>4
  <2>2. \A f \in events' : f.kind = "hup" => strayed
    BY DEF IInv, EventsInv
  <2> QED BY <2>1, <2>2 DEF EventsInv, Waits, Answered, Readable, Writable
<1>14. AbortNeedsStray'
  BY DEF AbortNeedsStray
<1> QED BY <1>8, <1>9, <1>11, <1>12, <1>13, <1>14 DEF IInv

LEMMA HandleEventIInv ==
  ASSUME IInv, TypeInv', HandleEvent
  PROVE  IInv'
<1>1. PICK e \in events :
        /\ events' = events \ {e}
        /\ \/ HandleGone(e) \/ HandleIn(e) \/ HandleOut(e) \/ HandleOutPart(e)
           \/ AssertFails(e) \/ UnknownEvent(e)
  BY DEF HandleEvent
<1>2. phase = "events" /\ UNCHANGED <<ready, now>>
  BY DEF HandleEvent
<1>3. e \in Reports /\ (e.id \in Pending => ioIndex2req[e.id] \in Handles)
  BY TypeParts DEF IInv, WatchTyped, TableTyped
<1>4. CASE HandleGone(e)
  BY <1>1, <1>2, <1>4, QuietEvent DEF HandleGone, socketVars, coroVars, Pending
<1>5. ASSUME HandleIn(e) \/ HandleOut(e) \/ HandleOutPart(e) \/ AssertFails(e)
      PROVE  e.id \in Pending
  BY <1>5 DEF HandleIn, HandleOut, HandleOutPart, AssertFails, Pending
<1>6. ASSUME NEW h, e.id \in Pending, h = ioIndex2req[e.id]
      PROVE  /\ h \in Handles
             /\ e.kind = "in" =>
                  /\ FdOf[h] \in DOMAIN watched /\ watched[FdOf[h]] = e /\ Readable(h)
                  /\ Waits(h, "read", e.id)
             /\ e.kind = "out" => Waits(h, "write", e.id) /\ (strayed \/ Writable(h))
  <2>1. /\ h \in Handles
        /\ e.kind = "in" => FdOf[h] \in DOMAIN watched /\ watched[FdOf[h]] = e /\ Readable(h)
        /\ e.kind = "out" => Waits(h, "write", e.id) /\ (strayed \/ Writable(h))
    BY <1>2, <1>3, <1>6 DEF IInv, EventsInv
  <2>2. e.kind = "in" => Waits(h, "read", e.id)
    BY <2>1, Owners DEF IInv, WatchInv, Serves
  <2> QED BY <2>1, <2>2
<1>7. SocketsTyped
  BY TypeParts DEF IInv
<1>8. CASE HandleIn(e)
  <2>1. PICK h \in Handles :
          /\ h = ioIndex2req[e.id] /\ watched[FdOf[h]] = e /\ Waits(h, "read", e.id)
    BY <1>5, <1>6, <1>8 DEF HandleIn
  <2>2. /\ DelWatch(FdOf[h]) /\ strayed' = strayed /\ Settle(h, e.id)
        /\ rx' = IF rx[h] > 0 THEN [rx EXCEPT ![h] = @ - 1] ELSE rx
        /\ UNCHANGED <<phase, rest, tx, closed, coroVars>>
    BY <1>8, <2>1 DEF HandleIn, DropWatch
  <2>3. \A g \in Handles \ {h} : rx'[g] = rx[g] /\ tx'[g] = tx[g]
    BY <1>7, <2>2 DEF SocketsTyped
  <2>4. op[h] = "read"
    BY <2>1 DEF Waits
  <2> QED BY <1>1, <1>2, <1>5, <1>8, <2>1, <2>2, <2>3, <2>4, AnswerEvent DEF coroVars
<1>9. CASE HandleOut(e)
  <2>1. PICK h \in Handles : h = ioIndex2req[e.id] /\ Waits(h, "write", e.id)
    BY <1>5, <1>6, <1>9 DEF HandleOut
  <2>2. /\ DelWatch(FdOf[h]) /\ strayed' = strayed /\ Settle(h, e.id)
        /\ tx' = IF h \in closed THEN tx ELSE [tx EXCEPT ![h] = @ - (WriteSize - sent[h])]
        /\ UNCHANGED <<phase, rest, rx, closed, awaits, op>>
    BY <1>9, <2>1 DEF HandleOut, DropWatch
  <2>3. \A g \in Handles \ {h} : rx'[g] = rx[g] /\ tx'[g] = tx[g]
    BY <1>7, <2>2 DEF SocketsTyped
  <2>4. op[h] = "write"
    BY <2>1 DEF Waits
  <2> QED BY <1>1, <1>2, <1>5, <1>9, <2>1, <2>2, <2>3, <2>4, AnswerEvent
<1>10. CASE HandleOutPart(e)
  <2>1. PICK h \in Handles : h = ioIndex2req[e.id]
    BY <1>5, <1>6, <1>10
  <2>2. /\ e.kind = "out" /\ tx' = [tx EXCEPT ![h] = 0]
        /\ UNCHANGED <<epollVars, phase, completed, tableVars, rx, closed, awaits, op>>
    BY <1>10, <2>1 DEF HandleOutPart
  <2>3. \A g \in Handles : g # h => tx'[g] = tx[g]
    BY <1>7, <2>2 DEF SocketsTyped
  <2> QED BY <1>1, <1>2, <1>5, <1>10, <2>1, <2>2, <2>3, QuietEvent
<1>11. CASE AssertFails(e)
  <2>1. PICK h \in Handles :
          /\ h = ioIndex2req[e.id]
          /\ ~(IF e.kind = "in" THEN Readable(h) ELSE Writable(h)) /\ e.kind # "hup"
    BY <1>5, <1>6, <1>11 DEF AssertFails
  <2>2. e.kind = "out" /\ strayed
    BY <1>3, <1>5, <1>6, <1>11, <2>1 DEF Reports
  <2> QED BY <1>1, <1>2, <1>11, <2>2, QuietEvent DEF AssertFails, socketVars, coroVars
<1>12. CASE UnknownEvent(e)
  <2>1. strayed
    BY <1>2, <1>12 DEF UnknownEvent, IInv, EventsInv
  <2> QED BY <1>1, <1>2, <1>12, <2>1, QuietEvent DEF UnknownEvent, socketVars, coroVars
<1> QED BY <1>1, <1>4, <1>8, <1>9, <1>10, <1>11, <1>12

\* The second write of a rest changes at most the room of a socket, and then the
\* process ends there.
LEMMA WriteRestIInv ==
  ASSUME IInv, TypeInv', WriteRest
  PROVE  IInv'
<1>1. PICK h \in rest : RestBlocks(h) \/ RestFails(h)
  BY DEF WriteRest
<1>2. /\ phase = "events" /\ epollVars' = epollVars
      /\ UNCHANGED <<ready, completed, tableVars, events, now, rx, closed, coroVars>>
      /\ (phase' = phase /\ tx' = tx) \/ (phase' = "aborted" /\ rest' = rest)
  BY <1>1 DEF WriteRest, RestBlocks, RestFails, WatchOn
<1>3. Others({}) /\ TableShrinks
  BY <1>2 DEF Others, Answered, Elems, TableShrinks, tableVars, coroVars, Pending
<1>4. AnswersInv'
  BY <1>2 DEF IInv, AnswersInv, Answered, Elems, Distinct, tableVars, coroVars
<1>5. IdsInv' /\ WatchInv'
  BY <1>2, OpenFacts
  DEF IInv, IdsInv, WatchInv, Serves, Waits, Answered, Elems, tableVars, epollVars, coroVars, Pending
<1>6. EventsInv'
  BY <1>2 DEF IInv, EventsInv, Waits, Answered, Elems, Readable, Writable, tableVars, epollVars,
              coroVars, Pending
<1>7. ReadsAreWatched'
  BY <1>2, <1>3, <1>5, StillWatched DEF ReadsAreWatched, tableVars, epollVars, Readable, Pending
<1>8. AbortNeedsStray'
  BY <1>1, <1>2 DEF AbortNeedsStray
<1> QED BY <1>4, <1>5, <1>6, <1>7, <1>8 DEF IInv

\* Without a timeout nothing is late, and the answers become those to be resumed.
LEMMA PollEndsIInv ==
  ASSUME IInv, TypeInv', PollEnds
  PROVE  IInv'
<1>1. /\ phase = "events" /\ events = {} /\ phase' = "resume"
      /\ deadline' = TS!Without(deadline, TS!Due)
      /\ UNCHANGED <<rest, ioIndex, ioIndex2req, fresh, epollVars, events, now, socketVars, coroVars>>
  BY DEF PollEnds
<1>2. ready = <<>> /\ DOMAIN deadline = {} /\ TS!Due = {}
  BY <1>1 DEF IInv, AnswersInv, TS!Due
<1>3. PICK keys \in Listings(TS!Due \cap DOMAIN ioIndex2req) :
        SwapAnswers([i \in 1 .. Len(keys) |-> ioIndex2req[keys[i]]])
  BY DEF PollEnds
<1>4. Len(keys) = 0
  <2>1. keys \in Seq({})
    BY <1>2 DEF Listings, TS!IsListing
  <2> QED BY <2>1
<1>5. ready' = completed /\ completed' = <<>>
  BY <1>2, <1>3, <1>4 DEF SwapAnswers
<1>6. Elems(ready) = {} /\ Elems(completed)' = {} /\ Elems(ready)' = Elems(completed)
  BY <1>2, <1>5 DEF Elems
<1>7. \A h \in Handles : Answered(h)' <=> Answered(h)
  BY <1>6 DEF Answered
<1>8. Others({}) /\ TableShrinks
  BY <1>1, <1>7 DEF Others, TableShrinks, Pending, coroVars
<1>9. AnswersInv'
  <2>1. Distinct(completed)
    BY DEF IInv, AnswersInv
  <2>2. Distinct(ready)' /\ Distinct(completed)'
    BY <1>5, <2>1 DEF Distinct
  <2>3. DOMAIN deadline' = {}
    BY <1>1, <1>2 DEF TS!Without
  <2>4. \A h \in Handles : Answered(h)' => op'[h] # "none"
    BY <1>1, <1>7 DEF IInv, AnswersInv, coroVars
  <2>5. \A h \in Handles : awaits'[h] = 0 => op'[h] = "none"
    BY <1>1 DEF IInv, AnswersInv, coroVars
  <2> QED BY <1>1, <1>6, <2>2, <2>3, <2>4, <2>5 DEF AnswersInv
<1>10. IdsInv'
  BY <1>1 DEF IInv, IdsInv, Pending, coroVars
<1>11. WatchInv'
  <2>1. ASSUME NEW fd \in DOMAIN watched, NEW k, NEW id, k = watched[fd].kind, id = watched[fd].id
        PROVE  Serves(fd, k, id)'
    <3>1. k = "in" => id \in Pending'
      BY <1>1, <2>1 DEF IInv, WatchInv, Serves, Pending
    <3> QED BY <1>1, <1>8, <2>1, <3>1, OpenFacts, StillServes DEF epollVars, coroVars
  <2>2. watched' = watched
    BY <1>1 DEF epollVars
  <2> QED BY <2>1, <2>2 DEF WatchInv, Serves, Waits
<1>12. ReadsAreWatched'
  BY <1>1, <1>8, <1>11, StillWatched DEF epollVars, socketVars, Readable, Pending
<1>13. EventsInv' /\ AbortNeedsStray'
  BY <1>1 DEF EventsInv, AbortNeedsStray
<1> QED BY <1>9, <1>10, <1>11, <1>12, <1>13 DEF IInv

------------------------------------------------------------------------------
(* The peers and the clock *)

\* What a peer does wakes the registration that waits for it, and blocks no socket.
LEMMA PeersIInv ==
  ASSUME IInv, TypeInv', NEW h \in Handles, PeerSends(h) \/ PeerReads(h) \/ PeerCloses(h)
  PROVE  IInv'
<1>1. UNCHANGED <<workerVars, tableVars, watched, strayed, events, now, coroVars>>
  BY DEF PeerSends, PeerReads, PeerCloses
<1>2. SocketsTyped /\ SocketsTyped'
  BY TypeParts DEF IInv
<1>3. \A g \in Handles : (Readable(g) => Readable(g)') /\ (Writable(g) => Writable(g)')
  BY <1>2 DEF PeerSends, PeerReads, PeerCloses, Readable, Writable, SocketsTyped
<1>4. edges \subseteq edges'
  BY DEF PeerSends, PeerReads, PeerCloses, Wake
<1>5. \A g \in Handles : Readable(g)' /\ ~Readable(g) => g = h /\ (PeerSends(h) \/ PeerCloses(h))
  BY <1>2 DEF PeerSends, PeerReads, PeerCloses, Readable, SocketsTyped
<1>6. (PeerSends(h) \/ PeerCloses(h)) /\ FdOf[h] \in DOMAIN watched /\ watched[FdOf[h]].kind = "in" =>
        FdOf[h] \in edges'
  BY DEF PeerSends, PeerCloses, Wake
<1>7. Others({}) /\ TableShrinks
  BY <1>1 DEF Others, Answered, Elems, TableShrinks, workerVars, tableVars, coroVars, Pending
<1>8. AnswersInv'
  <2>1. UNCHANGED <<phase, ready, completed, deadline, events, op, awaits>>
    BY <1>1 DEF workerVars, tableVars, coroVars
  <2>2. AnswersInv
    BY DEF IInv
  <2>3. \A g \in Handles : Answered(g)' <=> Answered(g)
    BY <2>1 DEF Answered, Elems
  <2>4. (Distinct(ready) /\ Distinct(completed) /\ Elems(ready) \cap Elems(completed) = {})'
    BY <2>1, <2>2 DEF AnswersInv, Elems, Distinct
  <2>5. (/\ \A g \in Handles : Answered(g) => op[g] # "none"
         /\ \A g \in Handles : awaits[g] = 0 => op[g] = "none")'
    BY <2>1, <2>2, <2>3 DEF AnswersInv
  <2>6. (/\ phase \in {"resume", "wait"} => events = {}
         /\ phase # "resume" => ready = <<>>
         /\ DOMAIN deadline = {})'
    BY <2>1, <2>2 DEF AnswersInv
  <2> QED BY <2>4, <2>5, <2>6 DEF AnswersInv
<1>9. IdsInv' /\ WatchInv'
  BY <1>1, OpenFacts
  DEF IInv, IdsInv, WatchInv, Serves, Waits, Answered, Elems, workerVars, tableVars, coroVars, Pending
<1>10. EventsInv'
  <2>1. \A id \in Pending : ioIndex2req[id] \in Handles
    BY TypeParts DEF IInv, TableTyped
  <2>2. ASSUME phase = "events", NEW e \in events, NEW g, e.id \in Pending, g = ioIndex2req[e.id]
        PROVE  /\ e.kind = "in" => FdOf[g] \in DOMAIN watched /\ watched[FdOf[g]] = e /\ Readable(g)'
               /\ e.kind = "out" => Waits(g, "write", e.id) /\ (strayed \/ Writable(g)')
    BY <1>3, <2>1, <2>2 DEF IInv, EventsInv
  <2>3. phase = "events" => \A e \in events : e.kind = "hup" => strayed
    BY DEF IInv, EventsInv
  <2> QED BY <1>1, <2>2, <2>3 DEF EventsInv, Waits, Answered, Elems, Readable, Writable, workerVars,
                            tableVars, coroVars, Pending
<1>11. ReadsAreWatched'
  <2>1. CASE phase = "aborted"
    BY <1>1, <2>1 DEF ReadsAreWatched, workerVars
  <2>2. CASE phase # "aborted"
    <3>1. ASSUME NEW g \in Handles, NEW id \in Pending,
                 FdOf[g] \in DOMAIN watched, watched[FdOf[g]] = [kind |-> "in", id |-> id],
                 Readable(g) => FdOf[g] \in edges \/ watched[FdOf[g]] \in events
          PROVE  /\ id \in Pending'
                 /\ FdOf[g] \in DOMAIN watched' /\ watched'[FdOf[g]] = watched[FdOf[g]]
                 /\ Readable(g)' => FdOf[g] \in edges' \/ watched[FdOf[g]] \in events'
      <4>1. Readable(g)' => Readable(g) \/ FdOf[g] \in edges'
        BY <1>5, <1>6, <3>1
      <4> QED BY <1>1, <1>4, <3>1, <4>1 DEF tableVars, Pending
    <3> QED BY <1>7, <1>9, <2>2, <3>1, StillWatched
  <2> QED BY <2>1, <2>2
<1>12. AbortNeedsStray'
  BY <1>1 DEF IInv, AbortNeedsStray, workerVars
<1> QED BY <1>8, <1>9, <1>10, <1>11, <1>12 DEF IInv

\* What another thread does to its descriptors reaches no suspended coroutine.
LEMMA ForeignIInv ==
  ASSUME IInv, TypeInv', ForeignWakes \/ ForeignCloses
  PROVE  IInv'
<1>1. UNCHANGED <<workerVars, tableVars, strayed, events, now, socketVars, coroVars>>
  BY DEF ForeignWakes, ForeignCloses
<1>2. /\ DOMAIN watched' \subseteq DOMAIN watched
      /\ \A fd \in DOMAIN watched' : watched'[fd] = watched[fd]
      /\ \A fd \in DOMAIN watched \ DOMAIN watched' : fd \in Foreign
      /\ \A fd \in edges : fd \in edges' \/ fd \in Foreign
  <2>1. CASE ForeignWakes
    BY <2>1 DEF ForeignWakes
  <2>2. CASE ForeignCloses
    BY <2>2, DelWatchFacts DEF ForeignCloses
  <2> QED BY <2>1, <2>2
<1>3. Others({}) /\ TableShrinks /\ Open' = Open
  BY <1>1, OpenFacts
  DEF Others, Answered, Elems, TableShrinks, workerVars, tableVars, coroVars, Pending
<1>4. AnswersInv' /\ IdsInv' /\ AbortNeedsStray'
  <2>1. UNCHANGED <<phase, ready, completed, rest, deadline, events, op, awaits, strayed>>
    BY <1>1 DEF workerVars, tableVars, coroVars
  <2>2. AnswersInv' /\ AbortNeedsStray'
    BY <2>1 DEF IInv, AnswersInv, AbortNeedsStray, Answered, Elems, Distinct
  <2>3. IdsInv'
    BY <1>1 DEF IInv, IdsInv, tableVars, coroVars, Pending
  <2> QED BY <2>2, <2>3
<1>5. WatchInv'
  <2>1. ASSUME NEW fd \in DOMAIN watched', NEW k, NEW id, k = watched'[fd].kind, id = watched'[fd].id
        PROVE  Serves(fd, k, id)'
    <3>1. fd \in DOMAIN watched /\ k = watched[fd].kind /\ id = watched[fd].id
      BY <1>2, <2>1
    <3>2. k = "in" => id \in Pending'
      BY <1>1, <3>1 DEF IInv, WatchInv, Serves, Pending, tableVars
    <3> QED BY <1>1, <1>3, <3>1, <3>2, StillServes
  <2> QED BY <2>1 DEF WatchInv, Serves, Waits
<1>6. ASSUME NEW g \in Handles, op[g] # "none", FdOf[g] \in DOMAIN watched
      PROVE  /\ FdOf[g] \in DOMAIN watched' /\ watched'[FdOf[g]] = watched[FdOf[g]]
             /\ FdOf[g] \in edges => FdOf[g] \in edges'
  <2>1. FdOf[g] \notin Foreign
    BY <1>6, OpenFacts
  <2> QED BY <1>2, <1>6, <2>1
<1>7. ReadsAreWatched'
  <2>1. CASE phase = "aborted"
    BY <1>1, <2>1 DEF ReadsAreWatched, workerVars
  <2>2. CASE phase # "aborted"
    BY <1>1, <1>3, <1>5, <1>6, <2>2, StillWatched DEF tableVars, socketVars, Readable, Pending
  <2> QED BY <2>1, <2>2
<1>8. EventsInv'
  <2>1. \A id \in Pending : ioIndex2req[id] \in Handles
    BY TypeParts DEF IInv, TableTyped
  <2>2. ASSUME phase = "events", NEW e \in events, NEW g, e.id \in Pending, g = ioIndex2req[e.id]
        PROVE  /\ e.kind = "in" =>
                    FdOf[g] \in DOMAIN watched' /\ watched'[FdOf[g]] = e /\ Readable(g)
               /\ e.kind = "out" => Waits(g, "write", e.id) /\ (strayed \/ Writable(g))
    <3>1. /\ e.kind = "in" => FdOf[g] \in DOMAIN watched /\ watched[FdOf[g]] = e /\ Readable(g)
          /\ e.kind = "out" => Waits(g, "write", e.id) /\ (strayed \/ Writable(g))
          /\ g \in Handles
      BY <2>1, <2>2 DEF IInv, EventsInv
    <3>2. e.kind = "in" => op[g] = "read"
      BY <3>1, Owners DEF IInv, WatchInv, Serves, Waits
    <3> QED BY <1>6, <3>1, <3>2
  <2>3. phase = "events" => \A e \in events : e.kind = "hup" => strayed
    BY DEF IInv, EventsInv
  <2> QED BY <1>1, <2>2, <2>3 DEF EventsInv, Waits, Answered, Elems, Readable, Writable, workerVars,
                            tableVars, socketVars, coroVars, Pending
<1> QED BY <1>4, <1>5, <1>7, <1>8 DEF IInv

LEMMA NextIInv == NoTimeouts /\ IInv /\ [Next]_vars => IInv'
<1> SUFFICES ASSUME NoTimeouts, IInv, [Next]_vars PROVE IInv'
  OBVIOUS
<1>1. TypeInv'
  BY NextTyped DEF IInv
<1>2. ASSUME NEW h \in Handles, NEW timeout \in Timeouts, StartCoroutine(h, timeout) PROVE IInv'
  BY <1>1, <1>2, StartIInv
<1>3. ASSUME NEW kind \in {"read", "write"}, NEW timeout \in Timeouts, ResumeToAwait(kind, timeout)
      PROVE  IInv'
  BY <1>1, <1>3, ResumeToAwaitIInv
<1>4. CASE ResumeToEnd
  BY <1>1, <1>4, ResumeToEndIInv
<1>5. CASE EpollWait
  BY <1>1, <1>5, EpollWaitIInv
<1>6. CASE HandleEvent
  BY <1>1, <1>6, HandleEventIInv
<1>7. CASE PollEnds
  BY <1>1, <1>7, PollEndsIInv
<1>8. ASSUME NEW h \in Handles, PeerSends(h) \/ PeerReads(h) \/ PeerCloses(h) PROVE IInv'
  BY <1>1, <1>8, PeersIInv
<1>9. CASE WriteRest
  BY <1>1, <1>9, WriteRestIInv
<1>10. CASE ForeignWakes \/ ForeignCloses
  BY <1>1, <1>10, ForeignIInv
<1>11. CASE ResumeDone \/ Tick \/ UNCHANGED vars
  <2>1. /\ UNCHANGED <<ready, completed, rest, tableVars, epollVars, events, socketVars, coroVars>>
        /\ phase' = phase \/ (phase = "resume" /\ ready = <<>> /\ phase' = "wait")
    BY <1>11 DEF ResumeDone, Tick, vars, workerVars
  <2>2. AnswersInv'
    BY <2>1 DEF IInv, AnswersInv, Answered, Elems, Distinct, tableVars, coroVars
  <2>3. IdsInv' /\ WatchInv'
    BY <2>1, OpenFacts
    DEF IInv, IdsInv, WatchInv, Serves, Waits, Answered, Elems, tableVars, epollVars, coroVars, Pending
  <2>4. EventsInv'
    BY <2>1 DEF IInv, EventsInv, Waits, Answered, Elems, Readable, Writable, tableVars, epollVars,
                socketVars, coroVars, Pending
  <2>5. AbortNeedsStray'
    BY <2>1 DEF IInv, AbortNeedsStray, epollVars
  <2>6. Others({}) /\ TableShrinks
    BY <2>1 DEF Others, Answered, Elems, TableShrinks, tableVars, coroVars, Pending
  <2>7. ReadsAreWatched'
    <3>1. CASE phase = "aborted"
      BY <2>1, <3>1 DEF ReadsAreWatched
    <3>2. CASE phase # "aborted"
      BY <2>1, <2>3, <2>6, <3>2, StillWatched DEF tableVars, epollVars, socketVars, Readable, Pending
    <3> QED BY <3>1, <3>2
  <2> QED BY <1>1, <2>2, <2>3, <2>4, <2>5, <2>7 DEF IInv
<1> QED BY <1>2, <1>3, <1>4, <1>5, <1>6, <1>7, <1>8, <1>9, <1>10, <1>11 DEF Next, Worker

------------------------------------------------------------------------------
(* Writes *)

\* The socket of a suspended write is registered for it and no edge of it is lost.
WriteWatched(g) ==
  \E id \in Pending :
    /\ ioIndex2req[id] = g /\ fresh[id] = awaits[g] /\ sent[g] < WriteSize
    /\ FdOf[g] \in DOMAIN watched
    /\ watched[FdOf[g]] = [kind |-> "out", id |-> id]
    /\ Writable(g) => FdOf[g] \in edges \/ watched[FdOf[g]] \in events

\* What the answer of a write means.
WriteSettled(g) ==
  \/ sent[g] = WriteSize \/ g \in closed
  \/ \E id \in Pending : ioIndex2req[id] = g /\ fresh[id] = awaits[g]

\* Beside IInv: until an io id strays, a registration for writing has its request.
WritesInv ==
  /\ phase # "aborted" /\ ~strayed =>
       /\ \A g \in Handles : op[g] = "write" /\ ~Answered(g) => WriteWatched(g)
       /\ \A fd \in DOMAIN watched : watched[fd].kind = "out" => watched[fd].id \in Pending
  /\ \A g \in Handles : op[g] = "write" /\ Answered(g) => WriteSettled(g)

LEMMA WritesFromInv == IInv /\ WritesInv => WritesAreWatched
<1> SUFFICES ASSUME IInv, WritesInv PROVE WritesAreWatched
  OBVIOUS
<1>1. ASSUME phase # "aborted", ~strayed, NEW fd \in DOMAIN watched, watched[fd].kind = "out"
      PROVE  /\ op[Owner(fd)] = "write" /\ ~Answered(Owner(fd))
             /\ fresh[watched[fd].id] = awaits[Owner(fd)]
  <2>1. watched[fd].id \in Pending /\ Serves(fd, watched[fd].kind, watched[fd].id)
    BY <1>1 DEF WritesInv, IInv, WatchInv
  <2>2. PICK g \in Handles : g = ioIndex2req[watched[fd].id]
    BY <2>1, TypeParts DEF IInv, TableTyped
  <2>3. Waits(g, "write", watched[fd].id) /\ fd = FdOf[g]
    BY <1>1, <2>1, <2>2 DEF Serves
  <2>4. Owner(fd) = g
    BY <2>3, Owners
  <2> QED BY <2>3, <2>4 DEF Waits
<1>2. ASSUME phase # "aborted", ~strayed, NEW h \in Handles, op[h] = "write", ~Answered(h)
      PROVE  WriteWatched(h)
  BY <1>2 DEF WritesInv
<1>3. \A h \in Handles : op[h] = "write" /\ Answered(h) => WriteSettled(h)
  BY DEF WritesInv
<1> QED BY <1>1, <1>2, <1>3 DEF WritesAreWatched, WriteWatched, WriteSettled, Pending

\* A write that is suspended on keeps its registration and what it is due, and an
\* answered one what its answer means.
LEMMA StillWrites ==
  ASSUME IInv, WritesInv, NEW S \in SUBSET Handles, Others(S), TableShrinks,
         phase = "aborted" => phase' = "aborted", strayed' = strayed, closed \subseteq closed',
         \A g \in S : op'[g] = "write" => Answered(g)' /\ (sent'[g] = WriteSize \/ g \in closed'),
         \A g \in Handles \ S :
           sent'[g] = sent[g] \/ (~Answered(g) /\ sent'[g] < WriteSize),
         \A id \in Pending : ioIndex2req[id] \notin S => id \in Pending',
         \A g \in Handles \ S, id \in Pending :
           /\ phase' # "aborted" /\ op[g] = "write" /\ ~Answered(g)
           /\ ioIndex2req[id] = g /\ fresh[id] = awaits[g]
           /\ FdOf[g] \in DOMAIN watched /\ watched[FdOf[g]] = [kind |-> "out", id |-> id]
           /\ Writable(g) => FdOf[g] \in edges \/ watched[FdOf[g]] \in events
           => /\ FdOf[g] \in DOMAIN watched' /\ watched'[FdOf[g]] = watched[FdOf[g]]
              /\ Writable(g)' => FdOf[g] \in edges' \/ watched[FdOf[g]] \in events',
         \A fd \in DOMAIN watched' :
           /\ fd \in DOMAIN watched /\ watched'[fd] = watched[fd]
           /\ ~strayed /\ watched[fd].kind = "out" /\ watched[fd].id \in Pending =>
                watched[fd].id \in Pending'
  PROVE  WritesInv'
<1>1. ASSUME phase' # "aborted", ~strayed', NEW g \in Handles, op'[g] = "write", ~Answered(g)'
      PROVE  WriteWatched(g)'
  <2>1. g \in Handles \ S /\ op[g] = "write" /\ ~Answered(g) /\ awaits'[g] = awaits[g]
    BY <1>1 DEF Others
  <2>2. WriteWatched(g)
    BY <1>1, <2>1 DEF WritesInv
  <2>3. PICK id \in Pending :
          /\ ioIndex2req[id] = g /\ fresh[id] = awaits[g] /\ sent[g] < WriteSize
          /\ FdOf[g] \in DOMAIN watched
          /\ watched[FdOf[g]] = [kind |-> "out", id |-> id]
          /\ Writable(g) => FdOf[g] \in edges \/ watched[FdOf[g]] \in events
    BY <2>2 DEF WriteWatched
  <2>4. /\ FdOf[g] \in DOMAIN watched' /\ watched'[FdOf[g]] = watched[FdOf[g]]
        /\ Writable(g)' => FdOf[g] \in edges' \/ watched[FdOf[g]] \in events'
    BY <1>1, <2>1, <2>3
  <2>5. id \in Pending' /\ ioIndex2req'[id] = g /\ fresh'[id] = awaits'[g]
    BY <2>1, <2>3 DEF TableShrinks
  <2>6. sent'[g] < WriteSize
    BY <2>1, <2>3
  <2> QED BY <2>3, <2>4, <2>5, <2>6 DEF WriteWatched
<1>2. ASSUME phase' # "aborted", ~strayed', NEW fd \in DOMAIN watched', watched'[fd].kind = "out"
      PROVE  watched'[fd].id \in Pending'
  BY <1>2 DEF WritesInv
<1>3. ASSUME NEW g \in Handles, op'[g] = "write", Answered(g)' PROVE WriteSettled(g)'
  <2>1. CASE g \in S
    BY <1>3, <2>1 DEF WriteSettled
  <2>2. CASE g \notin S
    <3>1. WriteSettled(g) /\ sent'[g] = sent[g] /\ awaits'[g] = awaits[g]
      BY <1>3, <2>2 DEF WritesInv, Others
    <3>2. CASE sent[g] = WriteSize \/ g \in closed
      BY <3>1, <3>2 DEF WriteSettled
    <3>3. ASSUME NEW id \in Pending, ioIndex2req[id] = g, fresh[id] = awaits[g]
          PROVE  WriteSettled(g)'
      <4>1. id \in Pending' /\ ioIndex2req'[id] = g /\ fresh'[id] = awaits'[g]
        BY <2>2, <3>1, <3>3 DEF TableShrinks
      <4> QED BY <4>1 DEF WriteSettled
    <3> QED BY <3>1, <3>2, <3>3 DEF WriteSettled
  <2> QED BY <2>1, <2>2
<1> QED BY <1>1, <1>2, <1>3 DEF WritesInv

\* What an await sends, and what that leaves of the room.
LEMMA AwaitSends ==
  ASSUME NoTimeouts, IInv, NEW h \in Handles, NEW kind \in {"read", "write"},
         NEW timeout \in Timeouts, Await(h, kind, timeout)
  PROVE  /\ \A g \in Handles \ {h} : sent'[g] = sent[g] /\ tx'[g] = tx[g]
         /\ kind = "write" =>
              \/ AnsweredAtOnce(h) /\ (sent'[h] = WriteSize \/ h \in closed' \/ NewId(h))
              \/ Registered(h, kind) /\ sent'[h] < WriteSize /\ ~Writable(h)'
<1>1. SocketsTyped /\ TableTyped
  BY TypeParts DEF IInv
<1>2. /\ sent' = sent \/ \E n : sent' = [sent EXCEPT ![h] = n]
      /\ tx' = tx \/ \E n : tx' = [tx EXCEPT ![h] = n]
  BY DEF Await, ReadNow, ReadLater, WriteNow, WriteLater
<1>3. \A g \in Handles \ {h} : sent'[g] = sent[g] /\ tx'[g] = tx[g]
  BY <1>1, <1>2 DEF SocketsTyped
<1>4. CASE WriteNow(h)
  BY <1>1, <1>3, <1>4 DEF WriteNow, AnsweredAtOnce, Answer, SocketsTyped
<1>5. CASE WriteLater(h, timeout)
  <2>1. sent'[h] < WriteSize /\ ~Writable(h)'
    BY <1>1, <1>5 DEF WriteLater, Writable, SocketsTyped
  <2>2. ioIndex \in Nat /\ NewId(h)
    BY <1>1, <1>5 DEF WriteLater, TableTyped
  <2>3. kind = "write" => (AnsweredAtOnce(h) /\ NewId(h)) \/ Registered(h, kind)
    BY <1>5, <2>2 DEF WriteLater, AnsweredAtOnce, Registered, Answer
  <2> QED BY <1>3, <2>1, <2>3
<1> QED BY <1>3, <1>4, <1>5 DEF Await

LEMMA AwaitWrites ==
  ASSUME NoTimeouts, IInv, WritesInv, NEW h \in Handles, NEW kind \in {"read", "write"},
         NEW timeout \in Timeouts, Await(h, kind, timeout),
         phase = "resume", UNCHANGED <<phase, rest, events>>, h \notin Elems(completed),
         ready' \in Seq(Handles), Distinct(ready)', Elems(ready)' = Elems(ready) \ {h}
  PROVE  WritesInv'
<1>1. /\ AnsweredAtOnce(h) \/ Registered(h, kind)
      /\ UNCHANGED tableVars \/ NewId(h)
      /\ closed' = closed
      /\ awaits'[h] = awaits[h] + 1 /\ op'[h] = kind
      /\ \A g \in Handles \ {h} : awaits'[g] = awaits[g] /\ op'[g] = op[g]
  BY AwaitFacts
<1>2. /\ Pending \subseteq Pending'
      /\ \A id \in Pending : ioIndex2req'[id] = ioIndex2req[id] /\ fresh'[id] = fresh[id]
      /\ ioIndex \in Pending' => ioIndex2req'[ioIndex] = h /\ fresh'[ioIndex] = awaits[h] + 1
  BY <1>1, AwaitTable
<1>3. completed' = completed \/ completed' = Append(completed, h)
  BY <1>1 DEF AnsweredAtOnce, Registered
<1>4. /\ \A g \in Handles \ {h} : Answered(g)' <=> Answered(g)
      /\ Answered(h)' <=> completed' # completed
  BY <1>3, AwaitAnswers
<1>5. completed # Append(completed, h)
  BY AppendElems, TypeParts DEF IInv, CoroutinesTyped
<1>6. /\ \A g \in Handles \ {h} : sent'[g] = sent[g] /\ tx'[g] = tx[g]
      /\ kind = "write" =>
           \/ AnsweredAtOnce(h) /\ (sent'[h] = WriteSize \/ h \in closed' \/ NewId(h))
           \/ Registered(h, kind) /\ sent'[h] < WriteSize /\ ~Writable(h)'
  BY AwaitSends
<1>7. NewId(h) => ioIndex \in Pending'
  BY NewIdFacts DEF IInv
<1>8. /\ DOMAIN watched \subseteq DOMAIN watched'
      /\ \A fd \in DOMAIN watched : watched'[fd] = watched[fd]
      /\ edges \subseteq edges' /\ (strayed => strayed')
      /\ DOMAIN watched' # DOMAIN watched =>
           /\ Registered(h, kind) /\ NewId(h)
           /\ \A fd \in DOMAIN watched' \ DOMAIN watched : watched'[fd].id = ioIndex
  <2>1. CASE AnsweredAtOnce(h)
    BY <2>1 DEF AnsweredAtOnce, epollVars
  <2>2. CASE Registered(h, kind)
    <3>1. PICK fd \in Nat :
            /\ NewId(h) /\ CanAdd(fd)
            /\ \/ AddWatch(fd, "in", ioIndex) /\ strayed' = strayed
               \/ AddWatch(fd, "out", ioIndex) /\ strayed' = (strayed \/ fd # FdOf[h])
      BY <2>2 DEF Registered
    <3>2. strayed => strayed'
      BY <3>1
    <3>3. PICK k \in {"in", "out"} : AddWatch(fd, k, ioIndex)
      BY <3>1
    <3>4. /\ DOMAIN watched' = DOMAIN watched \cup {fd}
          /\ watched'[fd] = [kind |-> k, id |-> ioIndex]
          /\ \A f \in DOMAIN watched : watched'[f] = watched[f]
          /\ edges \subseteq edges'
      BY <3>1, <3>3, AddWatchFacts DEF CanAdd
    <3> QED BY <2>2, <3>1, <3>2, <3>4
  <2> QED BY <1>1, <2>1, <2>2
<1>9. events = {}
  BY DEF IInv, AnswersInv
<1>10. ASSUME ~strayed', NEW g \in Handles, op'[g] = "write", ~Answered(g)'
       PROVE  WriteWatched(g)'
  <2>1. CASE g # h
    <3>1. WriteWatched(g)
      BY <1>1, <1>4, <1>8, <1>10, <2>1 DEF WritesInv
    <3>2. PICK id \in Pending :
            /\ ioIndex2req[id] = g /\ fresh[id] = awaits[g] /\ sent[g] < WriteSize
            /\ FdOf[g] \in DOMAIN watched
            /\ watched[FdOf[g]] = [kind |-> "out", id |-> id]
            /\ Writable(g) => FdOf[g] \in edges \/ watched[FdOf[g]] \in events
      BY <3>1 DEF WriteWatched
    <3>3. Writable(g)' => FdOf[g] \in edges'
      BY <1>1, <1>6, <1>8, <1>9, <2>1, <3>2 DEF Writable
    <3>4. id \in Pending' /\ ioIndex2req'[id] = g /\ fresh'[id] = awaits'[g] /\ sent'[g] < WriteSize
      BY <1>1, <1>2, <1>6, <2>1, <3>2
    <3>5. FdOf[g] \in DOMAIN watched' /\ watched'[FdOf[g]] = [kind |-> "out", id |-> id]
      BY <1>8, <3>2
    <3> QED BY <3>3, <3>4, <3>5 DEF WriteWatched
  <2>2. CASE g = h
    <3>1. kind = "write" /\ completed' = completed
      BY <1>1, <1>4, <1>10, <2>2
    <3>2. Registered(h, "write") /\ sent'[h] < WriteSize /\ ~Writable(h)'
      BY <1>5, <1>6, <3>1 DEF AnsweredAtOnce
    <3>3. PICK fd \in Nat :
            /\ NewId(h) /\ CanAdd(fd)
            /\ AddWatch(fd, "out", ioIndex) /\ strayed' = (strayed \/ fd # FdOf[h])
      BY <3>2 DEF Registered
    <3>4. fd = FdOf[h]
      BY <1>10, <3>3
    <3>5. FdOf[h] \in DOMAIN watched' /\ watched'[FdOf[h]] = [kind |-> "out", id |-> ioIndex]
      <4>1. fd \notin DOMAIN watched /\ AddWatch(fd, "out", ioIndex)
        BY <3>3 DEF CanAdd
      <4>2. fd \in DOMAIN watched' /\ watched'[fd] = [kind |-> "out", id |-> ioIndex]
        BY <4>1, AddWatchFacts
      <4> QED BY <3>4, <4>2
    <3>6. ioIndex \in Pending' /\ ioIndex2req'[ioIndex] = h /\ fresh'[ioIndex] = awaits'[h]
      BY <1>1, <1>2, <1>7, <3>3
    <3> QED BY <2>2, <3>2, <3>5, <3>6 DEF WriteWatched
  <2> QED BY <2>1, <2>2
<1>11. ASSUME ~strayed', NEW fd \in DOMAIN watched', watched'[fd].kind = "out"
       PROVE  watched'[fd].id \in Pending'
  <2>1. CASE fd \in DOMAIN watched
    BY <1>2, <1>8, <1>11, <2>1 DEF WritesInv
  <2>2. CASE fd \notin DOMAIN watched
    BY <1>7, <1>8, <2>2
  <2> QED BY <2>1, <2>2
<1>12. ASSUME NEW g \in Handles, op'[g] = "write", Answered(g)' PROVE WriteSettled(g)'
  <2>1. CASE g # h
    <3>1. WriteSettled(g) /\ sent'[g] = sent[g] /\ awaits'[g] = awaits[g]
      BY <1>1, <1>4, <1>6, <1>12, <2>1 DEF WritesInv
    <3> QED BY <1>1, <1>2, <3>1 DEF WriteSettled
  <2>2. CASE g = h
    <3>1. kind = "write" /\ completed' # completed
      BY <1>1, <1>4, <1>12, <2>2
    <3>2. sent'[h] = WriteSize \/ h \in closed' \/ NewId(h)
      BY <1>6, <3>1 DEF Registered
    <3>3. NewId(h) =>
            ioIndex \in Pending' /\ ioIndex2req'[ioIndex] = h /\ fresh'[ioIndex] = awaits'[h]
      BY <1>1, <1>2, <1>7
    <3> QED BY <2>2, <3>2, <3>3 DEF WriteSettled
  <2> QED BY <2>1, <2>2
<1> QED BY <1>10, <1>11, <1>12 DEF WritesInv

LEMMA ResumeToEndWrites ==
  ASSUME IInv, WritesInv, ResumeToEnd
  PROVE  WritesInv'
<1>1. PICK h \in Handles :
        /\ h = Head(ready) /\ h \in Elems(ready) /\ h \notin Elems(completed)
        /\ Tail(ready) \in Seq(Handles) /\ Elems(Tail(ready)) = Elems(ready) \ {h}
  BY HeadFacts DEF ResumeToEnd
<1>2. /\ phase = "resume" /\ ready' = Tail(ready)
      /\ op' = [op EXCEPT ![h] = "none"] /\ awaits' = [awaits EXCEPT ![h] = MaxAwaits]
      /\ DelWatch(FdOf[h])
      /\ tx' = [tx EXCEPT ![h] = 0] /\ sent' = [sent EXCEPT ![h] = 0]
      /\ closed' = closed \cup {h}
      /\ UNCHANGED <<phase, completed, tableVars, strayed, events>>
  BY <1>1 DEF ResumeToEnd
<1>3. Elems(ready)' = Elems(ready) \ {h} /\ Elems(completed)' = Elems(completed)
  BY <1>1, <1>2 DEF Elems
<1>4. op'[h] = "none" /\ Others({h})
  BY <1>1, <1>2, <1>3, TypeParts DEF IInv, CoroutinesTyped, Others, Answered
<1>5. TableShrinks /\ Pending' = Pending
  BY <1>2 DEF TableShrinks, tableVars, Pending
<1>6. /\ DOMAIN watched' = DOMAIN watched \ {FdOf[h]}
      /\ \A fd \in DOMAIN watched' : watched'[fd] = watched[fd]
      /\ edges' = edges \ {FdOf[h]}
  BY <1>2, DelWatchFacts
<1>7. ASSUME NEW g \in Handles \ {h}, FdOf[g] \in DOMAIN watched,
             Writable(g) => FdOf[g] \in edges \/ watched[FdOf[g]] \in events
      PROVE  /\ FdOf[g] \in DOMAIN watched' /\ watched'[FdOf[g]] = watched[FdOf[g]]
             /\ Writable(g)' => FdOf[g] \in edges' \/ watched[FdOf[g]] \in events'
  <2>1. FdOf[g] # FdOf[h]
    BY EpollAssumption
  <2>2. Writable(g)' => Writable(g)
    BY <1>2, TypeParts DEF IInv, SocketsTyped, Writable
  <2> QED BY <1>2, <1>6, <1>7, <2>1, <2>2
<1>8. \A g \in Handles \ {h} : sent'[g] = sent[g]
  BY <1>2, TypeParts DEF IInv, SocketsTyped
<1> QED BY <1>2, <1>4, <1>5, <1>6, <1>7, <1>8, StillWrites

LEMMA EpollWaitWrites ==
  ASSUME IInv, WritesInv, EpollWait
  PROVE  WritesInv'
<1>1. /\ phase = "wait" /\ phase' = "events"
      /\ UNCHANGED <<ready, completed, tableVars, watched, strayed, now, socketVars, coroVars>>
  BY DEF EpollWait
<1>2. Others({}) /\ TableShrinks /\ Pending' = Pending /\ events = {}
  BY <1>1 DEF Others, Answered, Elems, TableShrinks, tableVars, coroVars, Pending, IInv, AnswersInv
<1>3. ASSUME NEW g \in Handles, NEW id \in Pending, op[g] = "write",
             FdOf[g] \in DOMAIN watched, watched[FdOf[g]] = [kind |-> "out", id |-> id],
             Writable(g) => FdOf[g] \in edges \/ watched[FdOf[g]] \in events
      PROVE  Writable(g)' => watched[FdOf[g]] \in events'
  <2>1. Writable(g) => StillReady(FdOf[g])
    BY <1>3, Owners DEF StillReady
  <2>2. Writable(g) => watched[FdOf[g]] \in events'
    BY <1>2, <1>3, <2>1, EpollWaitFacts
  <2> QED BY <1>1, <2>2 DEF socketVars, Writable
<1> QED BY <1>1, <1>2, <1>3, StillWrites DEF socketVars, coroVars

\* An event that answers its request ends the registration of no other.
LEMMA AnswerWrites ==
  ASSUME IInv, WritesInv, NEW e \in events, NEW h \in Handles, e.id \in Pending,
         h = ioIndex2req[e.id], phase = "events", phase' = phase, events' = events \ {e},
         op[h] = "write" => sent'[h] = WriteSize \/ h \in closed',
         DelWatch(FdOf[h]), Settle(h, e.id),
         UNCHANGED <<ready, strayed, closed, awaits, op>>,
         \A g \in Handles \ {h} : tx'[g] = tx[g] /\ sent'[g] = sent[g]
  PROVE  WritesInv'
<1>1. completed' = Append(completed, h)
  BY DEF Settle, Answer
<1>2. Elems(completed)' = Elems(completed) \cup {h}
  <2>1. Elems(Append(completed, h)) = Elems(completed) \cup {h}
    BY AppendElems, TypeParts DEF IInv, CoroutinesTyped
  <2> QED BY <1>1, <2>1 DEF Elems
<1>3. Others({h}) /\ Answered(h)'
  BY <1>2 DEF Others, Answered, Elems
<1>4. Pending' = Pending \ {e.id} /\ TableShrinks
  BY DEF Settle, TableShrinks, TS!Without, Pending
<1>5. /\ DOMAIN watched' = DOMAIN watched \ {FdOf[h]}
      /\ \A fd \in DOMAIN watched' : watched'[fd] = watched[fd]
      /\ edges' = edges \ {FdOf[h]}
  BY DelWatchFacts
<1>6. ASSUME NEW g \in Handles \ {h}, NEW id \in Pending, ioIndex2req[id] = g,
             FdOf[g] \in DOMAIN watched, watched[FdOf[g]] = [kind |-> "out", id |-> id],
             Writable(g) => FdOf[g] \in edges \/ watched[FdOf[g]] \in events
      PROVE  /\ FdOf[g] \in DOMAIN watched' /\ watched'[FdOf[g]] = watched[FdOf[g]]
             /\ Writable(g)' => FdOf[g] \in edges' \/ watched[FdOf[g]] \in events'
  <2>1. FdOf[g] # FdOf[h] /\ id # e.id /\ watched[FdOf[g]] # e
    BY <1>6, EpollAssumption
  <2>2. Writable(g)' => Writable(g)
    BY DEF Writable
  <2> QED BY <1>5, <1>6, <2>1, <2>2
<1>7. ASSUME NEW fd \in DOMAIN watched', watched[fd].kind = "out", watched[fd].id \in Pending,
             ~strayed
      PROVE  watched[fd].id \in Pending'
  <2>1. fd \in DOMAIN watched /\ fd # FdOf[h] /\ Serves(fd, watched[fd].kind, watched[fd].id)
    BY <1>5 DEF IInv, WatchInv
  <2>2. fd = FdOf[ioIndex2req[watched[fd].id]]
    BY <1>7, <2>1 DEF Serves
  <2> QED BY <1>4, <1>7, <2>1, <2>2
<1> QED BY <1>3, <1>4, <1>5, <1>6, <1>7, StillWrites

LEMMA HandleEventWrites ==
  ASSUME IInv, WritesInv, HandleEvent
  PROVE  WritesInv'
<1>1. PICK e \in events :
        /\ events' = events \ {e}
        /\ \/ HandleGone(e) \/ HandleIn(e) \/ HandleOut(e) \/ HandleOutPart(e)
           \/ AssertFails(e) \/ UnknownEvent(e)
  BY DEF HandleEvent
<1>2. phase = "events" /\ UNCHANGED <<ready, now>>
  BY DEF HandleEvent
<1>3. SocketsTyped /\ (e.id \in Pending => ioIndex2req[e.id] \in Handles)
  BY TypeParts DEF IInv, TableTyped
<1>4. \* the request of an event is that of a suspended coroutine
      ASSUME NEW h \in Handles, e.id \in Pending, h = ioIndex2req[e.id]
      PROVE  /\ e.kind = "in" => op[h] = "read"
             /\ e.kind = "out" => ~Answered(h)
  BY <1>2, <1>4, Owners DEF IInv, EventsInv, WatchInv, Serves, Waits
<1>5. \* what an event that answers nothing leaves of the writes
      ASSUME UNCHANGED <<completed, tableVars, epollVars, closed, awaits, op>>,
             phase' = phase \/ phase' = "aborted",
             \A g \in Handles : sent'[g] = sent[g] \/ (~Answered(g) /\ sent'[g] < WriteSize),
             phase' # "aborted" =>
               \A g \in Handles : tx'[g] = tx[g] \/ ~Writable(g)',
             phase' # "aborted" =>
               \A g \in Handles : e.id \in Pending /\ ioIndex2req[e.id] = g => ~Writable(g)'
      PROVE  WritesInv'
  <2>1. Others({}) /\ TableShrinks /\ Pending' = Pending
    BY <1>2, <1>5 DEF Others, Answered, Elems, TableShrinks, tableVars, Pending
  <2>2. ASSUME NEW g \in Handles, NEW id \in Pending, phase' # "aborted", ioIndex2req[id] = g,
               watched[FdOf[g]] = [kind |-> "out", id |-> id],
               Writable(g) => FdOf[g] \in edges \/ watched[FdOf[g]] \in events
        PROVE  Writable(g)' => FdOf[g] \in edges' \/ watched[FdOf[g]] \in events'
    <3>1. CASE watched[FdOf[g]] = e
      BY <1>5, <2>2, <3>1
    <3>2. CASE watched[FdOf[g]] # e
      <4>1. Writable(g)' => Writable(g)
        BY <1>5, <2>2 DEF Writable
      <4> QED BY <1>1, <1>5, <2>2, <3>2, <4>1 DEF epollVars
    <3> QED BY <3>1, <3>2
  <2> QED BY <1>2, <1>5, <2>1, <2>2, StillWrites DEF epollVars
<1>6. CASE HandleGone(e) \/ AssertFails(e) \/ UnknownEvent(e)
  <2>1. /\ UNCHANGED <<completed, tableVars, epollVars, socketVars, coroVars>>
        /\ (phase' = phase /\ e.id \notin Pending) \/ phase' = "aborted"
    BY <1>6 DEF HandleGone, AssertFails, UnknownEvent, Pending
  <2> QED BY <1>5, <2>1 DEF socketVars, coroVars
<1>7. CASE HandleIn(e)
  <2>1. PICK h \in Handles : h = ioIndex2req[e.id] /\ e.id \in Pending /\ op[h] = "read"
    BY <1>3, <1>4, <1>7 DEF HandleIn, Pending
  <2>2. /\ DelWatch(FdOf[h]) /\ strayed' = strayed /\ Settle(h, e.id)
        /\ UNCHANGED <<phase, rest, tx, closed, coroVars>>
    BY <1>7, <2>1 DEF HandleIn, DropWatch
  <2> QED BY <1>1, <1>2, <2>1, <2>2, AnswerWrites DEF coroVars
<1>8. CASE HandleOut(e)
  <2>1. PICK h \in Handles : h = ioIndex2req[e.id] /\ e.id \in Pending
    BY <1>3, <1>8 DEF HandleOut, Pending
  <2>2. /\ DelWatch(FdOf[h]) /\ strayed' = strayed /\ Settle(h, e.id)
        /\ tx' = IF h \in closed THEN tx ELSE [tx EXCEPT ![h] = @ - (WriteSize - sent[h])]
        /\ sent' = [sent EXCEPT ![h] = IF h \in closed THEN 0 ELSE WriteSize]
        /\ UNCHANGED <<phase, rest, rx, closed, awaits, op>>
    BY <1>8, <2>1 DEF HandleOut, DropWatch
  <2>3. \A g \in Handles \ {h} : tx'[g] = tx[g] /\ sent'[g] = sent[g]
    BY <1>3, <2>2 DEF SocketsTyped
  <2>4. sent'[h] = WriteSize \/ h \in closed'
    BY <1>3, <2>2 DEF SocketsTyped
  <2> QED BY <1>1, <1>2, <2>1, <2>2, <2>3, <2>4, AnswerWrites
<1>9. CASE HandleOutPart(e)
  <2>1. PICK h \in Handles : h = ioIndex2req[e.id] /\ e.id \in Pending /\ ~Answered(h)
    BY <1>3, <1>4, <1>9 DEF HandleOutPart, Pending
  <2>2. /\ tx[h] > 0 /\ tx[h] < WriteSize - sent[h] /\ h \notin closed
        /\ tx' = [tx EXCEPT ![h] = 0] /\ sent' = [sent EXCEPT ![h] = @ + tx[h]]
        /\ UNCHANGED <<epollVars, phase, completed, tableVars, rx, closed, awaits, op>>
    BY <1>9, <2>1 DEF HandleOutPart
  <2>3. sent'[h] < WriteSize /\ ~Writable(h)'
    BY <1>3, <2>2, EpollAssumption DEF SocketsTyped, Writable
  <2>4. \A g \in Handles \ {h} : tx'[g] = tx[g] /\ sent'[g] = sent[g]
    BY <1>3, <2>2 DEF SocketsTyped
  <2> QED BY <1>5, <2>1, <2>2, <2>3, <2>4
<1> QED BY <1>1, <1>6, <1>7, <1>8, <1>9

LEMMA WriteRestWrites ==
  ASSUME IInv, WritesInv, WriteRest
  PROVE  WritesInv'
<1>1. PICK h \in rest : RestBlocks(h) \/ RestFails(h)
  BY DEF WriteRest
<1>2. /\ phase = "events" /\ epollVars' = epollVars
      /\ UNCHANGED <<ready, completed, tableVars, events, now, rx, closed, coroVars>>
      /\ (phase' = phase /\ tx' = tx) \/ phase' = "aborted"
  BY <1>1 DEF WriteRest, RestBlocks, RestFails, WatchOn
<1>3. Others({}) /\ TableShrinks /\ Pending' = Pending
  BY <1>2 DEF Others, Answered, Elems, TableShrinks, tableVars, coroVars, Pending
<1> QED BY <1>2, <1>3, StillWrites DEF epollVars, coroVars, Writable

LEMMA PollEndsWrites ==
  ASSUME IInv, WritesInv, PollEnds
  PROVE  WritesInv'
<1>1. /\ phase = "events" /\ phase' = "resume"
      /\ UNCHANGED <<rest, ioIndex, ioIndex2req, fresh, epollVars, events, now, socketVars, coroVars>>
  BY DEF PollEnds
<1>2. ready = <<>> /\ TS!Due = {}
  BY <1>1 DEF IInv, AnswersInv, TS!Due
<1>3. PICK keys \in Listings(TS!Due \cap DOMAIN ioIndex2req) :
        SwapAnswers([i \in 1 .. Len(keys) |-> ioIndex2req[keys[i]]])
  BY DEF PollEnds
<1>4. Len(keys) = 0
  <2>1. keys \in Seq({})
    BY <1>2 DEF Listings, TS!IsListing
  <2> QED BY <2>1
<1>5. ready' = completed /\ completed' = <<>>
  BY <1>2, <1>3, <1>4 DEF SwapAnswers
<1>6. Others({}) /\ TableShrinks /\ Pending' = Pending
  BY <1>1, <1>2, <1>5 DEF Others, Answered, Elems, TableShrinks, Pending, coroVars
<1> QED BY <1>1, <1>6, StillWrites DEF epollVars, socketVars, coroVars, Writable

LEMMA PeersWrites ==
  ASSUME IInv, WritesInv, NEW h \in Handles, PeerSends(h) \/ PeerReads(h) \/ PeerCloses(h)
  PROVE  WritesInv'
<1>1. UNCHANGED <<workerVars, tableVars, watched, strayed, events, now, coroVars>>
  BY DEF PeerSends, PeerReads, PeerCloses
<1>2. edges \subseteq edges' /\ closed \subseteq closed'
  BY DEF PeerSends, PeerReads, PeerCloses, Wake
<1>3. SocketsTyped
  BY TypeParts DEF IInv
<1>4. \A g \in Handles : Writable(g)' /\ ~Writable(g) => g = h /\ (PeerReads(h) \/ PeerCloses(h))
  BY <1>3 DEF PeerSends, PeerReads, PeerCloses, Writable, SocketsTyped
<1>5. (PeerReads(h) \/ PeerCloses(h)) /\ FdOf[h] \in DOMAIN watched /\ watched[FdOf[h]].kind = "out"
      => FdOf[h] \in edges'
  BY DEF PeerReads, PeerCloses, Wake
<1>6. Others({}) /\ TableShrinks /\ Pending' = Pending
  BY <1>1 DEF Others, Answered, Elems, TableShrinks, workerVars, tableVars, coroVars, Pending
<1>7. ASSUME NEW g \in Handles, NEW id \in Pending,
             FdOf[g] \in DOMAIN watched, watched[FdOf[g]] = [kind |-> "out", id |-> id],
             Writable(g) => FdOf[g] \in edges \/ watched[FdOf[g]] \in events
      PROVE  Writable(g)' => FdOf[g] \in edges' \/ watched[FdOf[g]] \in events'
  <2>1. Writable(g)' => Writable(g) \/ FdOf[g] \in edges'
    BY <1>4, <1>5, <1>7
  <2> QED BY <1>1, <1>2, <1>7, <2>1
<1> QED BY <1>1, <1>2, <1>6, <1>7, StillWrites DEF workerVars, coroVars

LEMMA ForeignWrites ==
  ASSUME IInv, WritesInv, ForeignWakes \/ ForeignCloses
  PROVE  WritesInv'
<1>1. UNCHANGED <<workerVars, tableVars, strayed, events, now, socketVars, coroVars>>
  BY DEF ForeignWakes, ForeignCloses
<1>2. /\ DOMAIN watched' \subseteq DOMAIN watched
      /\ \A fd \in DOMAIN watched' : watched'[fd] = watched[fd]
      /\ \A fd \in DOMAIN watched \ Foreign :
           fd \in DOMAIN watched' /\ (fd \in edges => fd \in edges')
  <2>1. CASE ForeignWakes
    BY <2>1 DEF ForeignWakes
  <2>2. CASE ForeignCloses
    BY <2>2, DelWatchFacts DEF ForeignCloses
  <2> QED BY <2>1, <2>2
<1>3. Others({}) /\ TableShrinks /\ Pending' = Pending
  BY <1>1 DEF Others, Answered, Elems, TableShrinks, workerVars, tableVars, coroVars, Pending
<1>4. \A g \in Handles : op[g] = "write" => FdOf[g] \notin Foreign
  BY OpenFacts
<1> QED BY <1>1, <1>2, <1>3, <1>4, StillWrites DEF workerVars, socketVars, coroVars, Writable

LEMMA NextWrites == NoTimeouts /\ IInv /\ WritesInv /\ [Next]_vars => WritesInv'
<1> SUFFICES ASSUME NoTimeouts, IInv, WritesInv, [Next]_vars PROVE WritesInv'
  OBVIOUS
<1>1. ASSUME NEW h \in Handles, NEW timeout \in Timeouts, StartCoroutine(h, timeout)
      PROVE  WritesInv'
  <2>1. /\ phase = "resume" /\ awaits[h] = 0 /\ Await(h, "read", timeout)
        /\ UNCHANGED <<phase, ready, rest, now, events>>
    BY <1>1 DEF StartCoroutine
  <2>2. ~Answered(h) /\ ready \in Seq(Handles) /\ Distinct(ready)
    BY <2>1, TypeParts DEF IInv, AnswersInv, CoroutinesTyped
  <2>3. Elems(ready)' = Elems(ready) \ {h} /\ Distinct(ready)'
    BY <2>1, <2>2 DEF Elems, Distinct, Answered
  <2> QED BY <2>1, <2>2, <2>3, AwaitWrites DEF Answered
<1>2. ASSUME NEW kind \in {"read", "write"}, NEW timeout \in Timeouts, ResumeToAwait(kind, timeout)
      PROVE  WritesInv'
  <2>1. PICK h \in Handles :
          /\ h = Head(ready) /\ h \notin Elems(completed)
          /\ Tail(ready) \in Seq(Handles) /\ Elems(Tail(ready)) = Elems(ready) \ {h}
          /\ Distinct(Tail(ready))
    BY <1>2, HeadFacts DEF ResumeToAwait
  <2>2. /\ phase = "resume" /\ ready' = Tail(ready) /\ Await(h, kind, timeout)
        /\ UNCHANGED <<phase, rest, now, events>>
    BY <1>2, <2>1 DEF ResumeToAwait
  <2>3. ready' \in Seq(Handles) /\ Elems(ready)' = Elems(Tail(ready)) /\ Distinct(ready)'
    BY <2>1, <2>2 DEF Elems, Distinct
  <2> QED BY <2>1, <2>2, <2>3, AwaitWrites
<1>3. CASE ResumeToEnd
  BY <1>3, ResumeToEndWrites
<1>4. CASE EpollWait
  BY <1>4, EpollWaitWrites
<1>5. CASE HandleEvent
  BY <1>5, HandleEventWrites
<1>6. CASE PollEnds
  BY <1>6, PollEndsWrites
<1>7. ASSUME NEW h \in Handles, PeerSends(h) \/ PeerReads(h) \/ PeerCloses(h) PROVE WritesInv'
  BY <1>7, PeersWrites
<1>8. CASE WriteRest
  BY <1>8, WriteRestWrites
<1>9. CASE ForeignWakes \/ ForeignCloses
  BY <1>9, ForeignWrites
<1>10. CASE ResumeDone \/ Tick \/ UNCHANGED vars
  <2>1. /\ UNCHANGED <<ready, completed, tableVars, epollVars, events, socketVars, coroVars>>
        /\ phase' = phase \/ (phase = "resume" /\ phase' = "wait")
    BY <1>10 DEF ResumeDone, Tick, vars, workerVars
  <2>2. Others({}) /\ TableShrinks /\ Pending' = Pending
    BY <2>1 DEF Others, Answered, Elems, TableShrinks, tableVars, coroVars, Pending
  <2> QED BY <2>1, <2>2, StillWrites DEF epollVars, socketVars, coroVars, Writable
<1> QED BY <1>1, <1>2, <1>3, <1>4, <1>5, <1>6, <1>7, <1>8, <1>9, <1>10 DEF Next, Worker

------------------------------------------------------------------------------
(* What holds in every state *)

\* The types, whatever the timeouts are: an io id in use was handed out, no more is
\* sent than a write has, and only sockets are registered.
THEOREM TypeCorrect == Spec => []TypeOK
<1>1. TypeInv => TypeOK
  BY DEF TypeInv
<1> QED BY <1>1, InitTyped, NextTyped, PTL DEF Spec

\* The invariant that the others follow from.
THEOREM IInvHolds == NoTimeouts => (Spec => []IInv)
<1> SUFFICES ASSUME NoTimeouts PROVE Spec => []IInv
  OBVIOUS
<1>1. IInv /\ [Next]_vars => IInv'
  BY NextIInv
<1> QED BY <1>1, InitIInv, PTL DEF Spec

\* A coroutine is resumed once for each await, unless an await may expire.
THEOREM ResumedOnceHolds == NoTimeouts => (Spec => []ResumedOnce)
<1> SUFFICES ASSUME NoTimeouts PROVE Spec => []ResumedOnce
  OBVIOUS
<1>1. IInv => ResumedOnce
  <2> SUFFICES ASSUME IInv PROVE ResumedOnce
    OBVIOUS
  <2>1. /\ ready \in Seq(Handles) /\ completed \in Seq(Handles)
        /\ Distinct(ready) /\ Distinct(completed) /\ Elems(ready) \cap Elems(completed) = {}
    BY TypeParts DEF IInv, CoroutinesTyped, AnswersInv
  <2>2. /\ Distinct(ready \o completed)
        /\ Elems(ready \o completed) = Elems(ready) \cup Elems(completed)
    BY <2>1, ConcatElems
  <2>3. Elems(ready) \cup Elems(completed) \subseteq Handles
    BY <2>1, ElemsType
  <2>4. \A h \in Elems(ready) \cup Elems(completed) : op[h] # "none"
    BY <2>3 DEF IInv, AnswersInv, Answered
  <2> QED BY <2>2, <2>4 DEF ResumedOnce
<1> QED BY <1>1, IInvHolds, PTL

\* No suspended coroutine is lost: its own socket is registered for what it waits for
\* and what makes it ready is reported, and no registration outlives the request it
\* was made for; for writes until an io id is registered in the place of another
\* descriptor.  A write is answered when it was sent, when the peer is gone,
\* or when its registration failed.
THEOREM SuspendedAreWatchedHolds == NoTimeouts => (Spec => []SuspendedAreWatched)
<1> SUFFICES ASSUME NoTimeouts PROVE Spec => []SuspendedAreWatched
  OBVIOUS
<1>1. Init => WritesInv
  BY DEF Init, WritesInv, Answered, Elems
<1>2. IInv /\ WritesInv /\ [Next]_vars => WritesInv'
  BY NextWrites
<1>3. IInv /\ WritesInv => SuspendedAreWatched
  BY WritesFromInv DEF IInv, SuspendedAreWatched
<1> QED BY <1>1, <1>2, <1>3, IInvHolds, PTL DEF Spec

\* What the assertions on an event take for granted holds until an io id is registered
\* in the place of another descriptor: an event's socket does not block and its kind is
\* known.  The assertions on the second write of a rest are no part of this.
THEOREM AbortNeedsStrayHolds == NoTimeouts => (Spec => []AbortNeedsStray)
<1> SUFFICES ASSUME NoTimeouts PROVE Spec => []AbortNeedsStray
  OBVIOUS
<1>1. IInv => AbortNeedsStray
  BY DEF IInv
<1> QED BY <1>1, IInvHolds, PTL
==============================================================================
