------------------------------ MODULE Handlers ------------------------------
(***************************************************************************)
(* The two coroutines a server is built with: Echo (echo.cpp), which gives *)
(* each of its awaits a timeout of three seconds, and static_web_http      *)
(* (include/http.h), which gives them none.  Threads run them side by side *)
(* over one table of descriptors, so each system call is a step.           *)
(*                                                                         *)
(* asyncRead and asyncWrite are what UringScheduler provides: the kernel   *)
(* has the descriptor's file and the buffer from the await on, until the   *)
(* operation completes; an await that times out is answered while the      *)
(* kernel still has them.                                                  *)
(***************************************************************************)
EXTENDS Integers, FiniteSets, Http

CONSTANTS Conns,
          MaxFd,      \* bound: the largest descriptor of the process
          MaxRounds   \* bound: how many messages a client of Echo sends

ASSUME HandlersAssumption == MaxFd \in Nat /\ MaxRounds \in Nat

VARIABLES
  program,   \* what main started: "echo" or "static"
  pc,        \* connection -> where its coroutine is
  fds,       \* descriptor -> the connection that opened it, and for what
  connFd,    \* connection -> conn.fd
  fileFd,    \* connection -> fd of the file it serves
  buffers,   \* the allocations that are not freed: <<connection, number>>
  kernel,    \* the operations the kernel has in hand
  retCode,   \* connection -> req.retCode: -1, 0, or 1 for any positive count
  rounds,    \* connection -> how many reads it awaited
  requests,  \* history: connection -> the messages it accepted for an answer
  sent       \* history: connection -> the answers it wrote

coro == <<connFd, fileFd, rounds, requests, sent>>
vars == <<program, pc, fds, buffers, kernel, retCode, coro>>

Timed == program = "echo"
StaticText == 0     \* the buffer number of content404, which is never freed

Init ==
  /\ program \in {"echo", "static"}
  /\ pc = [c \in Conns |-> "new"]
  /\ fds = <<>>
  /\ connFd = [c \in Conns |-> 0]
  /\ fileFd = [c \in Conns |-> 0]
  /\ buffers = {}
  /\ kernel = {}
  /\ retCode = [c \in Conns |-> 0]
  /\ rounds = [c \in Conns |-> 0]
  /\ requests = [c \in Conns |-> 0]
  /\ sent = [c \in Conns |-> 0]

Goto(c, label) == pc' = [pc EXCEPT ![c] = label]
Count(f, c) == [f EXCEPT ![c] = @ + 1]

------------------------------------------------------------------------------
(* System calls *)

Unused == (0 .. MaxFd) \ DOMAIN fds

\* accept and open return the lowest number not in use.
Opened(c, kind) ==
  LET fd == Min(Unused)
  IN [f \in DOMAIN fds \cup {fd} |-> IF f = fd THEN <<c, kind>> ELSE fds[f]]

Closed(fd) == [f \in DOMAIN fds \ {fd} |-> fds[f]]

Operation(c, buf) ==
  [conn |-> c, file |-> fds[connFd[c]], buf |-> <<c, buf>>, late |-> FALSE]

\* variant: the coroutine goes on without co_await
SubmitOnly(c, label, buf) ==
  /\ kernel' = kernel \cup {Operation(c, buf)}
  /\ Goto(c, "close")

\* co_await of asyncRead or asyncWrite
Await(c, label, buf) ==
  /\ kernel' = kernel \cup {Operation(c, buf)}
  /\ Goto(c, label)

------------------------------------------------------------------------------
(* The scheduler and the kernel *)

Accept(c) ==
  /\ pc[c] = "new" /\ Unused # {}
  /\ fds' = Opened(c, "socket")
  /\ connFd' = [connFd EXCEPT ![c] = Min(Unused)]
  /\ Goto(c, "start")
  /\ UNCHANGED <<program, fileFd, buffers, kernel, retCode, rounds, requests, sent>>

Resume(c, ret) ==
  /\ retCode' = [retCode EXCEPT ![c] = ret]
  /\ \/ pc[c] = "reading" /\ Goto(c, "read")
     \/ pc[c] = "writing" /\ Goto(c, "written")

\* Any read may be the last, and one of them has to be.
Completes(c) ==
  \E op \in kernel, ret \in {-1, 0, 1} :
    /\ op.conn = c /\ ~op.late
    /\ pc[c] = "reading" /\ rounds[c] > MaxRounds => ret # 1
    /\ kernel' = kernel \ {op}
    /\ Resume(c, ret)
    /\ UNCHANGED <<program, fds, buffers, coro>>

TimesOut(c) ==
  \E op \in kernel :
    /\ Timed
    /\ op.conn = c /\ ~op.late
    /\ kernel' = (kernel \ {op}) \cup {[op EXCEPT !.late = TRUE]}
    /\ Resume(c, -1)
    /\ UNCHANGED <<program, fds, buffers, coro>>

CompletesLate(c) ==
  \E op \in kernel :
    /\ op.conn = c /\ op.late
    /\ kernel' = kernel \ {op}
    /\ UNCHANGED <<program, pc, fds, buffers, retCode, coro>>

------------------------------------------------------------------------------
(* Both coroutines *)

\* The first read, or the next one of Echo, which first frees its last buffer.
Read(c) ==
  /\ pc[c] = "start" \/ (program = "echo" /\ pc[c] = "written")
  /\ rounds' = Count(rounds, c)
  /\ buffers' = (buffers \ {<<c, rounds[c]>>}) \cup {<<c, rounds'[c]>>}
  /\ Await(c, "reading", rounds'[c])
  /\ UNCHANGED <<program, fds, connFd, fileFd, retCode, requests, sent>>

\* close(conn.fd), then co_return, which destroys what the coroutine owns
Close(c) ==
  /\ pc[c] = "close" \/ (program = "static" /\ pc[c] = "written")
  /\ fds' = Closed(connFd[c])
  /\ buffers' = {b \in buffers : b[1] # c}
  /\ Goto(c, "done")
  /\ UNCHANGED <<program, kernel, retCode, coro>>

------------------------------------------------------------------------------
(* Echo *)

\* variant: an answer of zero is not taken for the end of the connection
FailedOnly(c) == retCode[c] < 0

ReadEnded(c) == retCode[c] <= 0

EchoEnds(c) ==
  /\ program = "echo" /\ pc[c] = "read" /\ ReadEnded(c)
  /\ buffers' = buffers \ {<<c, rounds[c]>>}
  /\ Goto(c, "close")
  /\ UNCHANGED <<program, fds, kernel, retCode, coro>>

\* What the write returns is not looked at.  asyncWrite aborts on an empty one.
EchoBack(c) ==
  /\ program = "echo" /\ pc[c] = "read" /\ ~ReadEnded(c)
  /\ requests' = Count(requests, c)
  /\ IF retCode[c] = 0
     THEN Goto(c, "aborted") /\ UNCHANGED <<kernel, sent>>
     ELSE Await(c, "writing", rounds[c]) /\ sent' = Count(sent, c)
  /\ UNCHANGED <<program, fds, buffers, retCode, connFd, fileFd, rounds>>

------------------------------------------------------------------------------
(* static_web_http *)

ReadFails(c) ==
  /\ program = "static" /\ pc[c] = "read" /\ retCode[c] <= 0
  /\ Goto(c, "close")
  /\ UNCHANGED <<program, fds, buffers, kernel, retCode, coro>>

\* What the text that was read may be
SomeRequest == \E r \in Requests : \E raw \in Received(r) : fromRawData(raw) # NoRequest
SomeFailure == \E r \in Requests : \E raw \in Received(r) : fromRawData(raw) = NoRequest

ParseFails(c) ==
  /\ program = "static" /\ pc[c] = "read" /\ retCode[c] > 0
  /\ SomeFailure
  /\ Goto(c, "close")
  /\ UNCHANGED <<program, fds, buffers, kernel, retCode, coro>>

Parse(c) ==
  /\ program = "static" /\ pc[c] = "read" /\ retCode[c] > 0
  /\ SomeRequest
  /\ requests' = Count(requests, c)
  /\ Goto(c, "open")
  /\ UNCHANGED <<program, fds, buffers, kernel, retCode, connFd, fileFd, rounds, sent>>

\* There is no such file, or no descriptor left for it.
OpenFails(c) ==
  /\ pc[c] = "open"
  /\ Goto(c, "404")
  /\ UNCHANGED <<program, fds, buffers, kernel, retCode, coro>>

OpenFile(c) ==
  /\ pc[c] = "open" /\ Unused # {}
  /\ fds' = Opened(c, "file")
  /\ fileFd' = [fileFd EXCEPT ![c] = Min(Unused)]
  /\ Goto(c, "stat")
  /\ UNCHANGED <<program, buffers, kernel, retCode, connFd, rounds, requests, sent>>

\* variant: a failure that leaves the file open
GiveUpOpen(c) == fds' = fds /\ Goto(c, "404")

\* variant: a failure that is not reported to the client
GiveUpSilently(c) == fds' = Closed(fileFd[c]) /\ Goto(c, "close")

\* variant: the wrong one of the two descriptors is closed
GiveUpClient(c) == fds' = Closed(connFd[c]) /\ Goto(c, "404")

GiveUp(c) == fds' = Closed(fileFd[c]) /\ Goto(c, "404")

StatFails(c) ==
  /\ pc[c] = "stat"
  /\ GiveUp(c)
  /\ UNCHANGED <<program, buffers, kernel, retCode, coro>>

\* The response is allocated once the size of the file is known.
StatFile(c) ==
  /\ pc[c] = "stat"
  /\ buffers' = buffers \cup {<<c, rounds[c] + 1>>}
  /\ Goto(c, "load")
  /\ UNCHANGED <<program, fds, kernel, retCode, coro>>

\* The size of a file of 2 GiB or more is negative in an int, and the allocation
\* throws, as it may for want of memory.  unhandled_exception ignores it: the frame
\* goes with its buffers, and both descriptors stay open.
AllocationThrows(c) ==
  /\ pc[c] = "stat"
  /\ buffers' = {b \in buffers : b[1] # c}
  /\ Goto(c, "thrown")
  /\ UNCHANGED <<program, fds, kernel, retCode, coro>>

\* read fails, as it does for a directory
LoadFails(c) ==
  /\ pc[c] = "load"
  /\ GiveUp(c)
  /\ UNCHANGED <<program, buffers, kernel, retCode, coro>>

LoadFile(c) ==
  /\ pc[c] = "load"
  /\ fds' = Closed(fileFd[c])
  /\ Goto(c, "respond")
  /\ UNCHANGED <<program, buffers, kernel, retCode, coro>>

Respond(c) ==
  /\ \/ pc[c] = "404" /\ Await(c, "writing", StaticText)
     \/ pc[c] = "respond" /\ Await(c, "writing", rounds[c] + 1)
  /\ sent' = Count(sent, c)
  /\ UNCHANGED <<program, fds, buffers, retCode, connFd, fileFd, rounds, requests>>

------------------------------------------------------------------------------

Coroutine(c) ==
  \/ Read(c)
  \/ Close(c)
  \/ EchoEnds(c)
  \/ EchoBack(c)
  \/ ReadFails(c)
  \/ ParseFails(c)
  \/ Parse(c)
  \/ OpenFails(c)
  \/ OpenFile(c)
  \/ StatFails(c)
  \/ StatFile(c)
  \/ AllocationThrows(c)
  \/ LoadFails(c)
  \/ LoadFile(c)
  \/ Respond(c)

Next ==
  \/ \E c \in Conns :
       Accept(c) \/ Coroutine(c) \/ Completes(c) \/ TimesOut(c) \/ CompletesLate(c)

Spec == Init /\ [][Next]_vars

\* The workers keep running, and the peer of a connection sends or leaves.
FairSpec ==
  Spec /\ \A c \in Conns : WF_vars(Coroutine(c)) /\ WF_vars(Completes(c))

------------------------------------------------------------------------------
(* Properties *)

Labels == {"new", "start", "reading", "read", "open", "stat", "load", "404", "respond",
           "writing", "written", "close", "done", "thrown"}
Running(c) == pc[c] \notin {"new", "done", "thrown"}

\* The types.  No coroutine is "aborted": Echo never asks for an empty write.
TypeOK ==
  /\ pc \in [Conns -> Labels]
  /\ DOMAIN fds \subseteq 0 .. MaxFd
  /\ \A fd \in DOMAIN fds : fds[fd] \in Conns \X {"socket", "file"}
  /\ \A b \in buffers : b[1] \in Conns /\ b[2] \in 1 .. MaxRounds + 2
  /\ \A op \in kernel : op.conn \in Conns /\ op.late \in BOOLEAN
  /\ retCode \in [Conns -> {-1, 0, 1}]

\* A running coroutine's conn.fd, and its fd while it reads the file, are open
\* and its own, though other threads reuse every number that is closed.  Whatever
\* path it takes, nothing else stays open or allocated on its account, unless it
\* ended by an exception: then both descriptors are lost to the process.
OwnsWhatIsOpen ==
  /\ \A c \in Conns :
       /\ Running(c) =>
            connFd[c] \in DOMAIN fds /\ fds[connFd[c]] = <<c, "socket">>
       /\ pc[c] \in {"stat", "load"} =>
            fileFd[c] \in DOMAIN fds /\ fds[fileFd[c]] = <<c, "file">>
  /\ \A fd \in DOMAIN fds :
       LET c == fds[fd][1]
       IN \/ fds[fd][2] = "file" /\ pc[c] \in {"stat", "load", "thrown"} /\ fileFd[c] = fd
          \/ fds[fd][2] = "socket" /\ (Running(c) \/ pc[c] = "thrown") /\ connFd[c] = fd
  /\ \A b \in buffers : Running(b[1])

\* The kernel never has a freed buffer, unless the await was given up: that is
\* why static_web_http may keep its buffers in the frame of the coroutine.
KernelBuffersAreLive ==
  \A op \in kernel : op.buf[2] = StaticText \/ op.buf \in buffers \/ op.late

\* Every request that is read and understood is answered once, by the file, by
\* the 404 text or by the echo, on every path.
EveryRequestAnswered ==
  \A c \in Conns :
    /\ sent[c] <= requests[c]
    /\ pc[c] = "done" => sent[c] = requests[c]

==============================================================================
