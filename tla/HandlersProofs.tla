--------------------------- MODULE HandlersProofs ---------------------------
(***************************************************************************)
(* Descriptors, buffers and answers of the two coroutines, for any number  *)
(* of connections and descriptors, whatever the requests are; and the      *)
(* texts: the requests they read and the responses they print, whatever    *)
(* the headers are and however long, and the strings of JSON.              *)
(***************************************************************************)
EXTENDS Handlers, Conversions, Integers, ElementsProofs

Files == Conns \X {"socket", "file"}
Operations == [conn : Conns, file : Files, buf : Conns \X Nat, late : BOOLEAN]

ShapeInv ==
  /\ program \in {"echo", "static"}
  /\ connFd \in [Conns -> Nat] /\ fileFd \in [Conns -> Nat]
  /\ rounds \in [Conns -> Nat] /\ requests \in [Conns -> Nat] /\ sent \in [Conns -> Nat]
  /\ kernel \subseteq Operations

\* An operation whose await was not given up is the one its coroutine waits for,
\* and it is given a buffer of that coroutine.
KernelInv ==
  \A op \in kernel :
    ~op.late =>
      /\ pc[op.conn] \in {"reading", "writing"}
      /\ op.buf[1] = op.conn
      /\ op.buf[2] = StaticText \/ op.buf \in buffers
      /\ \A other \in kernel : ~other.late /\ other.conn = op.conn => other = op

\* A request is owed an answer from where it is understood to where the answer is
\* written, or for ever when the coroutine throws.
Owing == {"open", "stat", "load", "404", "respond", "thrown"}
AnswerInv ==
  \A c \in Conns : requests[c] = sent[c] + (IF pc[c] \in Owing THEN 1 ELSE 0)

\* Only a client that has not sent its last message keeps Echo going, and Echo
\* answers what it reads at once.
RoundsInv ==
  \A c \in Conns :
    /\ rounds[c] <= MaxRounds + 1
    /\ pc[c] \in {"new", "start"} => rounds[c] = 0
    /\ program = "echo" /\ (pc[c] \in {"writing", "written"} \/ (pc[c] = "read" /\ retCode[c] = 1)) =>
         rounds[c] <= MaxRounds
    /\ program = "echo" => pc[c] \notin Owing

\* What is read into, and what is sent, is allocated before it is handed over.
BuffersInv ==
  \A c \in Conns :
    /\ pc[c] \in {"reading", "read"} => <<c, rounds[c]>> \in buffers
    /\ pc[c] \in {"load", "respond"} => <<c, rounds[c] + 1>> \in buffers

IInv ==
  TypeOK /\ OwnsWhatIsOpen /\ ShapeInv /\ KernelInv /\ AnswerInv /\ RoundsInv /\ BuffersInv

------------------------------------------------------------------------------
(* Descriptors *)

\* Who has a descriptor that is open.
Holds(d, fd, what) ==
  \/ what = "file" /\ pc[d] \in {"stat", "load", "thrown"} /\ fileFd[d] = fd
  \/ what = "socket" /\ (Running(d) \/ pc[d] = "thrown") /\ connFd[d] = fd

DescriptorsOpen ==
  \A d \in Conns :
    /\ Running(d) => connFd[d] \in DOMAIN fds /\ fds[connFd[d]] = <<d, "socket">>
    /\ pc[d] \in {"stat", "load"} => fileFd[d] \in DOMAIN fds /\ fds[fileFd[d]] = <<d, "file">>
DescriptorsHeld == \A fd \in DOMAIN fds : Holds(fds[fd][1], fd, fds[fd][2])
BuffersHeld == \A b \in buffers : Running(b[1])

LEMMA OwnsParts ==
  /\ OwnsWhatIsOpen <=> DescriptorsOpen /\ DescriptorsHeld /\ BuffersHeld
  /\ OwnsWhatIsOpen' <=> DescriptorsOpen' /\ DescriptorsHeld' /\ BuffersHeld'
BY DEF OwnsWhatIsOpen, DescriptorsOpen, DescriptorsHeld, BuffersHeld, Holds

\* accept and open take a number that nobody has.
LEMMA OpenedFacts ==
  ASSUME NEW c, NEW what, Unused # {}
  PROVE  /\ Min(Unused) \in 0 .. MaxFd /\ Min(Unused) \notin DOMAIN fds /\ Min(Unused) \in Nat
         /\ DOMAIN Opened(c, what) = DOMAIN fds \cup {Min(Unused)}
         /\ Opened(c, what)[Min(Unused)] = <<c, what>>
         /\ \A f \in DOMAIN fds : Opened(c, what)[f] = fds[f]
<1>1. Unused \in SUBSET Nat
  BY DEF Unused
<1>2. Min(Unused) \in Unused
  BY <1>1, LeastNumber
<1>3. Min(Unused) \in 0 .. MaxFd /\ Min(Unused) \notin DOMAIN fds /\ Min(Unused) \in Nat
  BY <1>2, HandlersAssumption DEF Unused
<1> QED BY <1>3 DEF Opened

\* The invariant in the form of its parts.
LEMMA Held ==
  ASSUME IInv
  PROVE  /\ DescriptorsOpen /\ DescriptorsHeld /\ BuffersHeld
         /\ \A fd \in DOMAIN fds : fds[fd][1] \in Conns
         /\ \A b \in buffers : b[1] \in Conns
BY OwnsParts DEF IInv, TypeOK

\* A step of one coroutine moves no other.
LEMMA PcFacts ==
  ASSUME IInv, NEW c \in Conns, NEW label \in Labels, Goto(c, label)
  PROVE  /\ pc' \in [Conns -> Labels] /\ pc'[c] = label
         /\ \A d \in Conns \ {c} : pc'[d] = pc[d]
BY DEF Goto, IInv, TypeOK

\* The descriptors of a coroutine that runs on, with its file or without one.
LEMMA SameFiles ==
  ASSUME IInv, NEW c \in Conns, NEW label \in Labels, Goto(c, label),
         Running(c), label \notin {"new", "done", "thrown"},
         pc[c] \in {"stat", "load"} <=> label \in {"stat", "load"},
         UNCHANGED <<fds, connFd, fileFd>>,
         \A b \in buffers' : b \in buffers \/ b[1] = c
  PROVE  OwnsWhatIsOpen'
<1>1. pc'[c] = label /\ \A d \in Conns \ {c} : pc'[d] = pc[d]
  BY PcFacts
<1>2. DescriptorsOpen'
  BY <1>1, Held DEF DescriptorsOpen, Running
<1>3. DescriptorsHeld'
  BY <1>1, Held DEF DescriptorsHeld, Holds, Running
<1>4. BuffersHeld'
  BY <1>1, Held DEF BuffersHeld, Running
<1> QED BY <1>2, <1>3, <1>4, OwnsParts

\* The file is closed when it is read, or given up.
LEMMA FileClosed ==
  ASSUME IInv, NEW c \in Conns, NEW label \in Labels, Goto(c, label),
         pc[c] \in {"stat", "load"}, label \notin {"new", "done", "thrown", "stat", "load"},
         fds' = Closed(fileFd[c]), UNCHANGED <<connFd, fileFd, buffers>>
  PROVE  OwnsWhatIsOpen'
<1>1. pc'[c] = label /\ \A d \in Conns \ {c} : pc'[d] = pc[d]
  BY PcFacts
<1>2. DOMAIN fds' = DOMAIN fds \ {fileFd[c]} /\ \A fd \in DOMAIN fds' : fds'[fd] = fds[fd]
  BY DEF Closed
<1>3. Running(c) /\ fds[fileFd[c]] = <<c, "file">>
  BY Held DEF DescriptorsOpen, Running
<1>4. DescriptorsOpen'
  BY <1>1, <1>2, <1>3, Held DEF DescriptorsOpen, Running
<1>5. DescriptorsHeld'
  BY <1>1, <1>2, <1>3, Held DEF DescriptorsHeld, Holds, Running
<1>6. BuffersHeld'
  BY <1>1, Held DEF BuffersHeld, Running
<1> QED BY <1>4, <1>5, <1>6, OwnsParts

LEMMA AcceptOwns ==
  ASSUME IInv, NEW c \in Conns, Accept(c)
  PROVE  OwnsWhatIsOpen'
<1>1. PICK fd0 \in Nat :
        /\ fd0 \notin DOMAIN fds /\ DOMAIN fds' = DOMAIN fds \cup {fd0}
        /\ fds'[fd0] = <<c, "socket">> /\ \A fd \in DOMAIN fds : fds'[fd] = fds[fd]
        /\ connFd' = [connFd EXCEPT ![c] = fd0]
  <2>1. /\ Unused # {} /\ fds' = Opened(c, "socket")
        /\ connFd' = [connFd EXCEPT ![c] = Min(Unused)]
    BY DEF Accept
  <2>2. /\ Min(Unused) \in Nat /\ Min(Unused) \notin DOMAIN fds
        /\ DOMAIN fds' = DOMAIN fds \cup {Min(Unused)} /\ fds'[Min(Unused)] = <<c, "socket">>
        /\ \A fd \in DOMAIN fds : fds'[fd] = fds[fd]
    BY <2>1, OpenedFacts
  <2> QED BY <2>1, <2>2
<1>2. pc[c] = "new" /\ Goto(c, "start") /\ UNCHANGED <<fileFd, buffers>>
  BY DEF Accept
<1>3. pc'[c] = "start" /\ \A d \in Conns \ {c} : pc'[d] = pc[d]
  BY <1>2, PcFacts DEF Labels
<1>4. connFd'[c] = fd0 /\ \A d \in Conns \ {c} : connFd'[d] = connFd[d]
  BY <1>1 DEF IInv, ShapeInv
<1>5. \A fd \in DOMAIN fds : fds[fd][1] # c
  BY <1>2, Held DEF DescriptorsHeld, Holds, Running
<1>6. DescriptorsOpen'
  BY <1>1, <1>2, <1>3, <1>4, Held DEF DescriptorsOpen, Running
<1>7. DescriptorsHeld'
  BY <1>1, <1>2, <1>3, <1>4, <1>5, Held DEF DescriptorsHeld, Holds, Running
<1>8. BuffersHeld'
  BY <1>2, <1>3, Held DEF BuffersHeld, Running
<1> QED BY <1>6, <1>7, <1>8, OwnsParts

LEMMA OpenFileOwns ==
  ASSUME IInv, NEW c \in Conns, OpenFile(c)
  PROVE  OwnsWhatIsOpen'
<1>1. PICK fd0 \in Nat :
        /\ fd0 \notin DOMAIN fds /\ DOMAIN fds' = DOMAIN fds \cup {fd0}
        /\ fds'[fd0] = <<c, "file">> /\ \A fd \in DOMAIN fds : fds'[fd] = fds[fd]
        /\ fileFd' = [fileFd EXCEPT ![c] = fd0]
  <2>1. /\ Unused # {} /\ fds' = Opened(c, "file")
        /\ fileFd' = [fileFd EXCEPT ![c] = Min(Unused)]
    BY DEF OpenFile
  <2>2. /\ Min(Unused) \in Nat /\ Min(Unused) \notin DOMAIN fds
        /\ DOMAIN fds' = DOMAIN fds \cup {Min(Unused)} /\ fds'[Min(Unused)] = <<c, "file">>
        /\ \A fd \in DOMAIN fds : fds'[fd] = fds[fd]
    BY <2>1, OpenedFacts
  <2> QED BY <2>1, <2>2
<1>2. pc[c] = "open" /\ Goto(c, "stat") /\ UNCHANGED <<connFd, buffers>>
  BY DEF OpenFile
<1>3. pc'[c] = "stat" /\ \A d \in Conns \ {c} : pc'[d] = pc[d]
  BY <1>2, PcFacts DEF Labels
<1>4. fileFd'[c] = fd0 /\ \A d \in Conns \ {c} : fileFd'[d] = fileFd[d]
  BY <1>1 DEF IInv, ShapeInv
<1>5. \A fd \in DOMAIN fds : fds[fd][1] = c => fds[fd][2] # "file"
  BY <1>2, Held DEF DescriptorsHeld, Holds
<1>6. DescriptorsOpen'
  BY <1>1, <1>2, <1>3, <1>4, Held DEF DescriptorsOpen, Running
<1>7. DescriptorsHeld'
  BY <1>1, <1>2, <1>3, <1>4, <1>5, Held DEF DescriptorsHeld, Holds, Running
<1>8. BuffersHeld'
  BY <1>2, <1>3, Held DEF BuffersHeld, Running
<1> QED BY <1>6, <1>7, <1>8, OwnsParts

LEMMA CloseOwns ==
  ASSUME IInv, NEW c \in Conns, Close(c)
  PROVE  OwnsWhatIsOpen'
<1>1. /\ pc[c] \in {"close", "written"} /\ fds' = Closed(connFd[c])
      /\ buffers' = {b \in buffers : b[1] # c}
      /\ Goto(c, "done") /\ UNCHANGED <<connFd, fileFd>>
  BY DEF Close, coro
<1>2. pc'[c] = "done" /\ \A d \in Conns \ {c} : pc'[d] = pc[d]
  BY <1>1, PcFacts DEF Labels
<1>3. DOMAIN fds' = DOMAIN fds \ {connFd[c]} /\ \A fd \in DOMAIN fds' : fds'[fd] = fds[fd]
  BY <1>1 DEF Closed
<1>4. fds[connFd[c]] = <<c, "socket">>
  BY <1>1, Held DEF DescriptorsOpen, Running
<1>5. \A fd \in DOMAIN fds' : fds'[fd][1] # c
  BY <1>1, <1>3, Held DEF DescriptorsHeld, Holds
<1>6. DescriptorsOpen'
  BY <1>1, <1>2, <1>3, <1>4, Held DEF DescriptorsOpen, Running
<1>7. DescriptorsHeld'
  BY <1>1, <1>2, <1>3, <1>5, Held DEF DescriptorsHeld, Holds, Running
<1>8. BuffersHeld'
  BY <1>1, <1>2, Held DEF BuffersHeld, Running
<1> QED BY <1>6, <1>7, <1>8, OwnsParts

\* An exception frees the buffers and leaves the descriptors open.
LEMMA ThrownOwns ==
  ASSUME IInv, NEW c \in Conns, AllocationThrows(c)
  PROVE  OwnsWhatIsOpen'
<1>1. /\ pc[c] = "stat" /\ buffers' = {b \in buffers : b[1] # c}
      /\ Goto(c, "thrown") /\ UNCHANGED <<fds, connFd, fileFd>>
  BY DEF AllocationThrows, coro
<1>2. pc'[c] = "thrown" /\ \A d \in Conns \ {c} : pc'[d] = pc[d]
  BY <1>1, PcFacts DEF Labels
<1>3. DescriptorsOpen'
  BY <1>1, <1>2, Held DEF DescriptorsOpen, Running
<1>4. DescriptorsHeld'
  BY <1>1, <1>2, Held DEF DescriptorsHeld, Holds, Running
<1>5. BuffersHeld'
  BY <1>1, <1>2, Held DEF BuffersHeld, Running
<1> QED BY <1>3, <1>4, <1>5, OwnsParts

------------------------------------------------------------------------------
(* What the kernel has in hand *)

\* A step of a coroutine that awaits nothing before and after it: what it frees is
\* its own, and the kernel has none of it.
LEMMA KernelAside ==
  ASSUME IInv, NEW c \in Conns, NEW label \in Labels, Goto(c, label),
         pc[c] \notin {"reading", "writing"}, UNCHANGED kernel,
         \A b \in buffers : b[1] # c => b \in buffers'
  PROVE  KernelInv'
<1>1. \A d \in Conns \ {c} : pc'[d] = pc[d]
  BY PcFacts
<1> SUFFICES ASSUME NEW op \in kernel, ~op.late
             PROVE  /\ pc'[op.conn] \in {"reading", "writing"}
                    /\ op.buf[1] = op.conn
                    /\ op.buf[2] = StaticText \/ op.buf \in buffers'
                    /\ \A other \in kernel : ~other.late /\ other.conn = op.conn => other = op
  BY DEF KernelInv
<1>2. /\ pc[op.conn] \in {"reading", "writing"} /\ op.buf[1] = op.conn
      /\ op.buf[2] = StaticText \/ op.buf \in buffers
      /\ \A other \in kernel : ~other.late /\ other.conn = op.conn => other = op
  BY DEF IInv, KernelInv
<1>3. op.conn \in Conns \ {c}
  BY <1>2 DEF IInv, TypeOK
<1> QED BY <1>1, <1>2, <1>3

\* An await hands one operation to the kernel, with a buffer of its coroutine.
LEMMA KernelTakes ==
  ASSUME IInv, NEW c \in Conns, NEW label \in {"reading", "writing"}, NEW n \in Nat,
         Await(c, label, n), Running(c), pc[c] \notin {"reading", "writing"},
         \A b \in buffers : b[1] # c => b \in buffers',
         n = StaticText \/ <<c, n>> \in buffers'
  PROVE  KernelInv' /\ kernel' \subseteq Operations
<1> DEFINE new == Operation(c, n)
<1>1. kernel' = kernel \cup {new} /\ Goto(c, label)
  BY DEF Await
<1>2. pc'[c] = label /\ \A d \in Conns \ {c} : pc'[d] = pc[d]
  BY <1>1, PcFacts DEF Labels
<1>3. fds[connFd[c]] \in Files
  BY Held DEF DescriptorsOpen, Files
<1>4. new \in Operations /\ new.conn = c /\ new.buf = <<c, n>> /\ new.late = FALSE
  BY <1>3 DEF Operation, Operations
<1> HIDE DEF new
<1>5. kernel' \subseteq Operations
  BY <1>1, <1>4 DEF IInv, ShapeInv
<1>6. \A op \in kernel : ~op.late => op.conn \in Conns \ {c}
  BY DEF IInv, KernelInv, TypeOK
<1>7. ASSUME NEW op \in kernel', ~op.late
      PROVE  /\ pc'[op.conn] \in {"reading", "writing"}
             /\ op.buf[1] = op.conn
             /\ op.buf[2] = StaticText \/ op.buf \in buffers'
             /\ \A other \in kernel' : ~other.late /\ other.conn = op.conn => other = op
  <2>1. CASE op = new
    BY <1>1, <1>2, <1>4, <1>6, <2>1
  <2>2. CASE op \in kernel
    <3>1. /\ pc[op.conn] \in {"reading", "writing"} /\ op.buf[1] = op.conn
          /\ op.buf[2] = StaticText \/ op.buf \in buffers
          /\ \A other \in kernel : ~other.late /\ other.conn = op.conn => other = op
      BY <1>7, <2>2 DEF IInv, KernelInv
    <3> QED BY <1>1, <1>2, <1>4, <1>6, <1>7, <2>2, <3>1
  <2> QED BY <1>1, <2>1, <2>2
<1> QED BY <1>5, <1>7 DEF KernelInv

\* An operation leaves the kernel, or is given up, and its coroutine goes on.
LEMMA KernelAnswers ==
  ASSUME IInv, NEW op \in kernel, ~op.late, NEW label \in Labels, Goto(op.conn, label),
         kernel' = kernel \ {op} \/ kernel' = (kernel \ {op}) \cup {[op EXCEPT !.late = TRUE]},
         UNCHANGED buffers
  PROVE  KernelInv' /\ kernel' \subseteq Operations
<1>1. op.conn \in Conns /\ op \in Operations
  BY DEF IInv, TypeOK, ShapeInv
<1>2. \A d \in Conns \ {op.conn} : pc'[d] = pc[d]
  BY <1>1, PcFacts
<1>3. [op EXCEPT !.late = TRUE] \in Operations /\ [op EXCEPT !.late = TRUE].late = TRUE
  BY <1>1 DEF Operations
<1>4. kernel' \subseteq Operations
  BY <1>3 DEF IInv, ShapeInv
<1>5. ASSUME NEW o \in kernel', ~o.late
      PROVE  /\ pc'[o.conn] \in {"reading", "writing"}
             /\ o.buf[1] = o.conn
             /\ o.buf[2] = StaticText \/ o.buf \in buffers'
             /\ \A other \in kernel' : ~other.late /\ other.conn = o.conn => other = o
  <2>1. o \in kernel /\ o # op
    BY <1>3, <1>5
  <2>2. /\ pc[o.conn] \in {"reading", "writing"} /\ o.buf[1] = o.conn
        /\ o.buf[2] = StaticText \/ o.buf \in buffers
        /\ \A other \in kernel : ~other.late /\ other.conn = o.conn => other = o
    BY <1>5, <2>1 DEF IInv, KernelInv
  <2>3. o.conn \in Conns \ {op.conn}
    BY <2>1, <2>2 DEF IInv, TypeOK
  <2>4. \A other \in kernel' : ~other.late => other \in kernel
    BY <1>3
  <2> QED BY <1>2, <2>2, <2>3, <2>4
<1> QED BY <1>4, <1>5 DEF KernelInv

------------------------------------------------------------------------------
(* Requests and rounds *)

\* What a step adds to the requests and to the answers agrees with where it goes.
LEMMA AnswerStep ==
  ASSUME IInv, NEW c \in Conns, NEW label \in Labels, Goto(c, label),
         \/ /\ UNCHANGED <<requests, sent>>
            /\ pc[c] \in Owing <=> label \in Owing
         \/ /\ requests' = Count(requests, c) /\ sent' = sent
            /\ pc[c] \notin Owing /\ label \in Owing
         \/ /\ sent' = Count(sent, c) /\ requests' = requests
            /\ pc[c] \in Owing /\ label \notin Owing
         \/ /\ sent' = Count(sent, c) /\ requests' = Count(requests, c)
            /\ pc[c] \notin Owing /\ label \notin Owing
  PROVE  AnswerInv' /\ requests' \in [Conns -> Nat] /\ sent' \in [Conns -> Nat]
<1>1. pc'[c] = label /\ \A d \in Conns \ {c} : pc'[d] = pc[d]
  BY PcFacts
<1>2. requests \in [Conns -> Nat] /\ sent \in [Conns -> Nat]
  BY DEF IInv, ShapeInv
<1>3. requests' \in [Conns -> Nat] /\ sent' \in [Conns -> Nat]
  BY <1>2 DEF Count
<1>4. \A d \in Conns \ {c} : requests'[d] = requests[d] /\ sent'[d] = sent[d]
  BY <1>2 DEF Count
<1>5. requests'[c] = sent'[c] + (IF label \in Owing THEN 1 ELSE 0)
  <2>1. requests[c] = sent[c] + (IF pc[c] \in Owing THEN 1 ELSE 0)
    BY DEF IInv, AnswerInv
  <2> QED BY <1>2, <2>1 DEF Count
<1>6. \A d \in Conns : requests'[d] = sent'[d] + (IF pc'[d] \in Owing THEN 1 ELSE 0)
  <2>1. \A d \in Conns \ {c} : requests[d] = sent[d] + (IF pc[d] \in Owing THEN 1 ELSE 0)
    BY DEF IInv, AnswerInv
  <2> QED BY <1>1, <1>4, <1>5, <2>1
<1> QED BY <1>3, <1>6 DEF AnswerInv

\* A step that reads nothing and gets no answer.
LEMMA RoundsStep ==
  ASSUME IInv, NEW c \in Conns, NEW label \in Labels, Goto(c, label),
         UNCHANGED <<program, rounds, retCode>>,
         label \in {"new", "start"} => pc[c] = "new",
         label \notin {"read", "written"},
         program = "echo" /\ label = "writing" => rounds[c] <= MaxRounds,
         program = "echo" /\ label \in Owing => pc[c] \in Owing
  PROVE  RoundsInv'
<1>1. pc'[c] = label /\ \A d \in Conns \ {c} : pc'[d] = pc[d]
  BY PcFacts
<1> QED BY <1>1 DEF IInv, RoundsInv

\* A step that frees nothing of another coroutine.
LEMMA BuffersStep ==
  ASSUME IInv, NEW c \in Conns, NEW label \in Labels, Goto(c, label),
         \A d \in Conns \ {c} : rounds'[d] = rounds[d],
         \A b \in buffers : b[1] # c => b \in buffers',
         label \in {"reading", "read"} => <<c, rounds'[c]>> \in buffers',
         label \in {"load", "respond"} => <<c, rounds'[c] + 1>> \in buffers'
  PROVE  BuffersInv'
<1>1. pc'[c] = label /\ \A d \in Conns \ {c} : pc'[d] = pc[d]
  BY PcFacts
<1>2. \A d \in Conns \ {c} : \A n : <<d, n>> \in buffers => <<d, n>> \in buffers'
  OBVIOUS
<1> QED BY <1>1, <1>2 DEF IInv, BuffersInv

------------------------------------------------------------------------------
(* Steps *)

FdsTyped == DOMAIN fds \subseteq 0 .. MaxFd /\ \A fd \in DOMAIN fds : fds[fd] \in Files
BuffersTyped == \A b \in buffers : b[1] \in Conns /\ b[2] \in 1 .. MaxRounds + 2

LEMMA Typed == IInv => FdsTyped /\ BuffersTyped
BY DEF IInv, TypeOK, FdsTyped, BuffersTyped, Files

LEMMA ClosedTyped ==
  ASSUME IInv, NEW fd, fds' = Closed(fd)
  PROVE  FdsTyped'
BY Typed DEF FdsTyped, Closed, Files

LEMMA OpenedTyped ==
  ASSUME IInv, NEW c \in Conns, NEW what \in {"socket", "file"},
         Unused # {}, fds' = Opened(c, what)
  PROVE  FdsTyped'
<1>1. /\ Min(Unused) \in 0 .. MaxFd
      /\ DOMAIN fds' = DOMAIN fds \cup {Min(Unused)} /\ fds'[Min(Unused)] = <<c, what>>
      /\ \A fd \in DOMAIN fds : fds'[fd] = fds[fd]
  BY OpenedFacts
<1>2. FdsTyped
  BY Typed
<1> QED BY <1>1, <1>2 DEF FdsTyped, Files

\* The types of the state after a step, from those of what it changes.
LEMMA TypeStep ==
  ASSUME IInv, NEW c \in Conns, NEW label \in Labels, Goto(c, label),
         program' = program, FdsTyped', BuffersTyped', kernel' \subseteq Operations,
         retCode' \in [Conns -> {-1, 0, 1}],
         connFd' \in [Conns -> Nat], fileFd' \in [Conns -> Nat], rounds' \in [Conns -> Nat],
         requests' \in [Conns -> Nat], sent' \in [Conns -> Nat]
  PROVE  TypeOK' /\ ShapeInv'
<1>1. pc' \in [Conns -> Labels]
  BY PcFacts
<1>2. \A op \in kernel' : op.conn \in Conns /\ op.late \in BOOLEAN
  BY DEF Operations
<1>3. TypeOK'
  BY <1>1, <1>2 DEF TypeOK, FdsTyped, BuffersTyped, Files
<1>4. ShapeInv'
  BY DEF IInv, ShapeInv
<1> QED BY <1>3, <1>4

\* A step of a coroutine from one system call to another, without an await.
LEMMA LocalStep ==
  ASSUME IInv, NEW c \in Conns, NEW label \in Labels, Goto(c, label),
         pc[c] \notin {"reading", "writing"},
         label \notin {"new", "reading", "read", "writing", "written"},
         label = "start" => pc[c] = "new",
         UNCHANGED <<program, kernel, retCode, rounds>>,
         FdsTyped', BuffersTyped', OwnsWhatIsOpen',
         connFd' \in [Conns -> Nat], fileFd' \in [Conns -> Nat],
         \A b \in buffers : b[1] # c => b \in buffers',
         label \in {"load", "respond"} => <<c, rounds[c] + 1>> \in buffers',
         \/ /\ UNCHANGED <<requests, sent>>
            /\ pc[c] \in Owing <=> label \in Owing
         \/ /\ requests' = Count(requests, c) /\ sent' = sent
            /\ pc[c] \notin Owing /\ label \in Owing /\ program = "static"
  PROVE  IInv'
<1>1. KernelInv'
  BY KernelAside
<1>2. AnswerInv' /\ requests' \in [Conns -> Nat] /\ sent' \in [Conns -> Nat]
  BY AnswerStep
<1>3. RoundsInv'
  BY RoundsStep
<1>4. /\ kernel' \subseteq Operations /\ retCode' \in [Conns -> {-1, 0, 1}]
      /\ rounds' \in [Conns -> Nat]
  BY DEF IInv, TypeOK, ShapeInv
<1>5. TypeOK' /\ ShapeInv'
  BY <1>2, <1>4, TypeStep
<1>6. BuffersInv'
  BY BuffersStep
<1> QED BY <1>1, <1>2, <1>3, <1>5, <1>6 DEF IInv

LEMMA AcceptIInv ==
  ASSUME IInv, NEW c \in Conns, Accept(c)
  PROVE  IInv'
<1>1. /\ pc[c] = "new" /\ Unused # {} /\ Goto(c, "start") /\ fds' = Opened(c, "socket")
      /\ connFd' = [connFd EXCEPT ![c] = Min(Unused)]
      /\ UNCHANGED <<program, fileFd, buffers, kernel, retCode, rounds, requests, sent>>
  BY DEF Accept
<1>2. Min(Unused) \in Nat
  BY <1>1, OpenedFacts
<1>3. connFd' \in [Conns -> Nat] /\ fileFd' \in [Conns -> Nat]
  BY <1>1, <1>2 DEF IInv, ShapeInv
<1>4. FdsTyped' /\ BuffersTyped'
  <2>1. FdsTyped'
    BY <1>1, OpenedTyped
  <2> QED BY <1>1, <2>1, Typed DEF BuffersTyped
<1>5. OwnsWhatIsOpen'
  BY AcceptOwns
<1> QED BY <1>1, <1>3, <1>4, <1>5, LocalStep DEF Labels, Owing

LEMMA OpenFileIInv ==
  ASSUME IInv, NEW c \in Conns, OpenFile(c)
  PROVE  IInv'
<1>1. /\ pc[c] = "open" /\ Unused # {} /\ Goto(c, "stat") /\ fds' = Opened(c, "file")
      /\ fileFd' = [fileFd EXCEPT ![c] = Min(Unused)]
      /\ UNCHANGED <<program, buffers, kernel, retCode, connFd, rounds, requests, sent>>
  BY DEF OpenFile
<1>2. Min(Unused) \in Nat
  BY <1>1, OpenedFacts
<1>3. connFd' \in [Conns -> Nat] /\ fileFd' \in [Conns -> Nat]
  BY <1>1, <1>2 DEF IInv, ShapeInv
<1>4. FdsTyped' /\ BuffersTyped'
  <2>1. FdsTyped'
    BY <1>1, OpenedTyped
  <2> QED BY <1>1, <2>1, Typed DEF BuffersTyped
<1>5. OwnsWhatIsOpen'
  BY OpenFileOwns
<1> QED BY <1>1, <1>3, <1>4, <1>5, LocalStep DEF Labels, Owing

\* A coroutine that goes on with its descriptors, and frees or adds buffers of its own.
LEMMA QuietStep ==
  ASSUME IInv, NEW c \in Conns, NEW label \in Labels, Goto(c, label), Running(c),
         pc[c] \notin {"reading", "writing"},
         label \notin {"new", "done", "thrown", "start", "reading", "read", "writing", "written"},
         pc[c] \in {"stat", "load"} <=> label \in {"stat", "load"},
         UNCHANGED <<program, fds, kernel, retCode, connFd, fileFd, rounds>>,
         BuffersTyped',
         \A b \in buffers' : b \in buffers \/ b[1] = c,
         \A b \in buffers : b[1] # c => b \in buffers',
         label \in {"load", "respond"} => <<c, rounds[c] + 1>> \in buffers',
         \/ /\ UNCHANGED <<requests, sent>>
            /\ pc[c] \in Owing <=> label \in Owing
         \/ /\ requests' = Count(requests, c) /\ sent' = sent
            /\ pc[c] \notin Owing /\ label \in Owing /\ program = "static"
  PROVE  IInv'
<1>1. OwnsWhatIsOpen'
  BY SameFiles
<1>2. FdsTyped' /\ connFd' \in [Conns -> Nat] /\ fileFd' \in [Conns -> Nat]
  BY Typed DEF FdsTyped, IInv, ShapeInv
<1> QED BY <1>1, <1>2, LocalStep

LEMMA FileStep ==
  ASSUME IInv, NEW c \in Conns, NEW label \in {"404", "respond"}, Goto(c, label),
         pc[c] \in {"stat", "load"}, label = "respond" => pc[c] = "load", fds' = Closed(fileFd[c]),
         UNCHANGED <<program, buffers, kernel, retCode, coro>>
  PROVE  IInv'
<1>1. OwnsWhatIsOpen'
  BY FileClosed DEF coro, Labels
<1>2. FdsTyped'
  BY ClosedTyped
<1>3. BuffersTyped' /\ connFd' \in [Conns -> Nat] /\ fileFd' \in [Conns -> Nat]
  BY Typed DEF BuffersTyped, IInv, ShapeInv, coro
<1>4. label = "respond" => <<c, rounds[c] + 1>> \in buffers'
  BY DEF IInv, BuffersInv
<1> QED BY <1>1, <1>2, <1>3, <1>4, LocalStep DEF coro, Labels, Owing

LEMMA FileActionsIInv ==
  ASSUME IInv, NEW c \in Conns, StatFails(c) \/ LoadFails(c) \/ LoadFile(c)
  PROVE  IInv'
BY FileStep DEF StatFails, LoadFails, LoadFile, GiveUp

LEMMA EndsIInv ==
  ASSUME IInv, NEW c \in Conns, Close(c) \/ AllocationThrows(c)
  PROVE  IInv'
<1>1. /\ buffers' = {b \in buffers : b[1] # c}
      /\ UNCHANGED <<program, kernel, retCode, coro>>
  BY DEF Close, AllocationThrows
<1>2. BuffersTyped' /\ connFd' \in [Conns -> Nat] /\ fileFd' \in [Conns -> Nat]
  BY <1>1, Typed DEF BuffersTyped, IInv, ShapeInv, coro
<1>3. CASE Close(c)
  <2>1. /\ pc[c] \in {"close", "written"} /\ fds' = Closed(connFd[c]) /\ Goto(c, "done")
    BY <1>3 DEF Close
  <2>2. FdsTyped' /\ OwnsWhatIsOpen'
    BY <1>3, <2>1, ClosedTyped, CloseOwns
  <2> QED BY <1>1, <1>2, <2>1, <2>2, LocalStep DEF coro, Labels, Owing
<1>4. CASE AllocationThrows(c)
  <2>1. /\ pc[c] = "stat" /\ fds' = fds /\ Goto(c, "thrown")
    BY <1>4 DEF AllocationThrows
  <2>2. FdsTyped' /\ OwnsWhatIsOpen'
    BY <1>4, <2>1, Typed, ThrownOwns DEF FdsTyped
  <2> QED BY <1>1, <1>2, <2>1, <2>2, LocalStep DEF coro, Labels, Owing
<1> QED BY <1>3, <1>4

LEMMA QuietActionsIInv ==
  ASSUME IInv, NEW c \in Conns,
         EchoEnds(c) \/ ReadFails(c) \/ ParseFails(c) \/ Parse(c) \/ OpenFails(c)
  PROVE  IInv'
<1>1. BuffersTyped'
  BY Typed DEF EchoEnds, ReadFails, ParseFails, Parse, OpenFails, BuffersTyped
<1>2. CASE EchoEnds(c) \/ ReadFails(c) \/ ParseFails(c)
  <2>1. /\ pc[c] = "read" /\ Goto(c, "close") /\ buffers' \in {buffers, buffers \ {<<c, rounds[c]>>}}
        /\ UNCHANGED <<program, fds, kernel, retCode, coro>>
    BY <1>2 DEF EchoEnds, ReadFails, ParseFails
  <2>2. /\ \A b \in buffers' : b \in buffers
        /\ \A b \in buffers : b[1] # c => b \in buffers'
    BY <2>1
  <2>3. /\ "close" \in Labels \ Owing /\ pc[c] \notin Owing /\ Running(c)
        /\ UNCHANGED <<connFd, fileFd, rounds, requests, sent>>
    BY <2>1 DEF coro, Labels, Owing, Running
  <2> QED BY <1>1, <2>1, <2>2, <2>3, QuietStep
<1>3. CASE Parse(c)
  BY <1>1, <1>3, QuietStep DEF Parse, Labels, Owing, Running
<1>4. CASE OpenFails(c)
  BY <1>1, <1>4, QuietStep DEF OpenFails, coro, Labels, Owing, Running
<1> QED BY <1>2, <1>3, <1>4

\* The response is one more buffer than the rounds there were.
LEMMA StatFileIInv ==
  ASSUME IInv, NEW c \in Conns, StatFile(c)
  PROVE  IInv'
<1>1. /\ pc[c] = "stat" /\ Goto(c, "load") /\ buffers' = buffers \cup {<<c, rounds[c] + 1>>}
      /\ UNCHANGED <<program, fds, kernel, retCode, coro>>
  BY DEF StatFile
<1>2. rounds[c] \in Nat /\ rounds[c] <= MaxRounds + 1
  BY DEF IInv, ShapeInv, RoundsInv
<1>3. BuffersTyped'
  BY <1>1, <1>2, Typed, HandlersAssumption DEF BuffersTyped
<1>4. /\ \A b \in buffers' : b \in buffers \/ b[1] = c
      /\ \A b \in buffers : b[1] # c => b \in buffers'
      /\ <<c, rounds[c] + 1>> \in buffers'
  BY <1>1
<1>5. /\ pc[c] \in Owing /\ "load" \in Owing \cap Labels /\ Running(c)
      /\ UNCHANGED <<connFd, fileFd, rounds, requests, sent>>
  BY <1>1 DEF coro, Labels, Owing, Running
<1> QED BY <1>1, <1>3, <1>4, <1>5, QuietStep

\* A coroutine that hands a buffer of its own to the kernel and waits.
LEMMA AwaitStep ==
  ASSUME IInv, NEW c \in Conns, NEW label \in {"reading", "writing"}, NEW n \in Nat,
         Await(c, label, n), Running(c), pc[c] \notin {"reading", "writing", "stat", "load"},
         UNCHANGED <<program, fds, retCode, connFd, fileFd>>,
         BuffersTyped',
         \A b \in buffers' : b \in buffers \/ b[1] = c,
         \A b \in buffers : b[1] # c => b \in buffers',
         n = StaticText \/ <<c, n>> \in buffers',
         rounds' \in [Conns -> Nat], \A d \in Conns \ {c} : rounds'[d] = rounds[d],
         label = "reading" => <<c, rounds'[c]>> \in buffers',
         RoundsInv',
         \/ /\ UNCHANGED <<requests, sent>>
            /\ pc[c] \notin Owing
         \/ /\ sent' = Count(sent, c) /\ requests' = requests
            /\ pc[c] \in Owing
         \/ /\ sent' = Count(sent, c) /\ requests' = Count(requests, c)
            /\ pc[c] \notin Owing
  PROVE  IInv'
<1>1. Goto(c, label) /\ label \in Labels /\ label \notin Owing
  BY DEF Await, Labels, Owing
<1>2. KernelInv' /\ kernel' \subseteq Operations
  BY KernelTakes
<1>3. AnswerInv' /\ requests' \in [Conns -> Nat] /\ sent' \in [Conns -> Nat]
  BY <1>1, AnswerStep
<1>4. OwnsWhatIsOpen'
  BY <1>1, SameFiles
<1>5. BuffersInv'
  BY <1>1, BuffersStep
<1>6. /\ FdsTyped' /\ retCode' \in [Conns -> {-1, 0, 1}]
      /\ connFd' \in [Conns -> Nat] /\ fileFd' \in [Conns -> Nat]
  BY Typed DEF FdsTyped, IInv, TypeOK, ShapeInv
<1>7. TypeOK' /\ ShapeInv'
  BY <1>1, <1>2, <1>3, <1>6, TypeStep
<1> QED BY <1>2, <1>3, <1>4, <1>5, <1>7 DEF IInv

\* A coroutine reads once more only if its client has more to send.
LEMMA ReadIInv ==
  ASSUME IInv, NEW c \in Conns, Read(c)
  PROVE  IInv'
<1>1. /\ pc[c] = "start" \/ (program = "echo" /\ pc[c] = "written")
      /\ rounds' = Count(rounds, c)
      /\ buffers' = (buffers \ {<<c, rounds[c]>>}) \cup {<<c, rounds'[c]>>}
      /\ Await(c, "reading", rounds'[c])
      /\ UNCHANGED <<program, fds, connFd, fileFd, retCode, requests, sent>>
  BY DEF Read
<1>2. rounds \in [Conns -> Nat]
  BY DEF IInv, ShapeInv
<1>3. /\ rounds' \in [Conns -> Nat] /\ rounds'[c] = rounds[c] + 1
      /\ \A d \in Conns \ {c} : rounds'[d] = rounds[d]
  BY <1>1, <1>2 DEF Count
<1>4. rounds[c] <= MaxRounds
  BY <1>1, HandlersAssumption DEF IInv, RoundsInv
<1>5. rounds'[c] \in Nat /\ rounds'[c] \in 1 .. MaxRounds + 1
  BY <1>2, <1>3, <1>4, HandlersAssumption
<1>6. BuffersTyped'
  BY <1>1, <1>5, Typed, HandlersAssumption DEF BuffersTyped
<1>7. pc'[c] = "reading" /\ \A d \in Conns \ {c} : pc'[d] = pc[d]
  BY <1>1, PcFacts DEF Await, Labels
<1>8. RoundsInv'
  BY <1>1, <1>3, <1>5, <1>7 DEF IInv, RoundsInv, Owing
<1>9. /\ \A b \in buffers' : b \in buffers \/ b[1] = c
      /\ \A b \in buffers : b[1] # c => b \in buffers'
      /\ <<c, rounds'[c]>> \in buffers'
  BY <1>1
<1>10. Running(c) /\ pc[c] \notin {"reading", "writing", "stat", "load"} \cup Owing
  BY <1>1 DEF Running, Owing
<1> HIDE <1>1
<1>11. /\ Await(c, "reading", rounds'[c])
       /\ UNCHANGED <<program, fds, connFd, fileFd, retCode, requests, sent>>
  BY <1>1
<1> QED BY <1>3, <1>5, <1>6, <1>8, <1>9, <1>10, <1>11, AwaitStep

\* Echo never writes nothing: it stops at a read of zero bytes.
LEMMA EchoBackIInv ==
  ASSUME IInv, NEW c \in Conns, EchoBack(c)
  PROVE  IInv'
<1>1. /\ program = "echo" /\ pc[c] = "read" /\ retCode[c] = 1
  BY DEF EchoBack, ReadEnded, IInv, TypeOK
<1>2. /\ Await(c, "writing", rounds[c]) /\ sent' = Count(sent, c)
      /\ requests' = Count(requests, c)
      /\ UNCHANGED <<program, fds, buffers, retCode, connFd, fileFd, rounds>>
  BY <1>1 DEF EchoBack
<1>3. rounds \in [Conns -> Nat] /\ <<c, rounds[c]>> \in buffers /\ rounds[c] <= MaxRounds
  BY <1>1 DEF IInv, ShapeInv, BuffersInv, RoundsInv
<1>4. RoundsInv'
  BY <1>1, <1>2, <1>3, RoundsStep DEF Await, Labels, Owing
<1>5. Running(c) /\ pc[c] \notin {"reading", "writing", "stat", "load"} \cup Owing
  BY <1>1 DEF Running, Owing
<1>6. BuffersTyped'
  BY <1>2, Typed DEF BuffersTyped
<1> QED BY <1>2, <1>3, <1>4, <1>5, <1>6, AwaitStep

LEMMA RespondIInv ==
  ASSUME IInv, NEW c \in Conns, Respond(c)
  PROVE  IInv'
<1>1. PICK n \in Nat :
        /\ pc[c] \in {"404", "respond"} /\ Await(c, "writing", n)
        /\ n = StaticText \/ <<c, n>> \in buffers
  <2>1. CASE pc[c] = "404"
    BY <2>1 DEF Respond, StaticText
  <2>2. CASE pc[c] = "respond"
    <3>1. rounds[c] + 1 \in Nat
      BY DEF IInv, ShapeInv
    <3>2. <<c, rounds[c] + 1>> \in buffers
      BY <2>2 DEF IInv, BuffersInv
    <3> QED BY <2>2, <3>1, <3>2 DEF Respond
  <2> QED BY <2>1, <2>2 DEF Respond
<1>2. /\ sent' = Count(sent, c)
      /\ UNCHANGED <<program, fds, buffers, retCode, connFd, fileFd, rounds, requests>>
  BY DEF Respond
<1>3. program # "echo" \/ rounds[c] <= MaxRounds
  BY <1>1 DEF IInv, RoundsInv, Owing
<1>4. RoundsInv'
  BY <1>1, <1>2, <1>3, RoundsStep DEF Await, Labels, Owing
<1>5. Running(c) /\ pc[c] \in Owing /\ pc[c] \notin {"reading", "writing", "stat", "load"}
  BY <1>1 DEF Running, Owing
<1>6. BuffersTyped' /\ rounds' \in [Conns -> Nat]
  BY <1>2, Typed DEF BuffersTyped, IInv, ShapeInv
<1> QED BY <1>1, <1>2, <1>4, <1>5, <1>6, AwaitStep

\* An await is answered, by the kernel or by its timeout.
LEMMA ResumeIInv ==
  ASSUME IInv, NEW op \in kernel, ~op.late, NEW ret \in {-1, 0, 1}, Resume(op.conn, ret),
         kernel' = kernel \ {op} \/ kernel' = (kernel \ {op}) \cup {[op EXCEPT !.late = TRUE]},
         pc[op.conn] = "reading" /\ rounds[op.conn] > MaxRounds => ret # 1,
         UNCHANGED <<program, fds, buffers, coro>>
  PROVE  IInv'
<1> DEFINE c == op.conn
<1>1. c \in Conns
  BY DEF IInv, TypeOK
<1>2. PICK label \in {"read", "written"} :
        /\ Goto(c, label) /\ pc[c] \in {"reading", "writing"}
        /\ label = "read" <=> pc[c] = "reading"
  BY DEF Resume
<1>3. label \in Labels /\ label \notin Owing /\ pc[c] \notin Owing /\ Running(c)
  BY <1>2 DEF Labels, Owing, Running
<1>4. UNCHANGED <<program, fds, buffers, connFd, fileFd, rounds, requests, sent>>
  BY DEF coro
<1>5. /\ retCode' \in [Conns -> {-1, 0, 1}] /\ retCode'[c] = ret
      /\ \A d \in Conns \ {c} : retCode'[d] = retCode[d]
  BY <1>1 DEF Resume, IInv, TypeOK
<1>6. KernelInv' /\ kernel' \subseteq Operations
  BY <1>2, <1>3, <1>4, KernelAnswers
<1> HIDE DEF c
<1>7. AnswerInv' /\ requests' \in [Conns -> Nat] /\ sent' \in [Conns -> Nat]
  BY <1>1, <1>2, <1>3, <1>4, AnswerStep
<1>8. OwnsWhatIsOpen'
  BY <1>1, <1>2, <1>3, <1>4, SameFiles
<1>9. BuffersInv'
  <2>1. label = "read" => <<c, rounds'[c]>> \in buffers'
    BY <1>1, <1>2, <1>4 DEF IInv, BuffersInv
  <2> QED BY <1>1, <1>2, <1>3, <1>4, <2>1, BuffersStep
<1>10. RoundsInv'
  <2>1. pc'[c] = label /\ \A d \in Conns \ {c} : pc'[d] = pc[d]
    BY <1>1, <1>2, <1>3, PcFacts
  <2>2. label = "read" /\ ret = 1 => rounds[c] <= MaxRounds
    <3>1. rounds[c] \in Nat /\ MaxRounds \in Nat
      BY <1>1, HandlersAssumption DEF IInv, ShapeInv
    <3> QED BY <1>2, <3>1 DEF c
  <2>3. ASSUME NEW d \in Conns
        PROVE  /\ rounds'[d] <= MaxRounds + 1
               /\ pc'[d] \in {"new", "start"} => rounds'[d] = 0
               /\ program' = "echo"
                    /\ (pc'[d] \in {"writing", "written"} \/ (pc'[d] = "read" /\ retCode'[d] = 1)) =>
                    rounds'[d] <= MaxRounds
               /\ program' = "echo" => pc'[d] \notin Owing
    <3>1. CASE d = c
      BY <1>1, <1>2, <1>3, <1>4, <1>5, <2>1, <2>2, <3>1 DEF IInv, RoundsInv
    <3>2. CASE d # c
      BY <1>4, <1>5, <2>1, <3>2 DEF IInv, RoundsInv
    <3> QED BY <3>1, <3>2
  <2> QED BY <2>3 DEF RoundsInv
<1>11. /\ FdsTyped' /\ BuffersTyped'
       /\ connFd' \in [Conns -> Nat] /\ fileFd' \in [Conns -> Nat] /\ rounds' \in [Conns -> Nat]
  BY <1>4, Typed DEF FdsTyped, BuffersTyped, IInv, ShapeInv
<1>12. TypeOK' /\ ShapeInv'
  BY <1>1, <1>2, <1>3, <1>4, <1>5, <1>6, <1>7, <1>11, TypeStep
<1> QED BY <1>6, <1>7, <1>8, <1>9, <1>10, <1>12 DEF IInv

\* The answer of the kernel and that of the timeout are answers alike.
LEMMA AnswersIInv ==
  ASSUME IInv, NEW c \in Conns, Completes(c) \/ TimesOut(c)
  PROVE  IInv'
BY ResumeIInv DEF Completes, TimesOut

LEMMA CompletesLateIInv ==
  ASSUME IInv, NEW c \in Conns, CompletesLate(c)
  PROVE  IInv'
<1>1. /\ kernel' \subseteq kernel
      /\ UNCHANGED <<program, pc, fds, buffers, retCode, coro>>
  BY DEF CompletesLate
<1>2. KernelInv'
  BY <1>1 DEF IInv, KernelInv
<1>3. TypeOK' /\ ShapeInv'
  BY <1>1 DEF IInv, TypeOK, ShapeInv, coro
<1>4. OwnsWhatIsOpen' /\ AnswerInv' /\ RoundsInv' /\ BuffersInv'
  BY <1>1 DEF IInv, OwnsWhatIsOpen, Running, AnswerInv, RoundsInv, BuffersInv, coro
<1> QED BY <1>2, <1>3, <1>4 DEF IInv

LEMMA CoroutineIInv ==
  ASSUME IInv, NEW c \in Conns, Coroutine(c)
  PROVE  IInv'
<1>1. CASE Read(c)
  BY <1>1, ReadIInv
<1>2. CASE Close(c) \/ AllocationThrows(c)
  BY <1>2, EndsIInv
<1>3. CASE EchoEnds(c) \/ ReadFails(c) \/ ParseFails(c) \/ Parse(c) \/ OpenFails(c)
  BY <1>3, QuietActionsIInv
<1>4. CASE EchoBack(c)
  BY <1>4, EchoBackIInv
<1>5. CASE OpenFile(c)
  BY <1>5, OpenFileIInv
<1>6. CASE StatFails(c) \/ LoadFails(c) \/ LoadFile(c)
  BY <1>6, FileActionsIInv
<1>7. CASE StatFile(c)
  BY <1>7, StatFileIInv
<1>8. CASE Respond(c)
  BY <1>8, RespondIInv
<1> QED BY <1>1, <1>2, <1>3, <1>4, <1>5, <1>6, <1>7, <1>8 DEF Coroutine

LEMMA InitIInv == Init => IInv
<1> SUFFICES ASSUME Init PROVE IInv
  OBVIOUS
<1> USE HandlersAssumption DEF Init
<1>1. TypeOK /\ ShapeInv
  BY DEF TypeOK, ShapeInv, Labels
<1>2. OwnsWhatIsOpen /\ KernelInv
  BY DEF OwnsWhatIsOpen, Running, KernelInv
<1>3. AnswerInv /\ RoundsInv /\ BuffersInv
  BY DEF AnswerInv, RoundsInv, BuffersInv, Owing
<1> QED BY <1>1, <1>2, <1>3 DEF IInv

LEMMA NextIInv == IInv /\ [Next]_vars => IInv'
<1> SUFFICES ASSUME IInv, [Next]_vars PROVE IInv'
  OBVIOUS
<1>1. ASSUME NEW c \in Conns, Accept(c) PROVE IInv'
  BY <1>1, AcceptIInv
<1>2. ASSUME NEW c \in Conns, Coroutine(c) PROVE IInv'
  BY <1>2, CoroutineIInv
<1>3. ASSUME NEW c \in Conns, Completes(c) \/ TimesOut(c) PROVE IInv'
  BY <1>3, AnswersIInv
<1>4. ASSUME NEW c \in Conns, CompletesLate(c) PROVE IInv'
  BY <1>4, CompletesLateIInv
<1>5. CASE UNCHANGED vars
  <2> USE <1>5 DEF vars, coro
  <2>1. TypeOK' /\ ShapeInv'
    BY DEF IInv, TypeOK, ShapeInv
  <2>2. OwnsWhatIsOpen' /\ KernelInv'
    BY DEF IInv, OwnsWhatIsOpen, Running, KernelInv
  <2>3. AnswerInv' /\ RoundsInv' /\ BuffersInv'
    BY DEF IInv, AnswerInv, RoundsInv, BuffersInv
  <2> QED BY <2>1, <2>2, <2>3 DEF IInv
<1> QED BY <1>1, <1>2, <1>3, <1>4, <1>5 DEF Next

------------------------------------------------------------------------------
(* What holds in every state *)

\* The invariant that the others follow from.
THEOREM IInvHolds == Spec => []IInv
BY InitIInv, NextIInv, PTL DEF Spec

\* The types; no coroutine of Echo asks for an empty write, on which the
\* scheduler aborts.
THEOREM TypeCorrect == Spec => []TypeOK
<1>1. IInv => TypeOK
  BY DEF IInv
<1> QED BY <1>1, IInvHolds, PTL

\* A coroutine's descriptors are its own as long as it runs, whatever numbers the
\* others open and close, and no path but an exception leaves one open.
THEOREM OwnsWhatIsOpenHolds == Spec => []OwnsWhatIsOpen
<1>1. IInv => OwnsWhatIsOpen
  BY DEF IInv
<1> QED BY <1>1, IInvHolds, PTL

\* No buffer is freed while the kernel may read or write it for an await that was
\* not given up.
THEOREM KernelBuffersAreLiveHolds == Spec => []KernelBuffersAreLive
<1>1. IInv => KernelBuffersAreLive
  BY DEF IInv, KernelInv, KernelBuffersAreLive
<1> QED BY <1>1, IInvHolds, PTL

\* A request that is understood is answered once, on every path that ends.
THEOREM EveryRequestAnsweredHolds == Spec => []EveryRequestAnswered
<1>1. IInv => EveryRequestAnswered
  BY DEF IInv, ShapeInv, AnswerInv, Owing, EveryRequestAnswered
<1> QED BY <1>1, IInvHolds, PTL

------------------------------------------------------------------------------
(* Strings *)

\* What is read from the k-th piece of a text is put before what is read from the
\* pieces behind it.
Backwards(X, n, out, whole, place, Bad, g) ==
  /\ n \in Nat /\ n = Len(out) /\ \A k \in 1 .. n : out[k] \in Seq(X)
  /\ whole \in Seq(X) /\ IsPlace(place, out, whole)
  /\ g[n] = <<(<<>>)>>
  /\ \A k \in 1 .. n : g[k - 1] = IF k \in Bad THEN NoString ELSE Then(out[k], g[k])

\* Pieces that are read from the last to the first are all that is read, unless one
\* of them is bad.
LEMMA ReadBackwards ==
  ASSUME NEW X, NEW n, NEW out, NEW whole, NEW place, NEW Bad, NEW g,
         Backwards(X, n, out, whole, place, Bad, g)
  PROVE  g[0] = IF Bad \cap (1 .. n) = {} THEN <<whole>> ELSE NoString
<1> USE DEF Backwards
<1> DEFINE rest(k) == SubSeq(whole, place[k] + 1, Len(whole))
           Good(k) == Bad \cap (k + 1 .. n) = {}
           WholeFrom(k) == g[k] = IF Good(k) THEN <<rest(k)>> ELSE NoString
           S == {m \in Nat : \A k \in 0 .. n : k + m = n => WholeFrom(k)}
<1>1. n \in Nat /\ Len(whole) \in Nat /\ place \in [0 .. n -> Nat]
      /\ place[0] = 0 /\ place[n] = Len(whole)
  BY DEF IsPlace
<1>2. 0 \in S
  <2>1. rest(n) = <<>> /\ Good(n)
    BY <1>1
  <2>2. WholeFrom(n)
    BY <2>1
  <2>3. \A k \in 0 .. n : k + 0 = n => k = n
    OBVIOUS
  <2> HIDE DEF WholeFrom
  <2> QED BY <2>2, <2>3
<1>3. ASSUME NEW m \in Nat, m \in S PROVE m + 1 \in S
  <2> SUFFICES ASSUME NEW i \in 0 .. n, i + (m + 1) = n PROVE WholeFrom(i)
    OBVIOUS
  <2> DEFINE k == i + 1
  <2>1. k \in 1 .. n /\ k \in 0 .. n /\ k + m = n /\ k - 1 = i
    OBVIOUS
  <2>2. WholeFrom(k)
    BY <1>3, <2>1
  <2>3. g[i] = IF k \in Bad THEN NoString ELSE Then(out[k], g[k])
    BY <2>1
  <2>4. Good(i) <=> k \notin Bad /\ Good(k)
    <3>1. i + 1 .. n = {k} \cup (k + 1 .. n)
      BY <2>1
    <3> QED BY <3>1
  <2>5. rest(i) = out[k] \o rest(k)
    <3>1. /\ place[k] = place[i] + Len(out[k]) /\ place[k] <= Len(whole)
          /\ \A j \in 1 .. Len(out[k]) : whole[place[i] + j] = out[k][j]
          /\ out[k] \in Seq(X)
      BY <2>1 DEF IsPlace
    <3>2. place[i] \in Nat
      BY <1>1
    <3> HIDE DEF k
    <3> QED BY <3>1, <3>2, SuffixFacts
  <2> HIDE DEF rest, Good, k
  <2>6. CASE k \in Bad
    BY <2>3, <2>4, <2>6
  <2>7. CASE k \notin Bad /\ ~Good(k)
    <3>1. g[k] = NoString /\ g[i] = Then(out[k], g[k])
      BY <2>2, <2>3, <2>7
    <3> QED BY <2>4, <2>7, <3>1 DEF Then
  <2>8. CASE k \notin Bad /\ Good(k)
    <3>1. g[k] = <<rest(k)>> /\ g[i] = Then(out[k], g[k])
      BY <2>2, <2>3, <2>8
    <3>2. <<rest(k)>> # NoString /\ <<rest(k)>>[1] = rest(k)
      BY DEF NoString
    <3>3. g[i] = <<out[k] \o rest(k)>>
      BY <3>1, <3>2 DEF Then
    <3> QED BY <2>4, <2>5, <2>8, <3>3
  <2> QED BY <2>6, <2>7, <2>8
<1>4. n \in S
  <2> HIDE DEF S
  <2> QED BY <1>2, <1>3, NumbersFromZero
<1>5. WholeFrom(0)
  <2> HIDE DEF WholeFrom
  <2>1. 0 \in 0 .. n /\ 0 + n = n
    OBVIOUS
  <2> QED BY <1>4, <2>1
<1>6. rest(0) = whole /\ 0 + 1 .. n = 1 .. n
  BY <1>1
<1> HIDE DEF rest
<1> QED BY <1>5, <1>6

\* What dumpString escapes is unescaped by parseString, and nothing else is: \u has
\* a meaning of its own.
LEMMA EscapeFacts ==
  /\ DOMAIN Escapes = {8, 9, 10, 12, 13, 34, 92}
  /\ \A c \in DOMAIN Escapes :
       /\ Escapes[c] \in DOMAIN Unescapes /\ Unescapes[Escapes[c]] = c
       /\ Escapes[c] \in Nat /\ Escapes[c] \notin Control
  /\ LetterU \notin DOMAIN Unescapes
  /\ \A e \in DOMAIN Unescapes : Unescapes[e] \in Nat
<1>1. DOMAIN Escapes = {8, 9, 10, 12, 13, 34, 92}
  BY DEF Escapes, Quote, Backslash
<1>2. /\ Escapes[8] = 98 /\ Escapes[9] = 116 /\ Escapes[10] = 110 /\ Escapes[12] = 102
      /\ Escapes[13] = 114 /\ Escapes[34] = 34 /\ Escapes[92] = 92
  BY DEF Escapes, Quote, Backslash
<1>3. Range(Escapes) = {98, 116, 110, 102, 114, 34, 92}
  BY <1>1, <1>2 DEF Range
<1>4. DOMAIN Unescapes = {98, 116, 110, 102, 114, 34, 92, 47}
  BY <1>3 DEF Unescapes
<1>5. \A c, d \in DOMAIN Escapes : Escapes[c] = Escapes[d] => c = d
  BY <1>1, <1>2
<1>6. ASSUME NEW c \in DOMAIN Escapes
      PROVE  /\ Unescapes[Escapes[c]] = c /\ Escapes[c] \in DOMAIN Unescapes
             /\ Escapes[c] \in Nat /\ Escapes[c] \notin Control
  <2>1. /\ Escapes[c] \in Range(Escapes) \cup {47} /\ Escapes[c] # 47
        /\ Escapes[c] \in Nat /\ Escapes[c] \notin Control
    BY <1>1, <1>2, <1>3 DEF Control
  <2>2. Unescapes[Escapes[c]] = CHOOSE d \in DOMAIN Escapes : Escapes[d] = Escapes[c]
    BY <2>1 DEF Unescapes
  <2>3. (CHOOSE d \in DOMAIN Escapes : Escapes[d] = Escapes[c]) = c
    BY <1>5
  <2> QED BY <1>3, <1>4, <2>1, <2>2, <2>3
<1>7. ASSUME NEW e \in DOMAIN Unescapes PROVE Unescapes[e] \in Nat
  <2>1. CASE e = 47
    BY <1>4, <2>1 DEF Unescapes
  <2>2. CASE e # 47
    <3>1. \E c \in DOMAIN Escapes : Escapes[c] = e
      BY <1>1, <1>2, <1>4, <2>2
    <3>2. PICK c \in DOMAIN Escapes : Escapes[c] = e
      BY <3>1
    <3>3. Unescapes[e] = c
      BY <1>6, <3>2
    <3> QED BY <1>1, <3>3
  <2> QED BY <2>1, <2>2
<1> QED BY <1>1, <1>4, <1>6, <1>7 DEF LetterU

\* A digit is read as it is written.
LEMMA HexFacts ==
  ASSUME NEW d \in 0 .. 15
  PROVE  HexDigit(d) \in Nat /\ IsHex(HexDigit(d)) /\ HexValue(HexDigit(d)) = d
BY DEF HexDigit, IsHex, HexValue

\* Quotient and remainder, for the divisors of the conversions.
LEMMA Divided ==
  ASSUME NEW n \in Nat
  PROVE  /\ n \div 16 \in Nat /\ n % 16 \in 0 .. 15 /\ n = (16 * (n \div 16)) + (n % 16)
         /\ n \div 64 \in Nat /\ n % 64 \in 0 .. 63 /\ n = (64 * (n \div 64)) + (n % 64)
         /\ n \div 256 \in Nat /\ n % 256 \in 0 .. 255 /\ n = (256 * (n \div 256)) + (n % 256)
         /\ n \div 4096 \in Nat /\ n % 4096 \in 0 .. 4095 /\ n = (4096 * (n \div 4096)) + (n % 4096)
OBVIOUS

\* A number below 65536 with its quotients and remainders: a, b, c and d are its digits.
Digits(u, e, f, a, x, y, b, c, d, m, l) ==
  /\ u \in Nat /\ e \in Nat /\ f \in Nat /\ a \in Nat /\ x \in Nat /\ y \in Nat
  /\ b \in Nat /\ c \in Nat /\ d \in Nat /\ m \in Nat /\ l \in Nat
  /\ u < 65536 /\ u = (16 * e) + d /\ d < 16 /\ u = (256 * f) + m /\ m < 256
  /\ u = (4096 * a) + l /\ l < 4096
  /\ e = (16 * x) + c /\ c < 16 /\ f = (16 * y) + b /\ b < 16

\* The digits make up the number.
LEMMA DigitSum ==
  ASSUME NEW u, NEW e, NEW f, NEW a, NEW x, NEW y, NEW b, NEW c, NEW d, NEW m, NEW l,
         Digits(u, e, f, a, x, y, b, c, d, m, l)
  PROVE  a < 16 /\ (a * 4096) + (b * 256) + (c * 16) + d = u
<1> USE DEF Digits
<1>1. a < 16
  OBVIOUS
<1>2. x = f
  OBVIOUS
<1>3. y = a
  OBVIOUS
<1> QED BY <1>1, <1>2, <1>3

\* The four digits that are written for a number.
LEMMA HexDigits ==
  ASSUME NEW u \in Nat, u < 65536
  PROVE  LET a == u \div 4096
             b == (u \div 256) % 16
             c == (u \div 16) % 16
             d == u % 16
         IN /\ a \in 0 .. 15 /\ b \in 0 .. 15 /\ c \in 0 .. 15 /\ d \in 0 .. 15
            /\ (a * 4096) + (b * 256) + (c * 16) + d = u
<1> DEFINE e == u \div 16
           f == u \div 256
           a == u \div 4096
           x == e \div 16
           y == f \div 16
           b == f % 16
           c == e % 16
           d == u % 16
           m == u % 256
           l == u % 4096
<1>1. /\ e \in Nat /\ d \in 0 .. 15 /\ u = (16 * e) + d
      /\ f \in Nat /\ m \in 0 .. 255 /\ u = (256 * f) + m
      /\ a \in Nat /\ l \in 0 .. 4095 /\ u = (4096 * a) + l
  BY Divided
<1> HIDE DEF e, f, a, m, l
<1>2. x \in Nat /\ c \in 0 .. 15 /\ e = (16 * x) + c
  BY <1>1, Divided
<1>3. y \in Nat /\ b \in 0 .. 15 /\ f = (16 * y) + b
  BY <1>1, Divided
<1> HIDE DEF x, y, b, c, d
<1>4. /\ b \in Nat /\ b < 16 /\ c \in Nat /\ c < 16 /\ d \in Nat /\ d < 16
      /\ m \in Nat /\ m < 256 /\ l \in Nat /\ l < 4096
  BY <1>1, <1>2, <1>3
<1>5. a < 16 /\ (a * 4096) + (b * 256) + (c * 16) + d = u
  <2>1. Digits(u, e, f, a, x, y, b, c, d, m, l)
    BY <1>1, <1>2, <1>3, <1>4 DEF Digits
  <2> QED BY <2>1, DigitSum
<1> QED BY <1>1, <1>2, <1>3, <1>5 DEF a, b, c, d, e, f

\* Four digits are read as the number they were written for.
Spells(text, u) ==
  /\ text \in Seq(Nat) /\ Len(text) = 6
  /\ text[1] = Backslash /\ text[2] = LetterU
  /\ \A k \in 3 .. 6 : IsHex(text[k])
  /\ unicodeToWchar(<<text[3], text[4], text[5], text[6]>>) = u

\* What another program writes for a character is read as that character.
LEMMA FourDigits ==
  ASSUME NEW u \in Nat, u < 65536
  PROVE  Spells(Escaped(u), u)
<1> DEFINE a == u \div 4096
           b == (u \div 256) % 16
           c == (u \div 16) % 16
           d == u % 16
<1>1. /\ a \in 0 .. 15 /\ b \in 0 .. 15 /\ c \in 0 .. 15 /\ d \in 0 .. 15
      /\ (a * 4096) + (b * 256) + (c * 16) + d = u
  <2>1. u \in Nat /\ u < 65536
    OBVIOUS
  <2> QED BY <2>1, HexDigits
<1>2. (a * 4096) + (b * 256) + (c * 16) + d = u
  BY <1>1
<1>3. Escaped(u) = <<92, 117, HexDigit(a), HexDigit(b), HexDigit(c), HexDigit(d)>>
  BY DEF Escaped, Backslash, LetterU
<1> HIDE DEF a, b, c, d
<1>4. /\ HexDigit(a) \in Nat /\ HexDigit(b) \in Nat /\ HexDigit(c) \in Nat /\ HexDigit(d) \in Nat
      /\ IsHex(HexDigit(a)) /\ IsHex(HexDigit(b)) /\ IsHex(HexDigit(c)) /\ IsHex(HexDigit(d))
      /\ HexValue(HexDigit(a)) = a /\ HexValue(HexDigit(b)) = b
      /\ HexValue(HexDigit(c)) = c /\ HexValue(HexDigit(d)) = d
  BY <1>1, HexFacts
<1>5. /\ Escaped(u) \in Seq(Nat) /\ Len(Escaped(u)) = 6
      /\ Escaped(u)[1] = Backslash /\ Escaped(u)[2] = LetterU
      /\ Escaped(u)[3] = HexDigit(a) /\ Escaped(u)[4] = HexDigit(b)
      /\ Escaped(u)[5] = HexDigit(c) /\ Escaped(u)[6] = HexDigit(d)
  BY <1>3, <1>4 DEF Backslash, LetterU
<1>6. \A k \in 3 .. 6 : k = 3 \/ k = 4 \/ k = 5 \/ k = 6
  OBVIOUS
<1>7. \A k \in 3 .. 6 : IsHex(Escaped(u)[k])
  BY <1>4, <1>5, <1>6
<1>8. unicodeToWchar(<<Escaped(u)[3], Escaped(u)[4], Escaped(u)[5], Escaped(u)[6]>>) = u
  BY <1>2, <1>4, <1>5 DEF unicodeToWchar
<1> QED BY <1>5, <1>7, <1>8 DEF Spells

\* A character is the one to three bytes that Decoded takes for it.
IsUtf8(bytes, u) ==
  /\ bytes \in Seq(Nat) /\ Len(bytes) \in 1 .. 3
  /\ Len(bytes) = 1 => bytes[1] < 128 /\ bytes[1] = u
  /\ Len(bytes) = 2 => ~(bytes[1] < 128) /\ bytes[1] < 224 /\ TwoBytes(bytes[1], bytes[2]) = u
  /\ Len(bytes) = 3 => /\ ~(bytes[1] < 128) /\ ~(bytes[1] < 224)
                       /\ ThreeBytes(bytes[1], bytes[2], bytes[3]) = u

\* fromUnicode gives the UTF-8 of a character.
LEMMA Utf8Facts ==
  ASSUME NEW u \in Nat, u < 65536
  PROVE  IsUtf8(fromUnicode(u), u)
<1>1. CASE u <= 127
  BY <1>1 DEF fromUnicode, IsUtf8
<1>2. CASE ~(u <= 127) /\ u <= 2047
  <2> DEFINE a == 192 + (u \div 64)
             b == 128 + (u % 64)
  <2>1. a \in Nat /\ ~(a < 128) /\ a < 224 /\ b \in Nat /\ ((a - 192) * 64) + b - 128 = u
    BY <1>2
  <2>2. fromUnicode(u) = <<a, b>>
    BY <1>2 DEF fromUnicode, Continuation
  <2> HIDE DEF a, b
  <2>3. TwoBytes(a, b) = u
    BY <2>1 DEF TwoBytes
  <2> QED BY <2>1, <2>2, <2>3 DEF IsUtf8
<1>3. CASE ~(u <= 127) /\ ~(u <= 2047)
  <2> DEFINE a == 224 + (u \div 4096)
             b == 128 + ((u \div 64) % 64)
             c == 128 + (u % 64)
  <2>1. ~(a < 128) /\ ~(a < 224) /\ a \in Nat /\ b \in Nat /\ c \in Nat
    <3>1. u \in Nat
      OBVIOUS
    <3>2. u \div 4096 \in Nat /\ u \div 64 \in Nat /\ u % 64 \in Nat
      BY <3>1, Divided
    <3>3. (u \div 64) % 64 \in Nat
      BY <3>2, Divided
    <3> QED BY <3>2, <3>3
  <2>2. ((a - 224) * 4096) + ((b - 128) * 64) + c - 128 = u
    OBVIOUS
  <2>3. fromUnicode(u) = <<a, b, c>>
    BY <1>3 DEF fromUnicode, Continuation
  <2> HIDE DEF a, b, c
  <2>4. ThreeBytes(a, b, c) = u
    BY <2>2 DEF ThreeBytes
  <2> QED BY <2>1, <2>3, <2>4 DEF IsUtf8
<1> QED BY <1>1, <1>2, <1>3

\* fromUnicode makes bytes of any four digits.
LEMMA BytesOfDigits ==
  ASSUME NEW digits, \A k \in 1 .. 4 : IsHex(digits[k])
  PROVE  fromUnicode(unicodeToWchar(digits)) \in Seq(Nat)
<1>1. ASSUME NEW digit, IsHex(digit) PROVE HexValue(digit) \in Nat
  BY <1>1 DEF IsHex, HexValue
<1>2. /\ HexValue(digits[1]) \in Nat /\ HexValue(digits[2]) \in Nat
      /\ HexValue(digits[3]) \in Nat /\ HexValue(digits[4]) \in Nat
  BY <1>1
<1>3. unicodeToWchar(digits) \in Nat
  BY <1>2 DEF unicodeToWchar
<1>4. ASSUME NEW u \in Nat PROVE fromUnicode(u) \in Seq(Nat)
  <2>1. u \div 64 \in Nat /\ u \div 4096 \in Nat /\ u % 64 \in Nat
    BY Divided
  <2>2. (u \div 64) % 64 \in Nat
    BY <2>1, Divided
  <2> QED BY <2>1, <2>2 DEF fromUnicode, Continuation
<1> QED BY <1>3, <1>4

\* What parseString reads at each position is what its loop makes of what it reads
\* at the later ones.
ReadStrings == {<<>>} \cup {<<s>> : s \in Seq(Nat)}

LEMMA ThenFacts ==
  ASSUME NEW bytes \in Seq(Nat), NEW rest \in ReadStrings
  PROVE  Then(bytes, rest) \in ReadStrings
<1>1. CASE rest = <<>>
  BY <1>1 DEF Then, NoString, ReadStrings
<1>2. CASE rest # <<>>
  <2>1. PICK s \in Seq(Nat) : rest = <<s>>
    BY <1>2 DEF ReadStrings
  <2>2. Then(bytes, rest) = <<bytes \o s>>
    BY <1>2, <2>1 DEF Then, NoString
  <2>3. bytes \o s \in Seq(Nat)
    OBVIOUS
  <2>4. \A t \in Seq(Nat) : <<t>> \in ReadStrings
    BY DEF ReadStrings
  <2> QED BY <2>2, <2>3, <2>4
<1> QED BY <1>1, <1>2

LEMMA StringTurnFacts ==
  ASSUME NEW view \in Seq(Nat), NEW i \in 1 .. Len(view) + 1,
         NEW f \in [1 .. Len(view) + 1 -> ReadStrings]
  PROVE  /\ StringTurn(view, i, f) \in ReadStrings
         /\ \A g : (\A j \in 1 .. Len(view) + 1 : i < j => g[j] = f[j]) =>
              StringTurn(view, i, g) = StringTurn(view, i, f)
<1> DEFINE size == Len(view)
           escaped == i < size - 2 /\ view[i + 1] \notin Control
           digits == SubSeq(view, i + 2, i + 5)
           Plain == ~(i > size) /\ view[i] \notin Control /\ view[i] # Quote
           Short == escaped /\ view[i + 1] \in DOMAIN Unescapes
           Long == escaped /\ view[i + 1] = LetterU /\ i + 6 < size
                     /\ \A k \in i + 2 .. i + 5 : IsHex(view[k])
<1>1. size \in Nat /\ <<>> \in ReadStrings /\ <<(<<>>)>> \in ReadStrings
  <2>1. \A t \in Seq(Nat) : <<t>> \in ReadStrings
    BY DEF ReadStrings
  <2>2. <<>> \in Seq(Nat)
    OBVIOUS
  <2>3. <<>> \in ReadStrings
    BY DEF ReadStrings
  <2>4. <<(<<>>)>> \in ReadStrings
    BY <2>1, <2>2, Zenon
  <2>5. size \in Nat
    OBVIOUS
  <2> QED BY <2>3, <2>4, <2>5, Zenon
<1>2. CASE ~Plain
  BY <1>1, <1>2 DEF StringTurn, NoString
<1>3. CASE Plain /\ view[i] # Backslash
  <2>1. i + 1 \in 1 .. size + 1 /\ i < i + 1 /\ view[i] \in Nat
    BY <1>1, <1>3
  <2>2. \A g : StringTurn(view, i, g) = Then(<<view[i]>>, g[i + 1])
    BY <1>3 DEF StringTurn
  <2>3. Then(<<view[i]>>, f[i + 1]) \in ReadStrings
    <3>1. <<view[i]>> \in Seq(Nat) /\ f[i + 1] \in ReadStrings
      BY <2>1
    <3> QED BY <3>1, ThenFacts
  <2> QED BY <2>1, <2>2, <2>3
<1>4. CASE Plain /\ view[i] = Backslash /\ Short
  <2>1. i + 2 \in 1 .. size + 1 /\ i < i + 2
    BY <1>1, <1>4
  <2>2. \A g : StringTurn(view, i, g) = Then(<<Unescapes[view[i + 1]]>>, g[i + 2])
    BY <1>4 DEF StringTurn
  <2>3. Unescapes[view[i + 1]] \in Nat
    BY <1>4, EscapeFacts
  <2>4. Then(<<Unescapes[view[i + 1]]>>, f[i + 2]) \in ReadStrings
    <3>1. <<Unescapes[view[i + 1]]>> \in Seq(Nat) /\ f[i + 2] \in ReadStrings
      BY <2>1, <2>3
    <3> QED BY <3>1, ThenFacts
  <2> QED BY <2>1, <2>2, <2>4
<1>5. CASE Plain /\ view[i] = Backslash /\ ~Short /\ Long
  <2>1. i + 6 \in 1 .. size + 1 /\ i < i + 6 /\ i + 2 \in 1 .. size /\ i + 5 \in 1 .. size
    <3>1. i + 6 < size /\ i \in Nat \ {0}
      BY <1>1, <1>5
    <3> HIDE DEF size
    <3> QED BY <1>1, <3>1
  <2>2. \A g : StringTurn(view, i, g) = Then(fromUnicode(unicodeToWchar(digits)), g[i + 6])
    BY <1>5 DEF StringTurn
  <2>3. \A k \in 1 .. 4 : IsHex(digits[k])
    <3>1. ASSUME NEW k \in 1 .. 4 PROVE IsHex(digits[k])
      <4>1. i + 1 + k \in i + 2 .. i + 5 /\ k \in 1 .. (i + 5) - (i + 2) + 1
        OBVIOUS
      <4>2. digits[k] = view[(i + 2) + k - 1]
        <5>1. i + 2 \in 1 .. Len(view) + 1 /\ i + 5 \in (i + 2) - 1 .. Len(view)
          BY <2>1
        <5> QED BY <4>1, <5>1, SubSeqProperties DEF digits
      <4>3. (i + 2) + k - 1 = i + 1 + k
        OBVIOUS
      <4> QED BY <1>5, <4>1, <4>2, <4>3
    <3> QED BY <3>1
  <2>4. fromUnicode(unicodeToWchar(digits)) \in Seq(Nat)
    BY <2>3, BytesOfDigits
  <2>5. Then(fromUnicode(unicodeToWchar(digits)), f[i + 6]) \in ReadStrings
    <3>1. f[i + 6] \in ReadStrings
      BY <2>1
    <3> QED BY <2>4, <3>1, ThenFacts
  <2> HIDE DEF digits
  <2> QED BY <2>1, <2>2, <2>5
<1>6. CASE Plain /\ view[i] = Backslash /\ ~Short /\ ~Long
  BY <1>1, <1>6 DEF StringTurn, NoString
<1> QED BY <1>2, <1>3, <1>4, <1>5, <1>6

LEMMA StringFromFacts ==
  ASSUME NEW view \in Seq(Nat), NEW i \in 1 .. Len(view) + 1
  PROVE  stringFrom(view)[i] = StringTurn(view, i, stringFrom(view))
<1> DEFINE n == Len(view)
           I == 1 .. n + 1
           V == ReadStrings
           Eq(f) == f = [k \in 1 .. Len(view) + 1 |-> StringTurn(view, k, f)]
           rank == [k \in I |-> n + 1 - k]
           turn == [k \in I |-> [f \in [I -> V] |-> StringTurn(view, k, f)]]
<1>1. n \in Nat /\ V # {} /\ rank \in [I -> 0 .. n]
  BY DEF ReadStrings
<1>2. turn \in [I -> [[I -> V] -> V]]
  BY StringTurnFacts
<1>3. ASSUME NEW k \in I, NEW f \in [I -> V], NEW g \in [I -> V],
             \A j \in I : rank[j] < rank[k] => f[j] = g[j]
      PROVE  turn[k][f] = turn[k][g]
  <2>1. \A j \in I : k < j => f[j] = g[j]
    BY <1>1, <1>3
  <2>2. StringTurn(view, k, f) = StringTurn(view, k, g)
    BY <2>1, StringTurnFacts
  <2> QED BY <2>2
<1>4. \E f \in [I -> V] : \A k \in I : f[k] = turn[k][f]
  <2> HIDE DEF rank, turn, V, I, n
  <2>1. Recursion(I, V, n, rank, turn)
    BY <1>1, <1>2, <1>3 DEF Recursion
  <2> QED BY <2>1, RecursionExists
<1>5. \E f : Eq(f)
  <2>1. PICK f \in [I -> V] : \A k \in I : f[k] = turn[k][f]
    BY <1>4
  <2>2. Eq(f)
    BY <2>1
  <2> QED BY <2>2
<1>6. stringFrom(view) = CHOOSE f : Eq(f)
  BY Zenon DEF stringFrom
<1>7. Eq(CHOOSE f : Eq(f))
  BY <1>5, Zenon
<1> DEFINE from == CHOOSE f : Eq(f)
<1> HIDE DEF from
<1>8. from = [k \in 1 .. Len(view) + 1 |-> StringTurn(view, k, from)]
  BY <1>7 DEF from
<1>9. stringFrom(view) = from
  BY <1>6 DEF from
<1> HIDE DEF Eq
<1> QED BY <1>8, <1>9

\* A string between its quotes, with the end of the array behind it.
Quoted(string) == <<Quote>> \o string \o <<Quote>> \o EndOfArray

\* Where the characters of a string are between its quotes.
LEMMA QuotedFacts ==
  ASSUME NEW string \in Seq(Nat)
  PROVE  /\ Quoted(string) \in Seq(Nat) /\ Len(Quoted(string)) = Len(string) + 4
         /\ \A j \in 1 .. Len(string) : Quoted(string)[j + 1] = string[j]
         /\ Quoted(string)[Len(string) + 2] = Quote
<1>1. <<Quote>> \in Seq(Nat) /\ EndOfArray \in Seq(Nat) /\ Len(EndOfArray) = 2
  BY DEF Quote, EndOfArray
<1> DEFINE a == <<Quote>> \o string
           b == a \o <<Quote>>
           c == b \o EndOfArray
<1>2. /\ a \in Seq(Nat) /\ Len(a) = Len(string) + 1 /\ Len(string) \in Nat
      /\ \A j \in 1 .. Len(string) : a[j + 1] = string[j]
  BY <1>1
<1> HIDE DEF a
<1>3. /\ b \in Seq(Nat) /\ Len(b) = Len(a) + 1
      /\ \A j \in 1 .. Len(a) : b[j] = a[j]
      /\ b[Len(a) + 1] = Quote
  BY <1>1, <1>2
<1> HIDE DEF b
<1>4. /\ c \in Seq(Nat) /\ Len(c) = Len(b) + 2
      /\ \A j \in 1 .. Len(b) : c[j] = b[j]
  <2>1. b \in Seq(Nat) /\ EndOfArray \in Seq(Nat) /\ Len(EndOfArray) = 2
    BY <1>1, <1>3
  <2>2. b \o EndOfArray \in Seq(Nat)
    BY <2>1, ConcatFacts
  <2>3. Len(b \o EndOfArray) = Len(b) + Len(EndOfArray)
    BY <2>1, ConcatFacts
  <2>4. \A j \in 1 .. Len(b) : (b \o EndOfArray)[j] = b[j]
    BY <2>1, ConcatFacts
  <2> QED BY <2>1, <2>2, <2>3, <2>4
<1>5. Quoted(string) = c
  BY DEF Quoted, a, b
<1> HIDE DEF c
<1>6. c[Len(string) + 2] = Quote
  <2>1. Len(a) + 1 = Len(string) + 2 /\ Len(a) + 1 \in 1 .. Len(b)
    BY <1>2, <1>3
  <2>2. c[Len(a) + 1] = b[Len(a) + 1]
    BY <1>4, <2>1
  <2> QED BY <1>3, <2>1, <2>2
<1>7. ASSUME NEW j \in 1 .. Len(string) PROVE c[j + 1] = string[j]
  <2>1. j + 1 \in 1 .. Len(a) /\ j + 1 \in 1 .. Len(b)
    BY <1>2, <1>3
  <2> QED BY <1>2, <1>3, <1>4, <2>1
<1> QED BY <1>2, <1>3, <1>4, <1>5, <1>6, <1>7

\* If the loop of parseString makes out[k] of the k-th piece of the text between the
\* quotes, then the string that is read is what these make together, and there is
\* none if one of the pieces is bad.
Reading(pieces, place, text, out, whole, Bad) ==
  LET from == stringFrom(Quoted(text))
  IN \A k \in 1 .. Len(pieces) :
       from[place[k - 1] + 2] = IF k \in Bad THEN NoString ELSE Then(out[k], from[place[k] + 2])

\* A text whose pieces are read one by one is read as a whole.
LEMMA ReadsPieces ==
  ASSUME NEW pieces, NEW text \in Seq(Nat), Len(pieces) \in Nat,
         NEW place, IsPlace(place, pieces, text),
         NEW out, Len(out) = Len(pieces), \A k \in 1 .. Len(pieces) : out[k] \in Seq(Nat),
         NEW whole \in Seq(Nat), NEW q, IsPlace(q, out, whole), NEW Bad,
         Reading(pieces, place, text, out, whole, Bad)
  PROVE  parseString(Quoted(text)) =
           IF Bad \cap (1 .. Len(pieces)) = {} THEN <<whole>> ELSE NoString
<1> DEFINE n == Len(pieces)
           from == stringFrom(Quoted(text))
           g == [k \in 0 .. n |-> from[place[k] + 2]]
<1>1. /\ Quoted(text) \in Seq(Nat) /\ Len(Quoted(text)) = Len(text) + 4
      /\ Quoted(text)[Len(text) + 2] = Quote /\ Len(text) \in Nat
  BY QuotedFacts
<1>2. n \in Nat /\ place[0] = 0 /\ place[n] = Len(text)
  BY DEF IsPlace
<1>3. from[Len(text) + 2] = <<(<<>>)>>
  <2>1. Len(text) + 2 \in 1 .. Len(Quoted(text)) + 1 /\ ~(Len(text) + 2 > Len(Quoted(text)))
    BY <1>1
  <2>2. from[Len(text) + 2] = StringTurn(Quoted(text), Len(text) + 2, from)
    BY <1>1, <2>1, StringFromFacts
  <2> HIDE DEF from
  <2>3. Quote \notin Control
    BY DEF Quote, Control
  <2> QED BY <1>1, <2>1, <2>2, <2>3 DEF StringTurn
<1>4. \A k \in 1 .. n : g[k - 1] = IF k \in Bad THEN NoString ELSE Then(out[k], g[k])
  <2>1. \A k \in 1 .. n : k - 1 \in 0 .. n /\ k \in 0 .. n
    BY <1>2
  <2> QED BY <2>1 DEF Reading
<1>5. g[n] = <<(<<>>)>> /\ g[0] = from[2]
  <2> HIDE DEF from
  <2>1. n \in 0 .. n /\ 0 \in 0 .. n
    BY <1>2
  <2>2. g[n] = from[place[n] + 2] /\ g[0] = from[place[0] + 2]
    BY <2>1
  <2> HIDE DEF g
  <2> QED BY <1>2, <1>3, <2>2
<1>6. parseString(Quoted(text)) = from[2]
  BY <1>1 DEF parseString
<1> HIDE DEF g, from
<1>7. g[0] = IF Bad \cap (1 .. n) = {} THEN <<whole>> ELSE NoString
  <2> HIDE DEF n
  <2>1. n = Len(out) /\ \A k \in 1 .. n : out[k] \in Seq(Nat)
    BY DEF n
  <2>2. Backwards(Nat, n, out, whole, q, Bad, g)
    BY <1>2, <1>4, <1>5, <2>1 DEF Backwards
  <2> QED BY <2>2, ReadBackwards
<1> QED BY <1>5, <1>6, <1>7

\* The characters of a string lie one behind the other.
LEMMA UnitPlaces ==
  ASSUME NEW X, NEW string \in Seq(X)
  PROVE  IsPlace([k \in 0 .. Len(string) |-> k], [k \in 1 .. Len(string) |-> <<string[k]>>], string)
BY DEF IsPlace

\* Where a piece of the text between the quotes is in the whole text.
PieceOf(view, i, piece, next) ==
  /\ view \in Seq(Nat) /\ i \in 1 .. Len(view)
  /\ piece \in Seq(Nat) /\ next = i + Len(piece) /\ next <= Len(view) - 2
  /\ \A j \in 1 .. Len(piece) : view[i + j - 1] = piece[j]

\* A piece of a string is a piece of the text with the quotes.
LEMMA PieceQuoted ==
  ASSUME NEW text \in Seq(Nat), NEW piece \in Seq(Nat), NEW p \in Nat, NEW r \in Nat,
         r = p + Len(piece), r <= Len(text), \A j \in 1 .. Len(piece) : text[p + j] = piece[j]
  PROVE  PieceOf(Quoted(text), p + 2, piece, r + 2)
<1> DEFINE view == Quoted(text)
<1>1. /\ view \in Seq(Nat) /\ Len(view) = Len(text) + 4
      /\ \A j \in 1 .. Len(text) : view[j + 1] = text[j]
  BY QuotedFacts
<1>2. Len(piece) \in Nat /\ Len(text) \in Nat
  OBVIOUS
<1> HIDE DEF view
<1>3. ASSUME NEW j \in 1 .. Len(piece) PROVE view[(p + 2) + j - 1] = piece[j]
  <2> DEFINE n == Len(piece)
             m == Len(text)
  <2>0. n \in Nat /\ m \in Nat /\ r = p + n /\ r <= m /\ j \in Nat /\ 1 <= j /\ j <= n
    BY <1>2
  <2>1. p + j \in 1 .. Len(text) /\ (p + 2) + j - 1 = (p + j) + 1
    <3> HIDE DEF n, m
    <3>1. p + j \in 1 .. m /\ (p + 2) + j - 1 = (p + j) + 1
      BY <2>0
    <3> QED BY <3>1 DEF m
  <2>2. view[(p + j) + 1] = text[p + j]
    BY <1>1, <2>1
  <2>3. text[p + j] = piece[j]
    OBVIOUS
  <2> QED BY <2>1, <2>2, <2>3
<1>4. p + 2 \in 1 .. Len(view) /\ r + 2 = (p + 2) + Len(piece) /\ r + 2 <= Len(view) - 2
  BY <1>1, <1>2
<1>5. PieceOf(view, p + 2, piece, r + 2)
  BY <1>1, <1>3, <1>4 DEF PieceOf
<1> QED BY <1>5 DEF view

\* The k-th piece of a string, with its quotes around.
LEMMA PieceAt ==
  ASSUME NEW pieces, Len(pieces) \in Nat, NEW text \in Seq(Nat), NEW place, IsPlace(place, pieces, text),
         NEW k \in 1 .. Len(pieces), pieces[k] \in Seq(Nat)
  PROVE  PieceOf(Quoted(text), place[k - 1] + 2, pieces[k], place[k] + 2)
<1>1. k - 1 \in 0 .. Len(pieces) /\ k \in 0 .. Len(pieces)
  OBVIOUS
<1>2. /\ place[k - 1] \in Nat /\ place[k] \in Nat /\ place[k] = place[k - 1] + Len(pieces[k])
      /\ place[k] <= Len(text)
      /\ \A j \in 1 .. Len(pieces[k]) : text[place[k - 1] + j] = pieces[k][j]
  BY <1>1 DEF IsPlace
<1> QED BY <1>2, PieceQuoted

\* What dumpString prints for a character, and what parseString makes of it.
DumpedChar(c) == IF c \in DOMAIN Escapes THEN <<Backslash, Escapes[c]>> ELSE <<c>>

\* parseString takes what dumpString printed for a character as that character.
LEMMA DumpedTurn ==
  ASSUME NEW c \in Nat, NEW view, NEW i, NEW next, PieceOf(view, i, DumpedChar(c), next), NEW from
  PROVE  StringTurn(view, i, from) =
           IF c \in Control \ DOMAIN Escapes THEN NoString ELSE Then(<<c>>, from[next])
<1>1. Len(view) \in Nat /\ i \in 1 .. Len(view) /\ ~(i > Len(view))
  BY DEF PieceOf
<1>2. CASE c \in DOMAIN Escapes
  <2>1. /\ Escapes[c] \in DOMAIN Unescapes /\ Unescapes[Escapes[c]] = c
        /\ Escapes[c] \in Nat /\ Escapes[c] \notin Control
    BY <1>2, EscapeFacts
  <2>2. Backslash \notin Control /\ Backslash # Quote /\ Backslash \in Nat
    BY DEF Control, Backslash, Quote
  <2> DEFINE e == Escapes[c]
  <2> HIDE DEF e
  <2>3. DumpedChar(c) = <<Backslash, e>> /\ e \in Nat
    BY <1>2, <2>1 DEF DumpedChar, e
  <2>4. /\ view[i + 1 - 1] = Backslash /\ view[i + 2 - 1] = e /\ next = i + 2 /\ next <= Len(view) - 2
    BY <2>2, <2>3 DEF PieceOf
  <2>5. view[i] = Backslash /\ view[i + 1] = e /\ i < Len(view) - 2
    <3>1. i + 1 - 1 = i /\ i + 2 - 1 = i + 1
      BY <1>1
    <3> QED BY <1>1, <2>4, <3>1
  <2>6. e \in DOMAIN Unescapes /\ Unescapes[e] = c /\ e \notin Control
    BY <2>1 DEF e
  <2>7. StringTurn(view, i, from) = Then(<<Unescapes[e]>>, from[i + 2])
    BY <1>1, <2>2, <2>5, <2>6 DEF StringTurn
  <2>8. ~(c \in Control \ DOMAIN Escapes)
    BY <1>2
  <2> QED BY <2>4, <2>6, <2>7, <2>8
<1>3. CASE c \notin DOMAIN Escapes
  <2>1. c # Backslash /\ c # Quote
    BY <1>3, EscapeFacts DEF Backslash, Quote
  <2>2. DumpedChar(c) = <<c>>
    BY <1>3 DEF DumpedChar
  <2>3. view[i + 1 - 1] = c /\ next = i + 1
    BY <2>2 DEF PieceOf
  <2>4. view[i] = c
    <3>1. i + 1 - 1 = i
      BY <1>1
    <3> QED BY <2>3, <3>1
  <2> QED BY <1>1, <1>3, <2>1, <2>3, <2>4 DEF StringTurn
<1> QED BY <1>2, <1>3

\* parseString takes four digits as the bytes of the character.
LEMMA EscapedTurn ==
  ASSUME NEW u \in Nat, u < 65536, NEW view, NEW i, NEW next, PieceOf(view, i, Escaped(u), next), NEW from
  PROVE  StringTurn(view, i, from) = Then(fromUnicode(u), from[next])
<1>0. Spells(Escaped(u), u)
  BY FourDigits
<1> DEFINE p == Escaped(u)
           digits == SubSeq(view, i + 2, i + 5)
<1>1. PieceOf(view, i, p, next)
  OBVIOUS
<1>2. /\ p \in Seq(Nat) /\ Len(p) = 6 /\ p[1] = Backslash /\ p[2] = LetterU
      /\ \A k \in 3 .. 6 : IsHex(p[k])
      /\ unicodeToWchar(<<p[3], p[4], p[5], p[6]>>) = u
  <2>1. Spells(p, u)
    BY <1>0
  <2> HIDE DEF p
  <2> QED BY <2>1 DEF Spells
<1> HIDE DEF p, digits
<1>3. \A j \in 1 .. 6 : j \in 1 .. Len(p)
  BY <1>2
<1>4. view \in Seq(Nat) /\ Len(view) \in Nat /\ i \in 1 .. Len(view) /\ i \in Nat
  BY <1>1 DEF PieceOf
<1>5. next = i + 6 /\ next <= Len(view) - 2
  <2>1. next = i + Len(p) /\ next <= Len(view) - 2
    BY <1>1 DEF PieceOf
  <2>2. Len(p) = 6
    BY <1>2
  <2> QED BY <2>1, <2>2
<1>6. ASSUME NEW j \in 1 .. 6 PROVE view[i + j - 1] = p[j]
  <2>1. \A k \in 1 .. Len(p) : view[i + k - 1] = p[k]
    BY <1>1 DEF PieceOf
  <2> QED BY <1>3, <2>1
<1>7. /\ view[i] = p[1] /\ view[i + 1] = p[2] /\ view[i + 2] = p[3] /\ view[i + 3] = p[4]
      /\ view[i + 4] = p[5] /\ view[i + 5] = p[6]
  <2>1. /\ i + 1 - 1 = i /\ i + 2 - 1 = i + 1 /\ i + 3 - 1 = i + 2 /\ i + 4 - 1 = i + 3
        /\ i + 5 - 1 = i + 4 /\ i + 6 - 1 = i + 5
    BY <1>4
  <2>2. /\ view[i + 1 - 1] = p[1] /\ view[i + 2 - 1] = p[2] /\ view[i + 3 - 1] = p[3]
        /\ view[i + 4 - 1] = p[4] /\ view[i + 5 - 1] = p[5] /\ view[i + 6 - 1] = p[6]
    BY <1>6
  <2> QED BY <2>1, <2>2
<1>8. ASSUME NEW k \in i + 2 .. i + 5 PROVE IsHex(view[k])
  <2>1. k = i + 2 \/ k = i + 3 \/ k = i + 4 \/ k = i + 5
    BY <1>4
  <2>2. IsHex(p[3]) /\ IsHex(p[4]) /\ IsHex(p[5]) /\ IsHex(p[6])
    BY <1>2
  <2> QED BY <1>7, <2>1, <2>2
<1>10. digits[1] = view[i + 2] /\ digits[2] = view[i + 3] /\ digits[3] = view[i + 4] /\ digits[4] = view[i + 5]
  <2>1. i + 2 \in 1 .. Len(view) + 1 /\ i + 5 \in (i + 2) - 1 .. Len(view)
    BY <1>4, <1>5
  <2>2. \A k \in 1 .. (i + 5) - (i + 2) + 1 : digits[k] = view[(i + 2) + k - 1]
    BY <1>4, <2>1, SubSeqProperties DEF digits
  <2>3. /\ (i + 5) - (i + 2) + 1 = 4 /\ (i + 2) + 1 - 1 = i + 2 /\ (i + 2) + 2 - 1 = i + 3
        /\ (i + 2) + 3 - 1 = i + 4 /\ (i + 2) + 4 - 1 = i + 5
    BY <1>4
  <2>4. 1 \in 1 .. 4 /\ 2 \in 1 .. 4 /\ 3 \in 1 .. 4 /\ 4 \in 1 .. 4
    OBVIOUS
  <2> QED BY <2>2, <2>3, <2>4
<1>11. unicodeToWchar(digits) = u
  BY <1>2, <1>7, <1>10 DEF unicodeToWchar
<1>12. i < Len(view) - 2 /\ i + 6 < Len(view) /\ ~(i > Len(view))
  BY <1>4, <1>5
<1>13. /\ Backslash \notin Control /\ Backslash # Quote /\ LetterU \notin Control
       /\ LetterU \notin DOMAIN Unescapes
  <2>1. LetterU \notin DOMAIN Unescapes
    BY EscapeFacts
  <2> QED BY <2>1 DEF Control, Backslash, Quote, LetterU
<1>14. StringTurn(view, i, from) = Then(fromUnicode(unicodeToWchar(digits)), from[i + 6])
  BY <1>2, <1>7, <1>8, <1>12, <1>13 DEF StringTurn, digits
<1> QED BY <1>5, <1>11, <1>14

\* A string that was dumped, with the pieces it was put together of.
LEMMA DumpedPieces ==
  ASSUME NEW string \in Seq(Nat), NEW pieces, Len(pieces) = Len(string),
         \A k \in 1 .. Len(string) : pieces[k] = DumpedChar(string[k]) /\ pieces[k] \in Seq(Nat),
         NEW text \in Seq(Nat), NEW place, IsPlace(place, pieces, text)
  PROVE  parseString(Quoted(text)) =
           IF {k \in 1 .. Len(string) : string[k] \in Control \ DOMAIN Escapes} = {}
           THEN <<string>> ELSE NoString
<1> DEFINE Bad == {k \in 1 .. Len(string) : string[k] \in Control \ DOMAIN Escapes}
           out == [k \in 1 .. Len(string) |-> <<string[k]>>]
           q == [k \in 0 .. Len(string) |-> k]
           from == stringFrom(Quoted(text))
<1>1. Len(string) \in Nat /\ Len(pieces) \in Nat /\ \A k \in 1 .. Len(string) : string[k] \in Nat
  OBVIOUS
<1>2. /\ IsPlace(q, out, string) /\ Len(out) = Len(pieces)
      /\ \A k \in 1 .. Len(string) : out[k] = <<string[k]>> /\ out[k] \in Seq(Nat)
  <2>1. IsPlace(q, out, string)
    BY UnitPlaces
  <2> QED BY <1>1, <2>1
<1>3. \A k \in 1 .. Len(string) : k \in Bad <=> string[k] \in Control \ DOMAIN Escapes
  OBVIOUS
<1>4. Bad \cap (1 .. Len(pieces)) = Bad
  BY <1>1
<1> HIDE DEF Bad, out, q, from
<1>5. ASSUME NEW k \in 1 .. Len(string)
      PROVE  from[place[k - 1] + 2] = IF k \in Bad THEN NoString ELSE Then(out[k], from[place[k] + 2])
  <2>1. PieceOf(Quoted(text), place[k - 1] + 2, DumpedChar(string[k]), place[k] + 2)
    BY PieceAt
  <2>2. from[place[k - 1] + 2] = StringTurn(Quoted(text), place[k - 1] + 2, from)
    <3>1. Quoted(text) \in Seq(Nat) /\ place[k - 1] + 2 \in 1 .. Len(Quoted(text))
      BY <2>1 DEF PieceOf
    <3> QED BY <3>1, StringFromFacts DEF from
  <2>3. StringTurn(Quoted(text), place[k - 1] + 2, from) =
          IF string[k] \in Control \ DOMAIN Escapes THEN NoString ELSE Then(<<string[k]>>, from[place[k] + 2])
    BY <1>1, <2>1, DumpedTurn
  <2> QED BY <1>2, <1>3, <2>2, <2>3
<1>6. Reading(pieces, place, text, out, string, Bad)
  BY <1>5 DEF Reading, from
<1>7. parseString(Quoted(text)) = IF Bad \cap (1 .. Len(pieces)) = {} THEN <<string>> ELSE NoString
  <2>1. \A k \in 1 .. Len(pieces) : out[k] \in Seq(Nat)
    BY <1>2
  <2> QED BY <1>1, <1>2, <1>6, <2>1, ReadsPieces
<1> QED BY <1>4, <1>7 DEF Bad

\* parseString reads every string that dumpString prints, byte for byte, unless it has
\* a control character that is not escaped.
LEMMA DumpedIsRead ==
  ASSUME NEW string \in Seq(Nat)
  PROVE  parseString(dumpString(string) \o EndOfArray) =
           IF ToSet(string) \cap (Control \ DOMAIN Escapes) # {} THEN NoString ELSE <<string>>
<1> DEFINE pieces == [i \in DOMAIN string |-> IF string[i] \in DOMAIN Escapes
                                              THEN <<Backslash, Escapes[string[i]]>>
                                              ELSE <<string[i]>>]
           text == FlattenSeq(pieces)
<1>1. dumpString(string) \o EndOfArray = Quoted(text)
  BY DEF dumpString, Quoted
<1>2. pieces = [k \in 1 .. Len(string) |-> DumpedChar(string[k])]
  BY DEF DumpedChar
<1> HIDE DEF pieces
<1>3. ASSUME NEW c \in Nat PROVE DumpedChar(c) \in Seq(Nat)
  <2>1. CASE c \in DOMAIN Escapes
    <3>1. Escapes[c] \in Nat
      BY <2>1, EscapeFacts
    <3> QED BY <2>1, <3>1 DEF DumpedChar, Backslash
  <2>2. CASE c \notin DOMAIN Escapes
    BY <2>2 DEF DumpedChar
  <2> QED BY <2>1, <2>2
<1>4. /\ pieces \in Seq(Seq(Nat)) /\ Len(pieces) = Len(string)
      /\ \A k \in 1 .. Len(string) : pieces[k] = DumpedChar(string[k]) /\ pieces[k] \in Seq(Nat)
  <2>1. \A k \in 1 .. Len(string) : DumpedChar(string[k]) \in Seq(Nat)
    BY <1>3
  <2> QED BY <1>2, <2>1
<1>5. text \in Seq(Nat) /\ \E place : IsPlace(place, pieces, text)
  BY <1>4, FlattenPlaces
<1>6. PICK place : IsPlace(place, pieces, text)
  BY <1>5
<1> HIDE DEF text
<1>7. parseString(Quoted(text)) =
        IF {k \in 1 .. Len(string) : string[k] \in Control \ DOMAIN Escapes} = {}
        THEN <<string>> ELSE NoString
  BY <1>4, <1>5, <1>6, DumpedPieces
<1>8. {k \in 1 .. Len(string) : string[k] \in Control \ DOMAIN Escapes} = {}
        <=> ToSet(string) \cap (Control \ DOMAIN Escapes) = {}
  BY DEF ToSet
<1> QED BY <1>1, <1>7, <1>8

\* A string that was written in \uXXXX is read as the UTF-8 of its characters.
Spelling(string, pieces, text, out, whole) ==
  /\ string \in Seq(Nat) /\ \A k \in 1 .. Len(string) : string[k] < 65536
  /\ Len(pieces) = Len(string)
  /\ \A k \in 1 .. Len(string) : pieces[k] = Escaped(string[k]) /\ pieces[k] \in Seq(Nat)
  /\ text \in Seq(Nat) /\ Len(out) = Len(string)
  /\ \A k \in 1 .. Len(string) : out[k] = fromUnicode(string[k]) /\ out[k] \in Seq(Nat)
  /\ whole \in Seq(Nat)

LEMMA EscapedPieces ==
  ASSUME NEW string, NEW pieces, NEW text, NEW out, NEW whole,
         Spelling(string, pieces, text, out, whole),
         NEW place, IsPlace(place, pieces, text), NEW q, IsPlace(q, out, whole)
  PROVE  parseString(Quoted(text)) = <<whole>>
<1> USE DEF Spelling
<1> DEFINE from == stringFrom(Quoted(text))
<1>1. Len(string) \in Nat /\ \A k \in 1 .. Len(string) : string[k] \in Nat
  OBVIOUS
<1> HIDE DEF from
<1>2. ASSUME NEW k \in 1 .. Len(string)
      PROVE  from[place[k - 1] + 2] = Then(out[k], from[place[k] + 2])
  <2>1. PieceOf(Quoted(text), place[k - 1] + 2, Escaped(string[k]), place[k] + 2)
    BY <1>1, PieceAt
  <2>2. from[place[k - 1] + 2] = StringTurn(Quoted(text), place[k - 1] + 2, from)
    <3>1. Quoted(text) \in Seq(Nat) /\ place[k - 1] + 2 \in 1 .. Len(Quoted(text))
      BY <2>1 DEF PieceOf
    <3> QED BY <3>1, StringFromFacts DEF from
  <2>3. StringTurn(Quoted(text), place[k - 1] + 2, from)
          = Then(fromUnicode(string[k]), from[place[k] + 2])
    BY <1>1, <2>1, EscapedTurn
  <2> QED BY <2>2, <2>3
<1>3. Reading(pieces, place, text, out, whole, {})
  BY <1>2 DEF Reading, from
<1>4. parseString(Quoted(text)) = IF {} \cap (1 .. Len(pieces)) = {} THEN <<whole>> ELSE NoString
  <2>1. /\ \A k \in 1 .. Len(pieces) : out[k] \in Seq(Nat)
        /\ Len(pieces) \in Nat /\ Len(out) = Len(pieces)
    BY <1>1
  <2> QED BY <1>3, <2>1, ReadsPieces
<1>5. {} \cap (1 .. Len(pieces)) = {}
  OBVIOUS
<1> QED BY <1>4, <1>5

\* What Decoded takes for a character at each position.
DecodesOne(bytes, i, width, point) ==
  /\ i + width \in 1 .. Len(bytes) + 1 /\ i < i + width /\ point \in Int
  /\ \A g : DecodeTurn(bytes, i, g) = <<point>> \o g[i + width]

\* What Decoded makes of bytes is a number.
LEMMA PointFacts ==
  ASSUME NEW a \in Nat, NEW b \in Nat, NEW c \in Nat
  PROVE  TwoBytes(a, b) \in Int /\ ThreeBytes(a, b, c) \in Int
BY DEF TwoBytes, ThreeBytes

\* It goes on behind a character, or stops.
LEMMA DecodeTurnCases ==
  ASSUME NEW bytes \in Seq(Nat), NEW i \in 1 .. Len(bytes) + 1
  PROVE  \/ \A g : DecodeTurn(bytes, i, g) = <<>>
         \/ \E width, point : DecodesOne(bytes, i, width, point)
<1>1. Len(bytes) \in Nat /\ i \in Nat
  OBVIOUS
<1>2. CASE i > Len(bytes)
  BY <1>2 DEF DecodeTurn
<1>3. CASE i <= Len(bytes) /\ bytes[i] < 128
  <2>1. i + 1 \in 1 .. Len(bytes) + 1 /\ i < i + 1 /\ bytes[i] \in Int /\ ~(i > Len(bytes))
    BY <1>1, <1>3
  <2>2. DecodesOne(bytes, i, 1, bytes[i])
    BY <1>3, <2>1 DEF DecodeTurn, DecodesOne
  <2> QED BY <2>2
<1>4. CASE i < Len(bytes) /\ ~(bytes[i] < 128) /\ bytes[i] < 224
  <2>1. /\ i + 2 \in 1 .. Len(bytes) + 1 /\ i < i + 2 /\ ~(i > Len(bytes))
        /\ bytes[i] \in Nat /\ bytes[i + 1] \in Nat
    BY <1>1, <1>4
  <2>2. TwoBytes(bytes[i], bytes[i + 1]) \in Int
    BY <2>1, PointFacts
  <2>3. \A g : DecodeTurn(bytes, i, g) = <<TwoBytes(bytes[i], bytes[i + 1])>> \o g[i + 2]
    BY <1>4, <2>1 DEF DecodeTurn
  <2>4. DecodesOne(bytes, i, 2, TwoBytes(bytes[i], bytes[i + 1]))
    BY <2>1, <2>2, <2>3 DEF DecodesOne
  <2> QED BY <2>4
<1>5. CASE i + 1 < Len(bytes) /\ ~(bytes[i] < 128) /\ ~(bytes[i] < 224)
  <2> DEFINE p == ThreeBytes(bytes[i], bytes[i + 1], bytes[i + 2])
  <2>1. /\ i + 3 \in 1 .. Len(bytes) + 1 /\ i < i + 3 /\ ~(i > Len(bytes))
        /\ bytes[i] \in Nat /\ bytes[i + 1] \in Nat /\ bytes[i + 2] \in Nat
    BY <1>1, <1>5
  <2>2. p \in Int
    BY <2>1, PointFacts
  <2>3. \A g : DecodeTurn(bytes, i, g) = <<p>> \o g[i + 3]
    BY <1>5, <2>1 DEF DecodeTurn
  <2> HIDE DEF p
  <2>4. DecodesOne(bytes, i, 3, p)
    BY <2>1, <2>2, <2>3 DEF DecodesOne
  <2> QED BY <2>4
<1>6. CASE /\ i <= Len(bytes) /\ ~(bytes[i] < 128)
           /\ ~(i < Len(bytes) /\ bytes[i] < 224) /\ ~(i + 1 < Len(bytes) /\ ~(bytes[i] < 224))
  <2>1. ~(i > Len(bytes)) /\ ~(bytes[i] < 224 /\ i < Len(bytes)) /\ ~(i + 1 < Len(bytes))
    BY <1>1, <1>6
  <2>2. \A g : DecodeTurn(bytes, i, g) = <<>>
    BY <1>6, <2>1 DEF DecodeTurn
  <2> QED BY <2>2
<1> QED BY <1>1, <1>2, <1>3, <1>4, <1>5, <1>6

\* It takes what is decoded at the later positions only.
LEMMA DecodeTurnFacts ==
  ASSUME NEW bytes \in Seq(Nat), NEW i \in 1 .. Len(bytes) + 1,
         NEW f \in [1 .. Len(bytes) + 1 -> Seq(Int)]
  PROVE  /\ DecodeTurn(bytes, i, f) \in Seq(Int)
         /\ \A g : (\A j \in 1 .. Len(bytes) + 1 : i < j => g[j] = f[j]) =>
              DecodeTurn(bytes, i, g) = DecodeTurn(bytes, i, f)
<1>1. CASE \A g : DecodeTurn(bytes, i, g) = <<>>
  <2>1. <<>> \in Seq(Int)
    OBVIOUS
  <2> QED BY <1>1, <2>1
<1>2. CASE \E width, point : DecodesOne(bytes, i, width, point)
  <2>1. PICK width, point : DecodesOne(bytes, i, width, point)
    BY <1>2
  <2> DEFINE next == i + width
  <2>2. /\ next \in 1 .. Len(bytes) + 1 /\ i < next /\ point \in Int
        /\ \A g : DecodeTurn(bytes, i, g) = <<point>> \o g[next]
    BY <2>1 DEF DecodesOne
  <2> HIDE DEF next
  <2>3. f[next] \in Seq(Int)
    BY <2>2
  <2>4. <<point>> \o f[next] \in Seq(Int)
    <3>1. <<point>> \in Seq(Int)
      BY <2>2
    <3> HIDE <2>2
    <3> QED BY <2>3, <3>1
  <2> QED BY <2>2, <2>4
<1> QED BY <1>1, <1>2, DecodeTurnCases

\* The bytes of a character are somewhere in a text.
CharacterAt(bytes, i, next, piece, u) ==
  /\ bytes \in Seq(Nat) /\ i \in Nat \ {0} /\ IsUtf8(piece, u)
  /\ next = i + Len(piece) /\ next <= Len(bytes) + 1
  /\ \A j \in 1 .. Len(piece) : bytes[i + j - 1] = piece[j]

\* Decoded takes the bytes of a character for it.
LEMMA DecodesCharacter ==
  ASSUME NEW u, NEW bytes, NEW i, NEW next, NEW piece, CharacterAt(bytes, i, next, piece, u),
         NEW from
  PROVE  DecodeTurn(bytes, i, from) = <<u>> \o from[next]
<1>1. Len(bytes) \in Nat /\ Len(piece) \in 1 .. 3 /\ i \in Nat /\ i # 0
  BY DEF CharacterAt, IsUtf8
<1>2. next = i + Len(piece) /\ next <= Len(bytes) + 1
  BY DEF CharacterAt
<1>3. \A j \in 1 .. Len(piece) : bytes[i + j - 1] = piece[j]
  BY DEF CharacterAt
<1>4. IsUtf8(piece, u)
  BY DEF CharacterAt
<1>5. i + 1 - 1 = i /\ i + 2 - 1 = i + 1 /\ i + 3 - 1 = i + 2 /\ ~(i > Len(bytes)) /\ 1 \in 1 .. Len(piece)
  BY <1>1, <1>2
<1>6. bytes[i] = piece[1]
  <2>1. bytes[i + 1 - 1] = piece[1]
    BY <1>3, <1>5
  <2> QED BY <1>5, <2>1
<1>7. CASE Len(piece) = 1
  <2>1. bytes[i] < 128 /\ bytes[i] = u /\ next = i + 1
    BY <1>2, <1>4, <1>6, <1>7 DEF IsUtf8
  <2> QED BY <1>5, <2>1 DEF DecodeTurn
<1>8. CASE Len(piece) = 2
  <2>1. i < Len(bytes) /\ 2 \in 1 .. Len(piece) /\ next = i + 2
    BY <1>1, <1>2, <1>8
  <2>2. bytes[i + 1] = piece[2]
    <3>1. bytes[i + 2 - 1] = piece[2]
      BY <1>3, <2>1
    <3> QED BY <1>5, <3>1
  <2>3. ~(bytes[i] < 128) /\ bytes[i] < 224 /\ TwoBytes(bytes[i], bytes[i + 1]) = u
    BY <1>4, <1>6, <1>8, <2>2 DEF IsUtf8
  <2> QED BY <1>5, <2>1, <2>3 DEF DecodeTurn
<1>9. CASE Len(piece) = 3
  <2>1. i + 1 < Len(bytes) /\ 2 \in 1 .. Len(piece) /\ 3 \in 1 .. Len(piece) /\ next = i + 3
    BY <1>1, <1>2, <1>9
  <2>2. bytes[i + 1] = piece[2] /\ bytes[i + 2] = piece[3]
    <3>1. bytes[i + 2 - 1] = piece[2] /\ bytes[i + 3 - 1] = piece[3]
      BY <1>3, <2>1
    <3> QED BY <1>5, <3>1
  <2>3. /\ ~(bytes[i] < 128) /\ ~(bytes[i] < 224)
        /\ ThreeBytes(bytes[i], bytes[i + 1], bytes[i + 2]) = u
    BY <1>4, <1>6, <1>9, <2>2 DEF IsUtf8
  <2> QED BY <1>5, <2>1, <2>3 DEF DecodeTurn
<1>10. Len(piece) = 1 \/ Len(piece) = 2 \/ Len(piece) = 3
  BY <1>1
<1> QED BY <1>7, <1>8, <1>9, <1>10

\* The recursion that Decoded is defined by.
LEMMA DecodedFacts ==
  ASSUME NEW bytes \in Seq(Nat)
  PROVE  \E from : /\ Decoded(bytes) = from[1]
                   /\ \A i \in 1 .. Len(bytes) + 1 : from[i] = DecodeTurn(bytes, i, from)
<1> DEFINE n == Len(bytes)
           I == 1 .. n + 1
           V == Seq(Int)
           Eq(f) == f = [k \in 1 .. Len(bytes) + 1 |-> DecodeTurn(bytes, k, f)]
           rank == [k \in I |-> n + 1 - k]
           turn == [k \in I |-> [f \in [I -> V] |-> DecodeTurn(bytes, k, f)]]
<1>1. n \in Nat /\ V # {} /\ rank \in [I -> 0 .. n]
  <2>1. n \in Nat
    OBVIOUS
  <2>2. <<>> \in V
    OBVIOUS
  <2> HIDE DEF n, V
  <2> QED BY <2>1, <2>2
<1>2. turn \in [I -> [[I -> V] -> V]]
  BY DecodeTurnFacts
<1>3. ASSUME NEW k \in I, NEW f \in [I -> V], NEW g \in [I -> V],
             \A j \in I : rank[j] < rank[k] => f[j] = g[j]
      PROVE  turn[k][f] = turn[k][g]
  <2>1. \A j \in I : k < j => f[j] = g[j]
    BY <1>1, <1>3
  <2>2. DecodeTurn(bytes, k, f) = DecodeTurn(bytes, k, g)
    BY <2>1, DecodeTurnFacts
  <2> QED BY <2>2
<1>4. \E f \in [I -> V] : \A k \in I : f[k] = turn[k][f]
  <2> HIDE DEF rank, turn, V, I, n
  <2>1. Recursion(I, V, n, rank, turn)
    BY <1>1, <1>2, <1>3 DEF Recursion
  <2> QED BY <2>1, RecursionExists
<1>5. \E f : Eq(f)
  <2>1. PICK f \in [I -> V] : \A k \in I : f[k] = turn[k][f]
    BY <1>4
  <2>2. Eq(f)
    BY <2>1
  <2> QED BY <2>2
<1>6. Decoded(bytes) = (CHOOSE f : Eq(f))[1]
  BY Zenon DEF Decoded
<1>7. Eq(CHOOSE f : Eq(f))
  BY <1>5, Zenon
<1> DEFINE from == CHOOSE f : Eq(f)
<1> HIDE DEF from
<1>8. from = [k \in 1 .. Len(bytes) + 1 |-> DecodeTurn(bytes, k, from)]
  BY <1>7 DEF from
<1>9. Decoded(bytes) = from[1]
  BY <1>6 DEF from
<1> HIDE DEF Eq
<1> QED BY <1>8, <1>9

\* The bytes of one character behind those of another are decoded as both.
LEMMA DecodedPieces ==
  ASSUME NEW string \in Seq(Nat), NEW out, Len(out) = Len(string),
         \A k \in 1 .. Len(string) : IsUtf8(out[k], string[k]),
         NEW whole \in Seq(Nat), NEW q, IsPlace(q, out, whole)
  PROVE  Decoded(whole) = string
<1> DEFINE n == Len(string)
           units == [k \in 1 .. Len(string) |-> <<string[k]>>]
           r == [k \in 0 .. Len(string) |-> k]
<1>1. PICK from : /\ Decoded(whole) = from[1]
                  /\ \A i \in 1 .. Len(whole) + 1 : from[i] = DecodeTurn(whole, i, from)
  BY DecodedFacts
<1>2. /\ n \in Nat /\ Len(whole) \in Nat /\ q \in [0 .. n -> Nat]
      /\ q[0] = 0 /\ q[n] = Len(whole)
  BY DEF IsPlace
<1> DEFINE g == [k \in 0 .. n |-> <<from[q[k] + 1]>>]
<1>3. ASSUME NEW k \in 1 .. n
      PROVE  from[q[k - 1] + 1] = <<string[k]>> \o from[q[k] + 1]
  <2>1. k - 1 \in 0 .. n /\ k \in 0 .. n /\ k \in 1 .. Len(out)
    BY <1>2
  <2>2. /\ q[k - 1] \in Nat /\ q[k] \in Nat /\ q[k] = q[k - 1] + Len(out[k]) /\ q[k] <= Len(whole)
        /\ \A j \in 1 .. Len(out[k]) : whole[q[k - 1] + j] = out[k][j]
    BY <1>2, <2>1 DEF IsPlace
  <2>3. IsUtf8(out[k], string[k])
    OBVIOUS
  <2>4. Len(out[k]) \in 1 .. 3
    BY <2>3 DEF IsUtf8
  <2>5. /\ q[k - 1] + 1 \in Nat \ {0} /\ (q[k - 1] + 1) + Len(out[k]) - 1 <= Len(whole)
        /\ q[k - 1] + 1 \in 1 .. Len(whole) + 1
        /\ (q[k - 1] + 1) + Len(out[k]) = q[k] + 1
    BY <1>2, <2>2, <2>4
  <2>6. ASSUME NEW j \in 1 .. Len(out[k]) PROVE whole[(q[k - 1] + 1) + j - 1] = out[k][j]
    <3>1. (q[k - 1] + 1) + j - 1 = q[k - 1] + j
      BY <2>2, <2>4
    <3> QED BY <2>2, <3>1
  <2>7. CharacterAt(whole, q[k - 1] + 1, q[k] + 1, out[k], string[k])
    BY <1>2, <2>2, <2>3, <2>5, <2>6 DEF CharacterAt
  <2>8. DecodeTurn(whole, q[k - 1] + 1, from) = <<string[k]>> \o from[q[k] + 1]
    <3> HIDE DEF n, units, r, g
    <3> DEFINE b == q[k - 1] + 1
               e == q[k] + 1
               piece == out[k]
               u == string[k]
    <3>1. CharacterAt(whole, b, e, piece, u)
      BY <2>7
    <3> HIDE DEF b, e, piece, u
    <3>2. DecodeTurn(whole, b, from) = <<u>> \o from[e]
      BY <3>1, DecodesCharacter
    <3> QED BY <3>2 DEF b, e, piece, u
  <2> QED BY <1>1, <2>5, <2>8
<1>4. from[Len(whole) + 1] = <<>>
  <2>1. Len(whole) + 1 \in 1 .. Len(whole) + 1 /\ Len(whole) + 1 > Len(whole)
    BY <1>2
  <2> QED BY <1>1, <2>1 DEF DecodeTurn
<1>5. /\ \A k \in 1 .. n : units[k] = <<string[k]>> /\ units[k] \in Seq(Nat)
      /\ n = Len(units) /\ IsPlace(r, units, string)
  <2>1. IsPlace(r, units, string)
    BY UnitPlaces
  <2> QED BY <1>2, <2>1
<1>6. g[n] = <<(<<>>)>> /\ g[0] = <<from[1]>>
  <2>1. n \in 0 .. n /\ 0 \in 0 .. n
    BY <1>2
  <2>2. g[n] = <<from[q[n] + 1]>> /\ g[0] = <<from[q[0] + 1]>>
    BY <2>1
  <2>3. q[0] + 1 = 1
    BY <1>2
  <2> HIDE DEF g
  <2> QED BY <1>2, <1>4, <2>2, <2>3
<1>7. ASSUME NEW k \in 1 .. n PROVE g[k - 1] = Then(units[k], g[k])
  <2>1. g[k - 1] = <<from[q[k - 1] + 1]>> /\ g[k] = <<from[q[k] + 1]>>
    BY <1>2
  <2> HIDE DEF g, units
  <2>2. g[k] # NoString /\ g[k][1] = from[q[k] + 1]
    BY <2>1 DEF NoString
  <2> QED BY <1>3, <1>5, <2>1, <2>2 DEF Then
<1> HIDE DEF g, units, r, n
<1>8. Backwards(Nat, n, units, string, r, {}, g)
  BY <1>2, <1>5, <1>6, <1>7 DEF Backwards
<1>9. g[0] = <<string>>
  <2>1. g[0] = IF {} \cap (1 .. n) = {} THEN <<string>> ELSE NoString
    BY <1>8, ReadBackwards
  <2> QED BY <2>1
<1>10. from[1] = string
  BY <1>6, <1>9
<1> QED BY <1>1, <1>10

\* parseString reads what is written in \uXXXX as UTF-8 of the same characters.
LEMMA EscapedIsRead ==
  ASSUME NEW string \in Seq(Nat), \A k \in 1 .. Len(string) : string[k] < 65536
  PROVE  \E whole : /\ parseString(EscapedText(string) \o EndOfArray) = <<whole>>
                    /\ Decoded(whole) = string
<1> DEFINE pieces == [i \in DOMAIN string |-> Escaped(string[i])]
           text == FlattenSeq(pieces)
           out == [k \in 1 .. Len(string) |-> fromUnicode(string[k])]
           whole == FlattenSeq(out)
<1>1. EscapedText(string) \o EndOfArray = Quoted(text)
  BY DEF EscapedText, Quoted
<1>2. ASSUME NEW k \in 1 .. Len(string)
      PROVE  Escaped(string[k]) \in Seq(Nat) /\ fromUnicode(string[k]) \in Seq(Nat)
             /\ IsUtf8(fromUnicode(string[k]), string[k])
  <2>1. string[k] \in Nat /\ string[k] < 65536
    OBVIOUS
  <2>2. Spells(Escaped(string[k]), string[k]) /\ IsUtf8(fromUnicode(string[k]), string[k])
    BY <2>1, FourDigits, Utf8Facts
  <2> QED BY <2>2 DEF Spells, IsUtf8
<1>3. /\ pieces \in Seq(Seq(Nat)) /\ Len(pieces) = Len(string)
      /\ \A k \in 1 .. Len(string) : pieces[k] = Escaped(string[k]) /\ pieces[k] \in Seq(Nat)
  <2>1. pieces = [k \in 1 .. Len(string) |-> Escaped(string[k])]
    OBVIOUS
  <2> HIDE DEF pieces
  <2> QED BY <1>2, <2>1
<1>4. /\ out \in Seq(Seq(Nat)) /\ Len(out) = Len(string)
      /\ \A k \in 1 .. Len(string) : out[k] = fromUnicode(string[k]) /\ out[k] \in Seq(Nat)
  BY <1>2
<1> HIDE DEF pieces, out
<1>5. text \in Seq(Nat) /\ \E place : IsPlace(place, pieces, text)
  BY <1>3, FlattenPlaces
<1>6. whole \in Seq(Nat) /\ \E q : IsPlace(q, out, whole)
  BY <1>4, FlattenPlaces
<1>7. PICK place : IsPlace(place, pieces, text)
  BY <1>5
<1>8. PICK q : IsPlace(q, out, whole)
  BY <1>6
<1> HIDE DEF text, whole
<1>9. parseString(Quoted(text)) = <<whole>>
  <2>1. Spelling(string, pieces, text, out, whole)
    BY <1>3, <1>4, <1>5, <1>6 DEF Spelling
  <2> QED BY <1>7, <1>8, <2>1, EscapedPieces
<1>10. Decoded(whole) = string
  <2>1. \A k \in 1 .. Len(string) : IsUtf8(out[k], string[k])
    BY <1>2, <1>4
  <2>2. Len(out) = Len(string) /\ whole \in Seq(Nat) /\ IsPlace(q, out, whole)
    BY <1>4, <1>6, <1>8
  <2> HIDE DEF out
  <2> QED BY <2>1, <2>2, DecodedPieces
<1> QED BY <1>1, <1>9, <1>10

\* Strings are read back whatever their bytes and however long they are.
StringsHold ==
  /\ done \in BOOLEAN
  /\ ~done => ConversionInit
  /\ done => StringsAreReadBack

\* parseString gives back, byte for byte, every string that dumpString printed, of any
\* length and of any bytes, unless it has a control character that dumpString prints as it
\* is; then it rejects it.  What is written in \uXXXX fromUnicode turns into the UTF-8 of
\* the same characters.
THEOREM StringsAreReadBackHolds == ConversionSpec => []StringsAreReadBack
<1>1. ConversionInit => ~done
  BY DEF ConversionInit
<1>2. ASSUME ConversionInit, kind = "string", ReadString PROVE StringsAreReadBack'
  <2>1. /\ meant \in Seq(Nat) /\ got' = parseString(dumpString(meant) \o EndOfArray)
        /\ meant' = meant /\ kind' = "string"
    <3>1. Dumps
      BY <1>2 DEF ConversionInit, Receives, Allocates, Writes
    <3>2. meant \in Seq(Chars)
      BY <3>1, BoundedFacts DEF Dumps
    <3>3. Chars \subseteq Nat
      BY ConversionsAssumption DEF ConversionsAssumption
    <3>4. meant \in Seq(Nat)
      BY <3>2, <3>3, SubsetSeq
    <3> QED BY <1>2, <3>1, <3>4 DEF Dumps, ReadString
  <2>2. got' = IF ToSet(meant) \cap (Control \ DOMAIN Escapes) # {} THEN NoString ELSE <<meant>>
    BY <2>1, DumpedIsRead
  <2> QED BY <2>1, <2>2 DEF StringsAreReadBack
<1>3. ASSUME ConversionInit, kind = "escaped", ReadString PROVE StringsAreReadBack'
  <2>1. /\ meant \in Seq(Nat) /\ \A k \in 1 .. Len(meant) : meant[k] < 65536
        /\ got' = parseString(EscapedText(meant) \o EndOfArray)
        /\ meant' = meant /\ kind' = "escaped"
    <3>1. Writes
      BY <1>3 DEF ConversionInit, Receives, Allocates, Dumps
    <3>2. meant \in Seq(CodePoints)
      BY <3>1, BoundedFacts DEF Writes
    <3>3. \A u \in CodePoints : u \in Nat /\ u < 65536
      BY ConversionsAssumption DEF ConversionsAssumption
    <3>4. meant \in Seq(Nat) /\ \A k \in 1 .. Len(meant) : meant[k] < 65536
      BY <3>2, <3>3
    <3> QED BY <1>3, <3>1, <3>4 DEF Writes, ReadString
  <2>2. PICK whole : got' = <<whole>> /\ Decoded(whole) = meant
    BY <2>1, EscapedIsRead
  <2>3. got' # NoString /\ Decoded(got'[1]) = meant'
    BY <2>1, <2>2 DEF NoString
  <2> QED BY <2>1, <2>3 DEF StringsAreReadBack
<1>4. ASSUME ConversionInit, Convert PROVE StringsHold'
  <2>1. done' = TRUE
    BY <1>4 DEF Convert
  <2>2. CASE ReadRequest \/ PrintResponse
    BY <2>1, <2>2 DEF StringsHold, StringsAreReadBack, ReadRequest, PrintResponse
  <2>3. CASE ReadString
    BY <1>2, <1>3, <1>4, <2>1, <2>3 DEF StringsHold, ReadString
  <2> QED BY <1>4, <2>2, <2>3 DEF Convert
<1>5. StringsHold /\ [Convert]_conversion => StringsHold'
  <2>1. ASSUME StringsHold, UNCHANGED conversion PROVE StringsHold'
    BY <2>1 DEF StringsHold, conversion, ConversionInit, StringsAreReadBack, Receives, Allocates, Dumps, Writes
  <2>2. ASSUME StringsHold, Convert PROVE StringsHold'
    BY <1>4, <2>2 DEF StringsHold, Convert
  <2> QED BY <2>1, <2>2
<1>6. StringsHold => StringsAreReadBack
  BY DEF StringsHold, StringsAreReadBack
<1>7. ConversionInit => StringsHold
  BY <1>1 DEF StringsHold, ConversionInit
<1> QED BY <1>5, <1>6, <1>7, PTL DEF ConversionSpec

------------------------------------------------------------------------------
(* Responses *)

\* The tokens of headers, and all that is printed: none of them is the character a
\* buffer is filled with.
HeaderTokens ==
  Words \cup {" ", ":", "Content-Length", "size", "Content-Type", "text/html", "image/png", "server", "name"}

Printed ==
  HeaderTokens \cup {"\r", "\n", "HTTP/", "1.0", "1.1", "0.9", "200", "404", "600", "OK", "Not", "Found"}

HeaderPairs == Seq(HeaderTokens) \X Seq(HeaderTokens)

\* No token that is printed is the one a buffer is filled with.
LEMMA PrintedFacts ==
  Zero \notin Printed /\ HeaderTokens \subseteq Printed
BY HttpAssumption DEF HttpAssumption, Printed, HeaderTokens, Zero

\* Header lines of a client are made of such tokens.
LEMMA LinesFacts ==
  Lines \subseteq HeaderPairs
<1> SUFFICES ASSUME NEW key \in SeqOf(Words, MaxWord), NEW value \in Values
             PROVE  <<key, value>> \in HeaderPairs
  BY DEF Lines
<1>1. key \in Seq(Words) /\ value \in Seq(Words \cup {" ", ":"})
  BY BoundedFacts DEF Values
<1>2. Words \subseteq HeaderTokens /\ Words \cup {" ", ":"} \subseteq HeaderTokens
  BY DEF HeaderTokens
<1>3. key \in Seq(HeaderTokens) /\ value \in Seq(HeaderTokens)
  BY <1>1, <1>2, SubsetSeq
<1> QED BY <1>3 DEF HeaderPairs

\* A header line is as long as HeaderSize has it.
LEMMA HeaderLineFacts ==
  ASSUME NEW header \in HeaderPairs
  PROVE  /\ HeaderLine(header) \in Seq(Printed)
         /\ HeaderSize(header) \in Nat /\ Len(HeaderLine(header)) = HeaderSize(header)
<1> DEFINE key == header[1]
           value == header[2]
<1>1. key \in Seq(Printed) /\ value \in Seq(Printed)
  <2>1. key \in Seq(HeaderTokens) /\ value \in Seq(HeaderTokens)
    BY DEF HeaderPairs
  <2> HIDE DEF key, value
  <2> QED BY <2>1, PrintedFacts, SubsetSeq
<1>2. /\ <<":", " ">> \in Seq(Printed) /\ Len(<<":", " ">>) = 2
      /\ CRLF \in Seq(Printed) /\ Len(CRLF) = 2
  BY DEF Printed, HeaderTokens, CRLF
<1>3. HeaderLine(header) = key \o <<":", " ">> \o value \o CRLF
  BY DEF HeaderLine
<1>4. HeaderSize(header) = Len(key) + 1 + 1 + Len(value) + 2
  BY DEF HeaderSize
<1> HIDE DEF key, value
<1> DEFINE a == key \o <<":", " ">>
           b == a \o value
<1>5. a \in Seq(Printed) /\ Len(a) = Len(key) + 2 /\ Len(key) \in Nat
  <2> DEFINE colon == <<":", " ">>
  <2>1. colon \in Seq(Printed) /\ Len(colon) = 2
    BY <1>2
  <2>2. a = key \o colon
    OBVIOUS
  <2> HIDE DEF a, colon
  <2>3. key \o colon \in Seq(Printed)
    BY <1>1, <2>1, ConcatFacts
  <2>4. Len(key \o colon) = Len(key) + Len(colon) /\ Len(key) \in Nat
    BY <1>1, <2>1, ConcatFacts
  <2> QED BY <2>1, <2>2, <2>3, <2>4
<1> HIDE DEF a
<1>6. b \in Seq(Printed) /\ Len(b) = Len(a) + Len(value) /\ Len(value) \in Nat
  BY <1>1, <1>5
<1>7. HeaderLine(header) = b \o CRLF
  BY <1>3 DEF a
<1> HIDE DEF b
<1>8. b \o CRLF \in Seq(Printed) /\ Len(b \o CRLF) = Len(b) + 2
  <2>1. b \in Seq(Printed) /\ CRLF \in Seq(Printed) /\ Len(CRLF) = 2
    BY <1>2, <1>6
  <2>2. b \o CRLF \in Seq(Printed)
    BY <2>1, ConcatFacts
  <2>3. Len(b \o CRLF) = Len(b) + Len(CRLF)
    BY <2>1, ConcatFacts
  <2> QED BY <2>1, <2>2, <2>3
<1> QED BY <1>4, <1>5, <1>6, <1>7, <1>8

\* The headers of static_web_http
LEMMA HeaderPairFacts ==
  ASSUME NEW a \in HeaderTokens, NEW b \in HeaderTokens
  PROVE  <<<<a>>, <<b>>>> \in HeaderPairs
<1>1. <<a>> \in Seq(HeaderTokens) /\ <<b>> \in Seq(HeaderTokens)
  OBVIOUS
<1> QED BY <1>1 DEF HeaderPairs

\* The states of a response that can be printed.
LEMMA ResponsesFacts ==
  ASSUME NEW res \in Responses
  PROVE  /\ res.headers \in Seq(HeaderPairs)
         /\ res.version \in Versions \cup {""} /\ res.code \in {"200", "404", "600"}
<1>1. CASE res \in [version : Versions \cup {""}, code : {"200", "404", "600"}, headers : SeqOf(Lines, MaxHeaders)]
  <2>1. res.headers \in Seq(Lines)
    BY <1>1, BoundedFacts
  <2> QED BY <1>1, <2>1, LinesFacts, SubsetSeq
<1>2. CASE res \in {StaticResponse(ext) : ext \in {"html", "png", "unknown"}}
  <2>1. PICK ext \in {"html", "png", "unknown"} : res = StaticResponse(ext)
    BY <1>2
  <2> DEFINE content == ContentType(ext)
             type == [k \in DOMAIN content |-> <<<<"Content-Type">>, <<content[k]>>>>]
             length == <<<<"Content-Length">>, <<"size">>>>
             server == <<<<"server">>, <<"name">>>>
  <2>2. /\ res.version = "1.0" /\ res.code = "200"
        /\ res.headers = <<length>> \o type \o <<server>>
    BY <2>1 DEF StaticResponse
  <2>3. content \in Seq({"text/html", "image/png"})
    <3>1. DOMAIN ContentTypes = {"html", "png"}
      BY DEF ContentTypes
    <3>2. CASE ext = "html"
      <4>1. content = <<"text/html">>
        BY <3>1, <3>2 DEF ContentType, ContentTypes
      <4> QED BY <4>1
    <3>3. CASE ext = "png"
      <4>1. content = <<"image/png">>
        BY <3>1, <3>3 DEF ContentType, ContentTypes
      <4> QED BY <4>1
    <3>4. CASE ext = "unknown"
      <4>1. content = <<>>
        BY <3>1, <3>4 DEF ContentType
      <4> QED BY <4>1
    <3> QED BY <3>2, <3>3, <3>4
  <2>4. length \in HeaderPairs /\ server \in HeaderPairs
    <3>1. {"Content-Length", "size", "server", "name"} \subseteq HeaderTokens
      BY DEF HeaderTokens
    <3> QED BY <3>1, HeaderPairFacts
  <2>5. ASSUME NEW k \in DOMAIN content PROVE <<<<"Content-Type">>, <<content[k]>>>> \in HeaderPairs
    <3>1. content[k] \in {"text/html", "image/png"}
      BY <2>3
    <3> HIDE DEF content
    <3>2. content[k] \in HeaderTokens /\ "Content-Type" \in HeaderTokens
      BY <3>1 DEF HeaderTokens
    <3> QED BY <3>2, HeaderPairFacts
  <2> HIDE DEF content, length, server
  <2>6. type \in Seq(HeaderPairs)
    BY <2>3, <2>5
  <2> HIDE DEF type
  <2>7. <<length>> \in Seq(HeaderPairs) /\ <<server>> \in Seq(HeaderPairs)
    BY <2>4
  <2>8. <<length>> \o type \o <<server>> \in Seq(HeaderPairs)
    BY <2>6, <2>7
  <2> QED BY <2>2, <2>8 DEF Versions
<1> QED BY <1>1, <1>2 DEF Responses

\* The size that is allocated is that of the header lines and nine characters more,
\* with the reason.
LEMMA SizeFacts ==
  ASSUME NEW res, res.headers \in Seq(HeaderPairs), NEW lines, NEW whole, NEW place,
         lines = [i \in DOMAIN res.headers |-> HeaderLine(res.headers[i])],
         whole \in Seq(Printed), IsPlace(place, lines, whole), Len(StatusText(res.code)) \in Nat
  PROVE  getRawDataSizeWithoutBody(res) = Len(StatusText(res.code)) + Len(whole) + 9
<1> DEFINE n == Len(res.headers)
           base == 5 + Len(StatusText(res.code)) + 2
           I == 0 .. n
           Eq(f) == f = [m \in 0 .. Len(res.headers) |->
                          IF m = 0 THEN 5 + Len(StatusText(res.code)) + 2
                                   ELSE f[m - 1] + HeaderSize(res.headers[m])]
           rank == [m \in I |-> m]
           turn == [m \in I |-> [f \in [I -> Nat] |->
                      IF m = 0 THEN base ELSE f[m - 1] + HeaderSize(res.headers[m])]]
<1>1. n \in Nat /\ base \in Nat /\ DOMAIN res.headers = 1 .. n
  OBVIOUS
<1>2. ASSUME NEW m \in I, m # 0
      PROVE  /\ m \in 1 .. n /\ m - 1 \in I /\ m - 1 < m
             /\ HeaderSize(res.headers[m]) \in Nat
  <2>1. m \in 1 .. n /\ m - 1 \in I /\ m - 1 < m
    BY <1>1, <1>2
  <2>2. res.headers[m] \in HeaderPairs
    BY <2>1
  <2> QED BY <2>1, <2>2, HeaderLineFacts
<1>3. turn \in [I -> [[I -> Nat] -> Nat]]
  <2> SUFFICES ASSUME NEW m \in I, NEW f \in [I -> Nat]
               PROVE  (IF m = 0 THEN base ELSE f[m - 1] + HeaderSize(res.headers[m])) \in Nat
    OBVIOUS
  <2> HIDE DEF base, I
  <2>1. CASE m = 0
    BY <1>1, <2>1
  <2>2. CASE m # 0
    BY <1>2, <2>2
  <2> QED BY <2>1, <2>2
<1>4. ASSUME NEW m \in I, NEW f \in [I -> Nat], NEW g \in [I -> Nat],
             \A j \in I : rank[j] < rank[m] => f[j] = g[j]
      PROVE  turn[m][f] = turn[m][g]
  <2>1. CASE m = 0
    BY <2>1
  <2>2. CASE m # 0
    <3>1. f[m - 1] = g[m - 1]
      BY <1>2, <1>4, <2>2
    <3> QED BY <2>2, <3>1
  <2> QED BY <2>1, <2>2
<1>5. \E f \in [I -> Nat] : \A m \in I : f[m] = turn[m][f]
  <2>1. rank \in [I -> 0 .. n]
    OBVIOUS
  <2> HIDE DEF rank, turn, I, n
  <2>2. Recursion(I, Nat, n, rank, turn)
    BY <1>1, <1>3, <1>4, <2>1 DEF Recursion
  <2> QED BY <2>2, RecursionExists
<1>6. \E f : Eq(f)
  <2>1. PICK f \in [I -> Nat] : \A m \in I : f[m] = turn[m][f]
    BY <1>5
  <2>2. Eq(f)
    BY <2>1
  <2> QED BY <2>2
<1>7. getRawDataSizeWithoutBody(res) = (CHOOSE f : Eq(f))[Len(res.headers)] + 2
  BY Zenon DEF getRawDataSizeWithoutBody
<1>8. Eq(CHOOSE f : Eq(f))
  BY <1>6, Zenon
<1> DEFINE size == CHOOSE f : Eq(f)
<1> HIDE DEF size
<1>9. /\ size[0] = base
      /\ \A m \in 1 .. n : size[m] = size[m - 1] + HeaderSize(res.headers[m])
  <2>1. size = [m \in 0 .. Len(res.headers) |->
                  IF m = 0 THEN 5 + Len(StatusText(res.code)) + 2
                           ELSE size[m - 1] + HeaderSize(res.headers[m])]
    BY <1>8 DEF size
  <2>2. 0 \in 0 .. n /\ \A m \in 1 .. n : m \in 0 .. n /\ m # 0
    BY <1>1
  <2> QED BY <2>1, <2>2
<1>10. getRawDataSizeWithoutBody(res) = size[n] + 2
  BY <1>7 DEF size
<1> HIDE DEF Eq, turn, rank
<1>11. Len(lines) = n /\ \A m \in 1 .. n : lines[m] = HeaderLine(res.headers[m])
  BY <1>1
<1>12. /\ place[0] = 0 /\ place[n] = Len(whole) /\ place \in [0 .. n -> Nat]
       /\ \A m \in 1 .. n : place[m] = place[m - 1] + Len(lines[m])
  BY <1>11 DEF IsPlace
<1> DEFINE S == {m \in Nat : m \in I => size[m] = base + place[m]}
<1>13. 0 \in S
  BY <1>1, <1>9, <1>12
<1>14. ASSUME NEW m \in Nat, m \in S PROVE m + 1 \in S
  <2> SUFFICES ASSUME m + 1 \in I PROVE size[m + 1] = base + place[m + 1]
    OBVIOUS
  <2>1. m \in I /\ m + 1 \in 1 .. n /\ (m + 1) - 1 = m
    BY <1>1
  <2>2. res.headers[m + 1] \in HeaderPairs
    BY <2>1
  <2>3. /\ HeaderSize(res.headers[m + 1]) \in Nat
        /\ Len(lines[m + 1]) = HeaderSize(res.headers[m + 1])
    BY <1>11, <2>1, <2>2, HeaderLineFacts
  <2>4. size[m] = base + place[m] /\ place[m] \in Nat
    BY <1>12, <1>14, <2>1
  <2>5. /\ size[m + 1] = size[m] + HeaderSize(res.headers[m + 1])
        /\ place[m + 1] = place[m] + Len(lines[m + 1])
    BY <1>9, <1>12, <2>1
  <2> HIDE DEF base, I
  <2> QED BY <1>1, <2>3, <2>4, <2>5
<1>15. n \in S
  <2> HIDE DEF S
  <2> QED BY <1>1, <1>13, <1>14, NumbersFromZero
<1>16. size[n] = base + Len(whole)
  <2>1. n \in I
    BY <1>1
  <2>2. size[n] = base + place[n]
    BY <1>15, <2>1
  <2> HIDE DEF base, n
  <2> QED BY <1>12, <2>2
<1>17. Len(whole) \in Nat
  OBVIOUS
<1> QED BY <1>10, <1>16, <1>17

\* A text over an alphabet, and its length.
Text(text, tokens, n) == text \in Seq(tokens) /\ Len(text) = n /\ n \in Nat

\* Two texts put together.
LEMMA Joined ==
  ASSUME NEW T, NEW a, NEW m, Text(a, T, m), NEW b, NEW n, Text(b, T, n)
  PROVE  Text(a \o b, T, m + n)
BY DEF Text

\* A text of one, two or three tokens
LEMMA FewTokens ==
  ASSUME NEW T, NEW a \in T, NEW b \in T, NEW c \in T
  PROVE  Text(<<a>>, T, 1) /\ Text(<<a, b>>, T, 2) /\ Text(<<a, b, c>>, T, 3)
BY DEF Text

\* A text over a larger alphabet
LEMMA MoreTokens ==
  ASSUME NEW S, NEW T, S \subseteq T, NEW a, NEW n, Text(a, S, n)
  PROVE  Text(a, T, n)
BY SubsetSeq DEF Text

\* The reason behind a code is printed, and has a length.
LEMMA StatusFacts ==
  ASSUME NEW code
  PROVE  Text(StatusText(code), Printed, Len(StatusText(code)))
<1>1. " " \in Printed /\ "OK" \in Printed /\ "Not" \in Printed /\ "Found" \in Printed
  BY DEF Printed, HeaderTokens
<1>2. CASE code = "200"
  <2>1. StatusText(code) = <<"OK">>
    BY <1>2 DEF StatusText
  <2>2. Text(<<"OK">>, Printed, 1)
    BY <1>1, FewTokens
  <2> QED BY <2>1, <2>2 DEF Text
<1>3. CASE code = "404"
  <2>1. StatusText(code) = <<"Not", " ", "Found">>
    BY <1>3 DEF StatusText
  <2>2. Text(<<"Not", " ", "Found">>, Printed, 3)
    BY <1>1, FewTokens
  <2> QED BY <2>1, <2>2 DEF Text
<1>4. CASE code # "200" /\ code # "404"
  <2>1. StatusText(code) = <<>>
    BY <1>4 DEF StatusText
  <2> QED BY <2>1 DEF Text
<1> QED BY <1>2, <1>3, <1>4

\* The line with the status, and the whole head.
StatusLine(start, code, status) == start \o code \o status

ResponseHead(start, code, status, whole) == StatusLine(start, code, status) \o CRLF \o whole \o CRLF

\* How long the line with the status and the head are.
LEMMA HeadFacts ==
  ASSUME NEW T, Printed \subseteq T, NEW start, Text(start, T, 2), NEW code, Text(code, T, 3),
         NEW status, NEW m, Text(status, Printed, m), NEW whole, NEW n, Text(whole, Printed, n)
  PROVE  /\ Text(StatusLine(start, code, status), T, (2 + 3) + m)
         /\ Text(ResponseHead(start, code, status, whole), T, ((((2 + 3) + m) + 2) + n) + 2)
<1>1. Text(status, T, m) /\ Text(whole, T, n)
  BY MoreTokens
<1>2. Text(CRLF, T, 2)
  <2>1. "\r" \in T /\ "\n" \in T
    BY DEF Printed
  <2> QED BY <2>1, FewTokens DEF CRLF
<1>3. Text(start \o code, T, 2 + 3)
  BY Joined
<1>4. Text(StatusLine(start, code, status), T, (2 + 3) + m)
  BY <1>1, <1>3, Joined DEF StatusLine
<1>5. Text(StatusLine(start, code, status) \o CRLF, T, ((2 + 3) + m) + 2)
  BY <1>2, <1>4, Joined
<1>6. Text(StatusLine(start, code, status) \o CRLF \o whole, T, (((2 + 3) + m) + 2) + n)
  BY <1>1, <1>5, Joined
<1>7. Text(ResponseHead(start, code, status, whole), T, ((((2 + 3) + m) + 2) + n) + 2)
  BY <1>2, <1>6, Joined DEF ResponseHead
<1> QED BY <1>4, <1>7

\* The header lines are texts.
LEMMA LinesTyped ==
  ASSUME NEW headers \in Seq(HeaderPairs)
  PROVE  [i \in DOMAIN headers |-> HeaderLine(headers[i])] \in Seq(Seq(Printed))
<1>1. DOMAIN headers = 1 .. Len(headers) /\ Len(headers) \in Nat
  OBVIOUS
<1>2. ASSUME NEW i \in 1 .. Len(headers) PROVE HeaderLine(headers[i]) \in Seq(Printed)
  <2>1. headers[i] \in HeaderPairs
    OBVIOUS
  <2> QED BY <2>1, HeaderLineFacts
<1> QED BY <1>1, <1>2

\* The head that is printed is never longer than what was allocated, and a head that
\* is printed to its end is as long.
LEMMA WrittenFacts ==
  ASSUME NEW res \in Responses
  PROVE  \E n : /\ Text(Written(res), Printed \cup {Zero}, n)
                /\ getRawDataSizeWithoutBody(res) \in Nat
                /\ n <= getRawDataSizeWithoutBody(res)
                /\ res.version \in {"1.0", "1.1"} /\ StatusText(res.code) # <<>> =>
                     n = getRawDataSizeWithoutBody(res) /\ Text(Written(res), Printed, n)
<1> DEFINE lines == [i \in DOMAIN res.headers |-> HeaderLine(res.headers[i])]
           whole == FlattenSeq(lines)
           status == StatusText(res.code)
           start == IF res.version = "0.9" THEN <<"0.9", Zero>> ELSE <<"HTTP/", res.version>>
           code == <<" ", res.code, " ">>
           size == getRawDataSizeWithoutBody(res)
           X == Printed \cup {Zero}
           m == Len(status)
           n == Len(whole)
<1>1. /\ res.headers \in Seq(HeaderPairs)
      /\ res.version \in Versions \cup {""} /\ res.code \in {"200", "404", "600"}
  BY ResponsesFacts
<1>2. lines \in Seq(Seq(Printed))
  BY <1>1, LinesTyped
<1> HIDE DEF lines
<1>3. whole \in Seq(Printed) /\ \E place : IsPlace(place, lines, whole)
  BY <1>2, FlattenPlaces
<1>4. PICK place : IsPlace(place, lines, whole)
  BY <1>3
<1>5. Text(status, Printed, m) /\ Text(whole, Printed, n)
  <2>1. Text(status, Printed, m)
    BY StatusFacts
  <2> HIDE DEF whole
  <2>2. Text(whole, Printed, n)
    BY <1>3 DEF Text
  <2> QED BY <2>1, <2>2
<1>6. m \in Nat /\ n \in Nat
  <2> HIDE DEF m, n
  <2> QED BY <1>5 DEF Text
<1>7. size = m + n + 9
  <2> HIDE DEF whole
  <2> QED BY <1>1, <1>3, <1>4, <1>6, SizeFacts DEF lines
<1>8. Written(res) = IF res.version = "" THEN <<"HTTP/">>
                     ELSE IF status = <<>> THEN StatusLine(start, code, status)
                     ELSE ResponseHead(start, code, status, whole)
  BY DEF Written, StatusLine, ResponseHead, lines
<1>9. " " \in Printed /\ "HTTP/" \in Printed /\ res.code \in Printed
      /\ Versions \subseteq Printed /\ "0.9" \in Printed /\ Printed \subseteq X
      /\ {"1.0", "1.1"} \subseteq Printed /\ Printed \subseteq Printed /\ Zero \in X
  BY <1>1 DEF Printed, HeaderTokens, Versions
<1> HIDE DEF X
<1>10. Text(code, Printed, 3) /\ Text(code, X, 3) /\ Text(<<"HTTP/">>, X, 1)
  BY <1>9, FewTokens
<1>11. res.version # "" => Text(start, X, 2)
  <2>1. CASE res.version = "0.9"
    BY <1>9, <2>1, FewTokens
  <2>2. CASE res.version # "0.9" /\ res.version # ""
    <3>1. res.version \in X /\ "HTTP/" \in X
      BY <1>1, <1>9, <2>2
    <3>2. Text(<<"HTTP/", res.version>>, X, 2)
      BY <3>1, FewTokens
    <3> QED BY <2>2, <3>2
  <2> QED BY <2>1, <2>2
<1>12. res.version \in {"1.0", "1.1"} => Text(start, Printed, 2)
  <2> SUFFICES ASSUME res.version \in {"1.0", "1.1"} PROVE Text(start, Printed, 2)
    OBVIOUS
  <2>1. res.version \in Printed /\ res.version # "0.9"
    BY <1>9
  <2>2. Text(<<"HTTP/", res.version>>, Printed, 2)
    BY <1>9, <2>1, FewTokens
  <2> QED BY <2>1, <2>2
<1> HIDE DEF start, code, status, whole, m, n, size
<1>13. CASE res.version = ""
  <2>1. Text(Written(res), X, 1) /\ res.version \notin {"1.0", "1.1"}
    BY <1>8, <1>10, <1>13
  <2>2. size \in Nat /\ 1 <= size
    BY <1>6, <1>7
  <2> QED BY <2>1, <2>2 DEF X, size
<1>14. CASE res.version # "" /\ status = <<>>
  <2>1. Text(StatusLine(start, code, status), X, (2 + 3) + m)
    BY <1>5, <1>9, <1>10, <1>11, <1>14, HeadFacts
  <2>2. Written(res) = StatusLine(start, code, status)
    BY <1>8, <1>14
  <2>3. Text(Written(res), X, (2 + 3) + m)
    BY <2>1, <2>2
  <2>4. size \in Nat /\ (2 + 3) + m <= size
    BY <1>6, <1>7
  <2> QED BY <1>14, <2>3, <2>4 DEF X, size, status
<1>15. CASE res.version # "" /\ status # <<>>
  <2> DEFINE l == ((((2 + 3) + m) + 2) + n) + 2
  <2>1. Text(ResponseHead(start, code, status, whole), X, l)
    BY <1>5, <1>9, <1>10, <1>11, <1>15, HeadFacts
  <2>2. res.version \in {"1.0", "1.1"} => Text(ResponseHead(start, code, status, whole), Printed, l)
    BY <1>5, <1>9, <1>10, <1>12, HeadFacts
  <2>3. Written(res) = ResponseHead(start, code, status, whole)
    BY <1>8, <1>15
  <2>4. l = size /\ size \in Nat /\ l <= size
    BY <1>6, <1>7
  <2> HIDE DEF l
  <2> QED BY <2>1, <2>2, <2>3, <2>4 DEF X, size
<1> QED BY <1>13, <1>14, <1>15

\* What is printed into a buffer of zeros.
Into(X, text, n, size, buffer) ==
  /\ Text(text, X, n) /\ size \in Nat /\ n <= size
  /\ buffer = [i \in 1 .. size + 1 |-> IF i <= Len(text) THEN text[i] ELSE Zero]

\* What such a buffer is then: the text, and zeros behind it.
Filled(text, n, size, buffer) ==
  /\ Len(buffer) - 1 = size /\ buffer[size + 1] = Zero
  /\ text = SubSeq(SubSeq(buffer, 1, size), 1, Len(text))
  /\ n = size => SubSeq(buffer, 1, size) = text

\* What was printed into a buffer can be read from it.
LEMMA PrintedInto ==
  ASSUME NEW X, NEW text, NEW n, NEW size, NEW buffer, Into(X, text, n, size, buffer)
  PROVE  Filled(text, n, size, buffer)
<1>0. size \in Nat /\ n <= size
  BY DEF Into
<1>1. text \in Seq(X) /\ Len(text) = n /\ n \in Nat
  BY DEF Into, Text
<1>2. buffer \in Seq(X \cup {Zero}) /\ Len(buffer) = size + 1
  BY <1>1 DEF Into
<1> DEFINE head == SubSeq(buffer, 1, size)
<1>3. head \in Seq(X \cup {Zero}) /\ Len(head) = size /\ \A i \in 1 .. size : head[i] = buffer[i]
  BY <1>0, <1>2
<1> HIDE DEF head
<1>4. \A i \in 1 .. n : head[i] = text[i]
  <2>1. ASSUME NEW i \in 1 .. n PROVE head[i] = text[i]
    <3>1. i \in 1 .. size /\ i \in 1 .. size + 1 /\ i <= Len(text)
      BY <1>1, <1>0
    <3>2. buffer[i] = text[i]
      BY <3>1 DEF Into
    <3> QED BY <1>3, <3>1, <3>2
  <2> QED BY <2>1
<1> DEFINE prefix == SubSeq(head, 1, n)
<1>5. prefix \in Seq(X \cup {Zero}) /\ Len(prefix) = n /\ \A i \in 1 .. n : prefix[i] = head[i]
  BY <1>0, <1>1, <1>3
<1> HIDE DEF prefix
<1>6. text \in Seq(X \cup {Zero})
  BY <1>1, SubsetSeq
<1>7. prefix = text
  <2>1. \A i \in 1 .. Len(prefix) : prefix[i] = text[i]
    BY <1>4, <1>5
  <2> QED BY <1>1, <1>5, <1>6, <2>1, SeqEqual
<1>8. n = size => head = text
  <2> SUFFICES ASSUME n = size PROVE head = text
    OBVIOUS
  <2>1. \A i \in 1 .. Len(head) : head[i] = text[i]
    BY <1>3, <1>4
  <2> QED BY <1>1, <1>3, <1>6, <2>1, SeqEqual
<1>9. Len(buffer) - 1 = size /\ buffer[size + 1] = Zero
  <2>1. size + 1 \in 1 .. size + 1 /\ ~(size + 1 <= Len(text))
    BY <1>0, <1>1
  <2>2. buffer[size + 1] = Zero
    BY <2>1 DEF Into
  <2> QED BY <1>0, <1>2, <2>2
<1> QED BY <1>1, <1>7, <1>8, <1>9 DEF head, prefix, Filled

\* The file is put behind the head.
LEMMA FileBehind ==
  ASSUME NEW X, NEW head \in Seq(X)
  PROVE  /\ Len(head \o File) - Len(File) = Len(head)
         /\ SubSeq(head \o File, 1, Len(head)) = head
<1> DEFINE Y == X \cup {"x"}
           both == head \o <<"x">>
           part == SubSeq(both, 1, Len(head))
<1>1. head \in Seq(Y) /\ <<"x">> \in Seq(Y) /\ Len(<<"x">>) = 1 /\ Len(head) \in Nat
  BY SubsetSeq
<1>2. /\ both \in Seq(Y) /\ Len(both) = Len(head) + 1
      /\ \A i \in 1 .. Len(head) : both[i] = head[i]
  BY <1>1
<1> HIDE DEF both
<1>3. part \in Seq(Y) /\ Len(part) = Len(head) /\ \A i \in 1 .. Len(head) : part[i] = both[i]
  BY <1>1, <1>2
<1> HIDE DEF part, Y
<1>4. part = head
  BY <1>1, <1>2, <1>3, SeqEqual
<1> QED BY <1>1, <1>2, <1>4 DEF both, part, File

\* Responses are whole, whatever their headers are.
ResponsesHold ==
  /\ done \in BOOLEAN
  /\ ~done => ConversionInit
  /\ done => ResponseIsWhole

\* toRawDataWithoutBody never prints beyond the size that getRawDataSizeWithoutBody gave
\* for the buffer, and fills it whenever the response can be printed, whatever its headers
\* are; with the file behind it the buffer is what toRawData prints.
THEOREM ResponseIsWholeHolds == ConversionSpec => []ResponseIsWhole
<1>1. ConversionInit => ~done
  BY DEF ConversionInit
<1>2. ASSUME ConversionInit, PrintResponse PROVE ResponseIsWhole'
  <2> DEFINE size == getRawDataSizeWithoutBody(meant)
             text == Written(meant)
             buffer == toRawDataWithoutBody(meant, wire)
             head == SubSeq(buffer, 1, size)
  <2>1. /\ meant \in Responses /\ wire = [i \in 1 .. size + 1 |-> Zero]
        /\ wire' = ReadFile(buffer) /\ got' = toRawData(meant, File)
        /\ meant' = meant
    <3>1. Len(File) = 1
      BY DEF File
    <3> QED BY <1>2, <3>1 DEF ConversionInit, PrintResponse, Receives, Allocates, Dumps, Writes
  <2>2. PICK n : /\ Text(text, Printed \cup {Zero}, n) /\ size \in Nat /\ n <= size
                 /\ meant.version \in {"1.0", "1.1"} /\ StatusText(meant.code) # <<>> =>
                      n = size /\ Text(text, Printed, n)
    BY <2>1, WrittenFacts
  <2>3. buffer = [i \in 1 .. size + 1 |-> IF i <= Len(text) THEN text[i] ELSE Zero]
    <3> HIDE DEF size, text
    <3>1. buffer = [i \in DOMAIN wire |-> IF i <= Len(text) THEN text[i] ELSE wire[i]]
      BY DEF toRawDataWithoutBody, text
    <3> QED BY <2>1, <3>1
  <2> HIDE DEF size, text, buffer, head
  <2>4. Len(buffer) - 1 = size /\ (n = size => head = text)
    <3>1. Into(Printed \cup {Zero}, text, n, size, buffer)
      BY <2>2, <2>3 DEF Into
    <3>2. Filled(text, n, size, buffer)
      BY <3>1, PrintedInto
    <3> QED BY <3>2 DEF Filled, head
  <2>5. head \in Seq(Printed \cup {Zero}) /\ Len(head) = size
    <3>1. buffer \in Seq(Printed \cup {Zero}) /\ Len(buffer) = size + 1
      BY <2>2, <2>3 DEF Text
    <3> QED BY <2>2, <3>1 DEF head
  <2>6. wire' = head \o File /\ Len(File) = 1
    BY <2>1, <2>4 DEF ReadFile, File, head
  <2>7. Len(wire') - Len(File) = size /\ SubSeq(wire', 1, size) = head
    BY <2>5, <2>6, FileBehind
  <2>8. Len(text) <= size
    BY <2>2 DEF Text
  <2>9. ASSUME meant.version \in {"1.0", "1.1"}, StatusText(meant.code) # <<>>
        PROVE  Zero \notin ToSet(head) /\ got' = wire'
    <3>1. head = text /\ text \in Seq(Printed) /\ Len(text) = size
      BY <2>2, <2>4, <2>9 DEF Text
    <3>2. Zero \notin ToSet(head)
      <4>1. ToSet(text) \subseteq Printed
        BY <3>1 DEF ToSet
      <4> QED BY <3>1, <4>1, PrintedFacts
    <3>3. Len(text \o File) = resSize(meant, File)
      <4>1. text \o File = wire' /\ Len(wire') - Len(File) = size
        BY <2>6, <2>7, <3>1
      <4>2. Len(wire') \in Nat
        BY <2>5, <2>6 DEF File
      <4>3. resSize(meant, File) = size + Len(File)
        BY DEF resSize, size
      <4> QED BY <2>6, <4>1, <4>2, <4>3
    <3>4. got' = text \o File
      BY <2>1, <2>9, <3>3 DEF toRawData, text
    <3> QED BY <2>6, <3>1, <3>2, <3>4
  <2> QED BY <2>1, <2>7, <2>8, <2>9 DEF ResponseIsWhole, text
<1>3. ASSUME ConversionInit, Convert PROVE ResponsesHold'
  <2>1. done' = TRUE
    BY <1>3 DEF Convert
  <2>2. CASE ReadRequest \/ ReadString
    BY <2>1, <2>2 DEF ResponsesHold, ResponseIsWhole, ReadRequest, ReadString
  <2>3. CASE PrintResponse
    BY <1>2, <1>3, <2>1, <2>3 DEF ResponsesHold
  <2> QED BY <1>3, <2>2, <2>3 DEF Convert
<1>4. ResponsesHold /\ [Convert]_conversion => ResponsesHold'
  <2>1. ASSUME ResponsesHold, UNCHANGED conversion PROVE ResponsesHold'
    BY <2>1 DEF ResponsesHold, conversion, ConversionInit, ResponseIsWhole, Receives, Allocates, Dumps, Writes
  <2>2. ASSUME ResponsesHold, Convert PROVE ResponsesHold'
    BY <1>3, <2>2 DEF ResponsesHold, Convert
  <2> QED BY <2>1, <2>2
<1>5. ResponsesHold => ResponseIsWhole
  BY DEF ResponsesHold, ResponseIsWhole
<1>6. ConversionInit => ResponsesHold
  BY <1>1 DEF ResponsesHold, ConversionInit
<1> QED BY <1>4, <1>5, <1>6, PTL DEF ConversionSpec

------------------------------------------------------------------------------
(* Requests *)

\* A search ends at a token in the text, or nowhere.
LEMMA FindRange ==
  ASSUME NEW X, NEW raw \in Seq(X), NEW i \in Nat, NEW token
  PROVE  \/ Find(raw, i, token) = 0
         \/ Find(raw, i, token) \in i .. Len(raw) /\ raw[Find(raw, i, token)] = token
<1> DEFINE S == {j \in i .. Len(raw) : raw[j] = token}
<1>1. Find(raw, i, token) = IF S # {} THEN Min(S) ELSE 0
  BY DEF Find, SelectInSubSeq
<1>2. CASE S # {}
  <2>1. S \in SUBSET Nat
    OBVIOUS
  <2>2. Min(S) \in S
    BY <1>2, <2>1, LeastNumber
  <2> QED BY <1>1, <1>2, <2>2
<1> QED BY <1>1, <1>2

\* A search for what is not there leaves the text.
LEMMA FindNothing ==
  ASSUME NEW raw, NEW i, NEW token, \A j \in i .. Len(raw) : raw[j] # token
  PROVE  Find(raw, i, token) = 0
BY DEF Find, SelectInSubSeq

\* Where the search for a token ends.
LEMMA FindFacts ==
  ASSUME NEW X, NEW raw \in Seq(X), NEW i \in Nat, NEW p \in i .. Len(raw), NEW token,
         \A j \in i .. Len(raw) : raw[j] = token => p <= j, raw[p] = token
  PROVE  Find(raw, i, token) = p
<1> DEFINE S == {j \in i .. Len(raw) : raw[j] = token}
<1>1. Find(raw, i, token) = IF S # {} THEN Min(S) ELSE 0
  BY DEF Find, SelectInSubSeq
<1>2. p \in S /\ S \in SUBSET Nat /\ S # {}
  OBVIOUS
<1>3. Min(S) \in S /\ Min(S) <= p
  BY <1>2, LeastNumber
<1>4. Min(S) \in i .. Len(raw) /\ p <= Min(S)
  BY <1>3
<1>5. Min(S) = p
  <2> HIDE DEF S
  <2> QED BY <1>3, <1>4
<1> QED BY <1>1, <1>2, <1>5

\* The loop over the blanks ends in the text, or nowhere.
LEMMA SkipRange ==
  ASSUME NEW X, NEW raw \in Seq(X), NEW i \in Nat
  PROVE  SkipSpaces(raw, i) = 0 \/ SkipSpaces(raw, i) \in i .. Len(raw)
<1> DEFINE blank == " "
           S == {j \in i .. Len(raw) : raw[j] # blank}
<1>1. SkipSpaces(raw, i) = IF S # {} THEN Min(S) ELSE 0
  BY DEF SkipSpaces, SelectInSubSeq
<1> HIDE DEF blank
<1>2. CASE S # {}
  <2>1. S \in SUBSET Nat
    OBVIOUS
  <2>2. Min(S) \in S
    BY <1>2, <2>1, LeastNumber
  <2> QED BY <1>1, <1>2, <2>2
<1> QED BY <1>1, <1>2

\* It ends at the first token that is not a blank.
LEMMA SkipFacts ==
  ASSUME NEW X, NEW raw \in Seq(X), NEW i \in Nat, NEW p \in i .. Len(raw),
         \A j \in i .. Len(raw) : raw[j] # " " => p <= j, raw[p] # " "
  PROVE  SkipSpaces(raw, i) = p
<1> DEFINE I == i .. Len(raw)
           S == {j \in I : raw[j] # " "}
<1>1. SkipSpaces(raw, i) = IF S # {} THEN Min(S) ELSE 0
  BY DEF SkipSpaces, SelectInSubSeq
<1>2. I \subseteq Nat
  BY IntervalFacts, Zenon
<1>3. p \in S /\ (\A j \in S : p <= j) /\ S \subseteq I
  BY Zenon
<1> HIDE DEF S, I
<1>4. S \in SUBSET Nat
  BY <1>2, <1>3, Zenon
<1>5. Min(S) = p
  BY <1>3, <1>4, LeastIs, Zenon
<1> QED BY <1>1, <1>3, <1>5, Zenon

\* It leaves a text that ends in blanks.
LEMMA SkipNothing ==
  ASSUME NEW raw, NEW i, \A j \in i .. Len(raw) : raw[j] = " "
  PROVE  SkipSpaces(raw, i) = 0
BY DEF SkipSpaces, SelectInSubSeq

\* What the loop over the header lines may have read.
HeaderMaps(X) == UNION {[keys -> Seq(X)] : keys \in SUBSET Seq(X)}

ReadHeaders(X) == {<<>>} \cup {<<r>> : r \in [headers : HeaderMaps(X), body : Nat]}

\* One more header keeps them headers.
LEMMA FirstWinsFacts ==
  ASSUME NEW X, NEW key \in Seq(X), NEW value \in Seq(X), NEW headers \in HeaderMaps(X)
  PROVE  FirstWins(key, value, headers) \in HeaderMaps(X)
<1>1. PICK keys \in SUBSET Seq(X) : headers \in [keys -> Seq(X)]
  BY DEF HeaderMaps
<1>2. FirstWins(key, value, headers) \in [{key} \cup keys -> Seq(X)]
  BY <1>1 DEF FirstWins
<1>3. {key} \cup keys \in SUBSET Seq(X)
  BY <1>1
<1> QED BY <1>2, <1>3 DEF HeaderMaps

\* Headers and the place of the body are what the loop may have read.
LEMMA ReadHeadersFacts ==
  ASSUME NEW X, NEW h \in HeaderMaps(X), NEW b \in Nat
  PROVE  <<[headers |-> h, body |-> b]>> \in ReadHeaders(X)
<1>1. [headers |-> h, body |-> b] \in [headers : HeaderMaps(X), body : Nat]
  OBVIOUS
<1> QED BY <1>1, Zenon DEF ReadHeaders

\* A turn of the loop ends the headers, leaves the text, or goes on behind a line.
LineAt(raw, i, colon, value, cr) ==
  /\ colon \in i .. Len(raw) /\ value \in colon + 1 .. Len(raw) /\ cr \in value .. Len(raw)
  /\ cr + 1 <= Len(raw)
  /\ \A g : HeaderTurn(raw, i, g) =
              IF g[cr + 2] = <<>> THEN <<>>
              ELSE <<[headers |-> FirstWins(SubSeq(raw, i, colon - 1), SubSeq(raw, value, cr - 1),
                                            g[cr + 2][1].headers),
                      body |-> g[cr + 2][1].body]>>

LEMMA HeaderTurnCases ==
  ASSUME NEW X, NEW raw \in Seq(X), NEW i \in 1 .. Len(raw) + 1
  PROVE  \/ \A g : HeaderTurn(raw, i, g) = <<[headers |-> <<>>, body |-> i + 2]>>
         \/ \A g : HeaderTurn(raw, i, g) = <<>>
         \/ \E colon, value, cr : LineAt(raw, i, colon, value, cr)
<1> DEFINE colon == Find(raw, i, ":")
           value == IF colon = 0 THEN 0 ELSE SkipSpaces(raw, colon + 1)
           cr == IF value = 0 THEN 0 ELSE Find(raw, value, "\r")
<1>1. Len(raw) \in Nat /\ i \in Nat /\ i # 0
  OBVIOUS
<1>2. colon = 0 \/ colon \in i .. Len(raw)
  BY <1>1, FindRange
<1>3. colon # 0 => value = 0 \/ value \in colon + 1 .. Len(raw)
  <2> HIDE DEF colon
  <2>1. ASSUME colon # 0 PROVE value = 0 \/ value \in colon + 1 .. Len(raw)
    <3>1. colon + 1 \in Nat
      BY <1>1, <1>2, <2>1
    <3> QED BY <2>1, <3>1, SkipRange
  <2> QED BY <2>1
<1>4. value # 0 => cr = 0 \/ cr \in value .. Len(raw)
  <2>1. ASSUME value # 0 PROVE cr = 0 \/ cr \in value .. Len(raw)
    <3>1. colon # 0
      BY <2>1
    <3> HIDE DEF colon, value
    <3>2. value \in Nat
      BY <1>1, <1>2, <1>3, <2>1, <3>1
    <3> QED BY <2>1, <3>2, FindRange
  <2> QED BY <2>1
<1>5. (colon = 0 => value = 0) /\ (value = 0 => cr = 0)
  OBVIOUS
<1>6. \A g : HeaderTurn(raw, i, g) =
        IF HeadersEnd(raw, i) THEN <<[headers |-> <<>>, body |-> i + 2]>>
        ELSE IF cr = 0 \/ ~At(raw, cr, CRLF) \/ g[cr + 2] = <<>> THEN <<>>
        ELSE <<[headers |-> FirstWins(SubSeq(raw, i, colon - 1), SubSeq(raw, value, cr - 1),
                                      g[cr + 2][1].headers),
                body |-> g[cr + 2][1].body]>>
  BY DEF HeaderTurn
<1> HIDE DEF colon, value, cr
<1>7. CASE HeadersEnd(raw, i)
  BY <1>6, <1>7
<1>8. CASE ~HeadersEnd(raw, i) /\ (cr = 0 \/ ~At(raw, cr, CRLF))
  BY <1>6, <1>8
<1>9. CASE ~HeadersEnd(raw, i) /\ cr # 0 /\ At(raw, cr, CRLF)
  <2>1. colon \in i .. Len(raw) /\ value \in colon + 1 .. Len(raw) /\ cr \in value .. Len(raw)
    BY <1>2, <1>3, <1>4, <1>5, <1>9
  <2>2. cr + 1 <= Len(raw)
    <3>1. cr + Len(CRLF) - 1 <= Len(raw) /\ Len(CRLF) = 2
      BY <1>9 DEF At, CRLF
    <3> QED BY <1>1, <2>1, <3>1
  <2>3. LineAt(raw, i, colon, value, cr)
    BY <1>6, <1>9, <2>1, <2>2 DEF LineAt
  <2> QED BY <2>3
<1> QED BY <1>7, <1>8, <1>9

\* A turn takes what is read at the later positions only.
LEMMA HeaderTurnFacts ==
  ASSUME NEW X, NEW raw \in Seq(X), NEW i \in 1 .. Len(raw) + 1,
         NEW f \in [1 .. Len(raw) + 1 -> ReadHeaders(X)]
  PROVE  /\ HeaderTurn(raw, i, f) \in ReadHeaders(X)
         /\ \A g : (\A j \in 1 .. Len(raw) + 1 : i < j => g[j] = f[j]) =>
              HeaderTurn(raw, i, g) = HeaderTurn(raw, i, f)
<1>0. Len(raw) \in Nat /\ i \in Nat /\ i # 0
  OBVIOUS
<1>1. CASE \A g : HeaderTurn(raw, i, g) = <<[headers |-> <<>>, body |-> i + 2]>>
  <2>1. <<>> \in HeaderMaps(X)
    <3>1. <<>> \in [{} -> Seq(X)]
      OBVIOUS
    <3> QED BY <3>1 DEF HeaderMaps
  <2>2. <<[headers |-> <<>>, body |-> i + 2]>> \in ReadHeaders(X)
    <3>1. i + 2 \in Nat
      BY <1>0
    <3> QED BY <2>1, <3>1, ReadHeadersFacts
  <2> QED BY <1>1, <2>2
<1>2. CASE \A g : HeaderTurn(raw, i, g) = <<>>
  BY <1>2 DEF ReadHeaders
<1>3. CASE \E colon, value, cr : LineAt(raw, i, colon, value, cr)
  <2>1. PICK colon, value, cr : LineAt(raw, i, colon, value, cr)
    BY <1>3
  <2> DEFINE next == cr + 2
             key == SubSeq(raw, i, colon - 1)
             val == SubSeq(raw, value, cr - 1)
  <2>2. /\ colon \in i .. Len(raw) /\ value \in colon + 1 .. Len(raw) /\ cr \in value .. Len(raw)
        /\ cr + 1 <= Len(raw)
    BY <2>1 DEF LineAt
  <2>3. next \in 1 .. Len(raw) + 1 /\ i < next
    BY <1>0, <2>2
  <2>4. key \in Seq(X) /\ val \in Seq(X)
    BY <1>0, <2>2
  <2>5. \A g : HeaderTurn(raw, i, g) =
              IF g[next] = <<>> THEN <<>>
              ELSE <<[headers |-> FirstWins(key, val, g[next][1].headers), body |-> g[next][1].body]>>
    BY <2>1 DEF LineAt
  <2> HIDE DEF next, key, val
  <2>6. f[next] \in ReadHeaders(X)
    BY <2>3
  <2>7. CASE f[next] = <<>>
    BY <2>3, <2>5, <2>7 DEF ReadHeaders
  <2>8. CASE f[next] # <<>>
    <3>1. PICK h \in HeaderMaps(X), b \in Nat : f[next] = <<[headers |-> h, body |-> b]>>
      BY <2>6, <2>8 DEF ReadHeaders
    <3>2. f[next][1].headers = h /\ f[next][1].body = b
      BY <3>1
    <3>3. FirstWins(key, val, h) \in HeaderMaps(X)
      BY <2>4, FirstWinsFacts
    <3>4. HeaderTurn(raw, i, f) = <<[headers |-> FirstWins(key, val, h), body |-> b]>>
      BY <2>5, <2>8, <3>2
    <3>5. HeaderTurn(raw, i, f) \in ReadHeaders(X)
      BY <3>3, <3>4, ReadHeadersFacts
    <3> QED BY <2>3, <2>5, <3>5
  <2> QED BY <2>7, <2>8
<1> QED BY <1>1, <1>2, <1>3, HeaderTurnCases

\* The recursion that headersFrom is defined by.
LEMMA HeadersFromFacts ==
  ASSUME NEW X, NEW raw \in Seq(X), NEW i \in 1 .. Len(raw) + 1
  PROVE  headersFrom(raw)[i] = HeaderTurn(raw, i, headersFrom(raw))
<1> DEFINE n == Len(raw)
           I == 1 .. n + 1
           V == ReadHeaders(X)
           Eq(f) == f = [k \in 1 .. Len(raw) + 1 |-> HeaderTurn(raw, k, f)]
           rank == [k \in I |-> n + 1 - k]
           turn == [k \in I |-> [f \in [I -> V] |-> HeaderTurn(raw, k, f)]]
<1>1. n \in Nat /\ V # {} /\ rank \in [I -> 0 .. n]
  <2>1. <<>> \in V
    BY DEF ReadHeaders
  <2>2. n \in Nat
    OBVIOUS
  <2> HIDE DEF n, V
  <2> QED BY <2>1, <2>2
<1>2. turn \in [I -> [[I -> V] -> V]]
  BY HeaderTurnFacts
<1>3. ASSUME NEW k \in I, NEW f \in [I -> V], NEW g \in [I -> V],
             \A j \in I : rank[j] < rank[k] => f[j] = g[j]
      PROVE  turn[k][f] = turn[k][g]
  <2>1. \A j \in I : k < j => f[j] = g[j]
    BY <1>1, <1>3
  <2>2. HeaderTurn(raw, k, f) = HeaderTurn(raw, k, g)
    BY <2>1, HeaderTurnFacts
  <2> QED BY <2>2
<1>4. \E f \in [I -> V] : \A k \in I : f[k] = turn[k][f]
  <2> HIDE DEF rank, turn, V, I, n
  <2>1. Recursion(I, V, n, rank, turn)
    BY <1>1, <1>2, <1>3 DEF Recursion
  <2> QED BY <2>1, RecursionExists
<1>5. \E f : Eq(f)
  <2>1. PICK f \in [I -> V] : \A k \in I : f[k] = turn[k][f]
    BY <1>4
  <2>2. Eq(f)
    BY <2>1
  <2> QED BY <2>2
<1>6. headersFrom(raw) = CHOOSE f : Eq(f)
  BY Zenon DEF headersFrom
<1>7. Eq(CHOOSE f : Eq(f))
  BY <1>5, Zenon
<1> DEFINE from == CHOOSE f : Eq(f)
<1> HIDE DEF from
<1>8. from = [k \in 1 .. Len(raw) + 1 |-> HeaderTurn(raw, k, from)]
  BY <1>7 DEF from
<1>9. headersFrom(raw) = from
  BY <1>6 DEF from
<1> HIDE DEF Eq
<1> QED BY <1>8, <1>9

\* A sequence is in another one, behind the first p elements.
Behind(whole, p, s) ==
  /\ p \in Nat /\ Len(s) \in Nat /\ p + Len(s) <= Len(whole)
  /\ \A j \in 1 .. Len(s) : whole[p + j] = s[j]

\* The second of two sequences is behind the first.
LEMMA BehindFirst ==
  ASSUME NEW X, NEW a \in Seq(X), NEW b \in Seq(X)
  PROVE  Behind(a \o b, Len(a), b)
<1>1. Len(a) \in Nat /\ Len(b) \in Nat /\ Len(a \o b) = Len(a) + Len(b)
  BY ConcatFacts
<1>2. \A j \in 1 .. Len(b) : (a \o b)[Len(a) + j] = b[j]
  BY ConcatFacts
<1> QED BY <1>1, <1>2 DEF Behind

\* What is in a sequence stays where it is when another is put behind.
LEMMA BehindMore ==
  ASSUME NEW X, NEW a \in Seq(X), NEW b \in Seq(X), NEW p, NEW s, Behind(a, p, s)
  PROVE  Behind(a \o b, p, s)
<1>1. Len(a) \in Nat /\ Len(b) \in Nat /\ Len(a \o b) = Len(a) + Len(b)
  BY ConcatFacts
<1>2. \A j \in 1 .. Len(a) : (a \o b)[j] = a[j]
  BY ConcatFacts
<1>3. p \in Nat /\ Len(s) \in Nat /\ p + Len(s) <= Len(a) /\ \A j \in 1 .. Len(s) : a[p + j] = s[j]
  BY DEF Behind
<1>4. \A j \in 1 .. Len(s) : p + j \in 1 .. Len(a)
  BY <1>1, <1>3
<1>5. \A j \in 1 .. Len(s) : (a \o b)[p + j] = s[j]
  BY <1>2, <1>3, <1>4
<1>6. p + Len(s) <= Len(a \o b)
  BY <1>1, <1>3
<1> QED BY <1>3, <1>5, <1>6 DEF Behind

\* A sequence is in itself.
LEMMA BehindAll ==
  ASSUME NEW X, NEW a \in Seq(X)
  PROVE  Behind(a, 0, a)
<1>1. Len(a) \in Nat
  OBVIOUS
<1> QED BY <1>1 DEF Behind

\* What is in a part of a sequence is in the sequence.
LEMMA BehindWithin ==
  ASSUME NEW whole, Len(whole) \in Nat, NEW p, NEW s, Behind(whole, p, s), NEW q, NEW t, Behind(s, q, t)
  PROVE  Behind(whole, p + q, t)
<1>1. p \in Nat /\ Len(s) \in Nat /\ p + Len(s) <= Len(whole) /\ \A j \in 1 .. Len(s) : whole[p + j] = s[j]
  BY DEF Behind
<1>2. q \in Nat /\ Len(t) \in Nat /\ q + Len(t) <= Len(s) /\ \A j \in 1 .. Len(t) : s[q + j] = t[j]
  BY DEF Behind
<1>3. ASSUME NEW j \in 1 .. Len(t) PROVE whole[(p + q) + j] = t[j]
  <2>1. q + j \in 1 .. Len(s) /\ p + (q + j) = (p + q) + j
    BY <1>1, <1>2
  <2>2. whole[p + (q + j)] = s[q + j]
    BY <1>1, <2>1
  <2> QED BY <1>2, <2>1, <2>2
<1>4. p + q \in Nat /\ (p + q) + Len(t) <= Len(whole)
  BY <1>1, <1>2
<1> QED BY <1>2, <1>3, <1>4 DEF Behind

\* The elements of a short piece.
LEMMA BehindTwo ==
  ASSUME NEW whole, NEW p, NEW a, NEW b, Behind(whole, p, <<a, b>>)
  PROVE  p \in Nat /\ whole[p + 1] = a /\ whole[p + 2] = b /\ p + 2 <= Len(whole)
<1>1. Len(<<a, b>>) = 2 /\ 1 \in 1 .. 2 /\ 2 \in 1 .. 2
  OBVIOUS
<1> QED BY <1>1 DEF Behind

LEMMA BehindThree ==
  ASSUME NEW whole, NEW p, NEW a, NEW b, NEW c, Behind(whole, p, <<a, b, c>>)
  PROVE  /\ p \in Nat /\ whole[p + 1] = a /\ whole[p + 2] = b /\ whole[p + 3] = c
         /\ p + 3 <= Len(whole)
<1>1. Len(<<a, b, c>>) = 3 /\ 1 \in 1 .. 3 /\ 2 \in 1 .. 3 /\ 3 \in 1 .. 3
  OBVIOUS
<1> QED BY <1>1 DEF Behind

\* Where the parts of a header line are that begins at p.
LineParts(X, all, p, key, value) ==
  /\ all \in Seq(X) /\ p \in Nat \ {0} /\ Len(key) \in Nat \ {0} /\ Len(value) \in Nat
  /\ p + Len(key) + Len(value) + 3 <= Len(all)
  /\ \A j \in 1 .. Len(key) : all[p - 1 + j] = key[j]
  /\ all[p + Len(key)] = ":" /\ all[p + Len(key) + 1] = " "
  /\ \A j \in 1 .. Len(value) : all[p + Len(key) + 1 + j] = value[j]
  /\ all[p + Len(key) + Len(value) + 2] = "\r" /\ all[p + Len(key) + Len(value) + 3] = "\n"

\* The parts of a header line that is in a text
LEMMA LinePartsAt ==
  ASSUME NEW header \in HeaderPairs, header[1] # <<>>, NEW X, NEW all \in Seq(X), NEW p \in Nat \ {0},
         Behind(all, p - 1, HeaderLine(header))
  PROVE  LineParts(X, all, p, header[1], header[2])
<1> DEFINE key == header[1]
           value == header[2]
           colon == <<":", " ">>
           a == key \o colon
           b == a \o value
           line == b \o CRLF
           T == Printed
<1>1. Text(key, T, Len(key)) /\ Text(value, T, Len(value))
  <2>1. key \in Seq(HeaderTokens) /\ value \in Seq(HeaderTokens)
    BY DEF HeaderPairs
  <2> HIDE DEF key, value
  <2>2. key \in Seq(Printed) /\ value \in Seq(Printed)
    BY <2>1, PrintedFacts, SubsetSeq
  <2> QED BY <2>2 DEF Text
<1>2. Text(colon, T, 2) /\ Text(CRLF, T, 2)
  <2>1. ":" \in Printed /\ " " \in Printed /\ "\r" \in Printed /\ "\n" \in Printed
    BY DEF Printed, HeaderTokens
  <2> QED BY <2>1, FewTokens DEF CRLF
<1>3. HeaderLine(header) = line
  BY DEF HeaderLine
<1>4. Len(key) \in Nat \ {0} /\ Len(value) \in Nat /\ Len(all) \in Nat
  <2>1. Len(key) \in Nat /\ Len(value) \in Nat
    BY <1>1 DEF Text
  <2>2. key # <<>> /\ key \in Seq(T)
    BY <1>1 DEF Text
  <2> HIDE DEF key, T
  <2>3. Len(key) # 0
    BY <2>2
  <2> QED BY <2>1, <2>3
<1> HIDE DEF key, value, colon, T
<1>5. Text(a, T, Len(key) + 2)
  BY <1>1, <1>2, Joined
<1>6. Text(b, T, (Len(key) + 2) + Len(value))
  <2> HIDE DEF a
  <2> QED BY <1>1, <1>5, Joined
<1>7. Behind(line, 0, key) /\ Behind(line, Len(key), colon)
  <2>1. Behind(a, Len(key), colon) /\ Behind(a, 0, key)
    <3>1. key \in Seq(T) /\ colon \in Seq(T)
      BY <1>1, <1>2 DEF Text
    <3>2. Behind(key, 0, key)
      BY <3>1, BehindAll
    <3> QED BY <3>1, <3>2, BehindFirst, BehindMore
  <2> HIDE DEF a
  <2>2. Behind(b, Len(key), colon) /\ Behind(b, 0, key)
    <3>1. a \in Seq(T) /\ value \in Seq(T)
      BY <1>1, <1>5 DEF Text
    <3> QED BY <2>1, <3>1, BehindMore
  <2> HIDE DEF b
  <2>3. b \in Seq(T) /\ CRLF \in Seq(T)
    BY <1>2, <1>6 DEF Text
  <2> QED BY <2>2, <2>3, BehindMore
<1>8. Behind(line, Len(key) + 2, value)
  <2>1. a \in Seq(T) /\ value \in Seq(T) /\ Len(a) = Len(key) + 2
    BY <1>1, <1>5 DEF Text
  <2> HIDE DEF a
  <2>2. Behind(b, Len(key) + 2, value)
    BY <2>1, BehindFirst
  <2>3. b \in Seq(T) /\ CRLF \in Seq(T)
    BY <1>2, <1>6 DEF Text, a
  <2> HIDE DEF b
  <2> QED BY <2>2, <2>3, BehindMore
<1>9. Behind(line, (Len(key) + 2) + Len(value), CRLF)
  <2>1. b \in Seq(T) /\ CRLF \in Seq(T) /\ Len(b) = (Len(key) + 2) + Len(value)
    BY <1>2, <1>6 DEF Text
  <2> HIDE DEF b
  <2> QED BY <2>1, BehindFirst
<1> HIDE DEF line
<1>10. Behind(all, p - 1, line) /\ p - 1 \in Nat
  BY <1>3
<1>11. Behind(all, (p - 1) + 0, key)
  BY <1>4, <1>7, <1>10, BehindWithin
<1>12. Behind(all, (p - 1) + Len(key), colon)
  BY <1>4, <1>7, <1>10, BehindWithin
<1>13. Behind(all, (p - 1) + (Len(key) + 2), value)
  BY <1>4, <1>8, <1>10, BehindWithin
<1>14. Behind(all, (p - 1) + ((Len(key) + 2) + Len(value)), CRLF)
  BY <1>4, <1>9, <1>10, BehindWithin
<1>15. \A j \in 1 .. Len(key) : all[p - 1 + j] = key[j]
  <2>1. (p - 1) + 0 = p - 1
    OBVIOUS
  <2> QED BY <1>11, <2>1 DEF Behind
<1>16. all[p + Len(key)] = ":" /\ all[p + Len(key) + 1] = " "
  <2>1. ((p - 1) + Len(key)) + 1 = p + Len(key) /\ ((p - 1) + Len(key)) + 2 = p + Len(key) + 1
    BY <1>4
  <2>2. all[((p - 1) + Len(key)) + 1] = ":" /\ all[((p - 1) + Len(key)) + 2] = " "
    BY <1>12, BehindTwo DEF colon
  <2> QED BY <2>1, <2>2
<1>17. \A j \in 1 .. Len(value) : all[p + Len(key) + 1 + j] = value[j]
  <2>1. (p - 1) + (Len(key) + 2) = p + Len(key) + 1
    BY <1>4
  <2> QED BY <1>13, <2>1 DEF Behind
<1>18. /\ all[p + Len(key) + Len(value) + 2] = "\r" /\ all[p + Len(key) + Len(value) + 3] = "\n"
       /\ p + Len(key) + Len(value) + 3 <= Len(all)
  <2> DEFINE q == (p - 1) + ((Len(key) + 2) + Len(value))
  <2>1. /\ q + 1 = p + Len(key) + Len(value) + 2 /\ q + 2 = p + Len(key) + Len(value) + 3
    BY <1>4
  <2>2. all[q + 1] = "\r" /\ all[q + 2] = "\n" /\ q + 2 <= Len(all)
    <3> HIDE DEF q
    <3> QED BY <1>14, BehindTwo DEF CRLF, q
  <2> HIDE DEF q
  <2> QED BY <2>1, <2>2
<1> QED BY <1>4, <1>15, <1>16, <1>17, <1>18 DEF LineParts, key, value

\* What was received is the beginning of a text.
Cut(X, raw, all) ==
  /\ raw \in Seq(X) /\ all \in Seq(X) /\ Len(raw) \in Nat /\ Len(all) \in Nat /\ Len(raw) <= Len(all)
  /\ \A j \in 1 .. Len(raw) : raw[j] = all[j]

\* The line that the loop takes from position p: read if all of it was received.
ReadLine(raw, key, value, rest) ==
  IF rest = <<>> THEN <<>>
  ELSE <<[headers |-> FirstWins(key, value, rest[1].headers), body |-> rest[1].body]>>

\* The words of a line: the key has no colon, the value no blank at its start.
LineWords(key, value) ==
  /\ key \in Seq(Words) /\ value \in Seq(Words \cup {" ", ":"})
  /\ value # <<>> => value[1] # " "

\* The search for the colon ends behind the key, if that much was received.
LEMMA KeyFound ==
  ASSUME NEW X, NEW raw, NEW all, Cut(X, raw, all), NEW p, NEW key, NEW value,
         LineParts(X, all, p, key, value), LineWords(key, value)
  PROVE  /\ Len(raw) < p + Len(key) => Find(raw, p, ":") = 0
         /\ p + Len(key) <= Len(raw) => Find(raw, p, ":") = p + Len(key)
<1> DEFINE c == p + Len(key)
<1>1. /\ raw \in Seq(X) /\ Len(raw) \in Nat /\ Len(all) \in Nat /\ p \in Nat /\ p # 0
      /\ \A j \in 1 .. Len(raw) : raw[j] = all[j]
      /\ Len(key) \in Nat /\ Len(key) # 0
  BY DEF Cut, LineParts
<1>2. all[c] = ":" /\ \A j \in 1 .. Len(key) : all[p - 1 + j] = key[j]
  BY DEF LineParts
<1>3. \A j \in 1 .. Len(key) : key[j] # ":"
  <2>1. \A j \in 1 .. Len(key) : key[j] \in Words
    <3>1. key \in Seq(Words)
      BY DEF LineWords
    <3> QED BY <3>1, ElementFacts, Zenon
  <2>2. ":" \notin Words
    BY HttpAssumption DEF HttpAssumption
  <2> QED BY <2>1, <2>2
<1>4. ASSUME NEW j \in p .. Len(raw), j < c PROVE raw[j] # ":"
  <2>1. j - p + 1 \in 1 .. Len(key) /\ p - 1 + (j - p + 1) = j /\ j \in 1 .. Len(raw)
    BY <1>1, <1>4
  <2>2. all[p - 1 + (j - p + 1)] = key[j - p + 1]
    BY <1>2, <2>1
  <2>3. raw[j] = key[j - p + 1]
    BY <1>1, <2>1, <2>2
  <2> QED BY <1>3, <2>1, <2>3
<1>5. ASSUME Len(raw) < c PROVE Find(raw, p, ":") = 0
  <2>1. \A j \in p .. Len(raw) : j < c
    BY <1>1, <1>5
  <2>2. \A j \in p .. Len(raw) : raw[j] # ":"
    BY <1>4, <2>1
  <2> QED BY <2>2, FindNothing
<1>6. ASSUME c <= Len(raw) PROVE Find(raw, p, ":") = c
  <2>1. c \in p .. Len(raw) /\ c \in 1 .. Len(raw)
    BY <1>1, <1>6
  <2>2. raw[c] = ":"
    BY <1>1, <1>2, <2>1
  <2>3. \A j \in p .. Len(raw) : ~(j < c) => c <= j
    BY <1>1
  <2>4. \A j \in p .. Len(raw) : raw[j] = ":" => c <= j
    BY <1>4, <2>3
  <2> HIDE DEF c
  <2> QED BY <1>1, <2>1, <2>2, <2>4, FindFacts
<1> QED BY <1>5, <1>6

\* The blanks end at the value, if that much was received.
LEMMA ValueFound ==
  ASSUME NEW X, NEW raw, NEW all, Cut(X, raw, all), NEW p, NEW key, NEW value,
         LineParts(X, all, p, key, value), LineWords(key, value), NEW q, q = p + Len(key) + 2
  PROVE  /\ Len(raw) < q => SkipSpaces(raw, q - 1) = 0
         /\ q <= Len(raw) => SkipSpaces(raw, q - 1) = q
<1>1. /\ raw \in Seq(X) /\ Len(raw) \in Nat /\ Len(all) \in Nat /\ p \in Nat /\ p # 0
      /\ \A j \in 1 .. Len(raw) : raw[j] = all[j]
      /\ Len(key) \in Nat /\ Len(value) \in Nat
  BY DEF Cut, LineParts
<1>2. q \in Nat /\ q - 1 \in Nat /\ q - 1 # 0
  BY <1>1
<1>3. all[q - 1] = " "
  <2>1. q - 1 = p + Len(key) + 1
    BY <1>1
  <2> QED BY <2>1 DEF LineParts
<1>4. all[q] # " "
  <2>1. CASE value = <<>>
    <3>1. q = p + Len(key) + Len(value) + 2
      BY <1>1, <2>1
    <3>2. all[q] = "\r"
      BY <3>1 DEF LineParts
    <3> QED BY <3>2
  <2>2. CASE value # <<>>
    <3>1. 1 \in 1 .. Len(value) /\ value[1] # " "
      <4>1. value \in Seq(Words \cup {" ", ":"}) /\ value[1] # " "
        BY <2>2 DEF LineWords
      <4>2. 1 \in 1 .. Len(value)
        BY <2>2, <4>1, ElementFacts, Zenon
      <4> QED BY <4>1, <4>2
    <3>2. p + Len(key) + 1 + 1 = q
      BY <1>1
    <3>3. all[p + Len(key) + 1 + 1] = value[1]
      BY <3>1 DEF LineParts
    <3> QED BY <3>1, <3>2, <3>3
  <2> QED BY <2>1, <2>2
<1>5. ASSUME Len(raw) < q PROVE SkipSpaces(raw, q - 1) = 0
  <2>1. \A j \in q - 1 .. Len(raw) : j = q - 1 /\ j \in 1 .. Len(raw)
    BY <1>1, <1>2, <1>5
  <2>2. \A j \in q - 1 .. Len(raw) : raw[j] = " "
    BY <1>1, <1>3, <2>1
  <2> QED BY <2>2, SkipNothing
<1>6. ASSUME q <= Len(raw) PROVE SkipSpaces(raw, q - 1) = q
  <2>1. q \in q - 1 .. Len(raw) /\ q \in 1 .. Len(raw) /\ q - 1 \in 1 .. Len(raw)
    BY <1>1, <1>2, <1>6
  <2>2. raw[q] # " " /\ raw[q - 1] = " "
    BY <1>1, <1>3, <1>4, <2>1
  <2>3. \A j \in q - 1 .. Len(raw) : j # q - 1 => q <= j
    BY <1>1, <1>2
  <2>4. \A j \in q - 1 .. Len(raw) : raw[j] # " " => q <= j
    BY <2>2, <2>3
  <2> QED BY <1>1, <1>2, <2>1, <2>2, <2>4, SkipFacts
<1> QED BY <1>5, <1>6

\* The search for the carriage return ends behind the value, if that much was received.
LEMMA EndFound ==
  ASSUME NEW X, NEW raw, NEW all, Cut(X, raw, all), NEW p, NEW key, NEW value,
         LineParts(X, all, p, key, value), LineWords(key, value), NEW q, q = p + Len(key) + 2
  PROVE  /\ Len(raw) < q + Len(value) => Find(raw, q, "\r") = 0
         /\ q + Len(value) <= Len(raw) => Find(raw, q, "\r") = q + Len(value)
<1> DEFINE c == q + Len(value)
<1>1. /\ raw \in Seq(X) /\ Len(raw) \in Nat /\ Len(all) \in Nat /\ p \in Nat /\ p # 0
      /\ \A j \in 1 .. Len(raw) : raw[j] = all[j]
      /\ Len(key) \in Nat /\ Len(value) \in Nat
  BY DEF Cut, LineParts
<1>2. all[c] = "\r" /\ \A j \in 1 .. Len(value) : all[q - 1 + j] = value[j]
  <2>1. c = p + Len(key) + Len(value) + 2 /\ q - 1 = p + Len(key) + 1
    BY <1>1
  <2> QED BY <2>1 DEF LineParts
<1>3. \A j \in 1 .. Len(value) : value[j] # "\r"
  <2>1. \A j \in 1 .. Len(value) : value[j] \in Words \cup {" ", ":"}
    <3>1. value \in Seq(Words \cup {" ", ":"})
      BY DEF LineWords
    <3> QED BY <3>1, ElementFacts, Zenon
  <2>2. "\r" \notin Words \cup {" ", ":"}
    BY HttpAssumption DEF HttpAssumption
  <2> QED BY <2>1, <2>2
<1>4. ASSUME NEW j \in q .. Len(raw), j < c PROVE raw[j] # "\r"
  <2>1. j - q + 1 \in 1 .. Len(value) /\ q - 1 + (j - q + 1) = j /\ j \in 1 .. Len(raw)
    BY <1>1, <1>4
  <2>2. all[q - 1 + (j - q + 1)] = value[j - q + 1]
    BY <1>2, <2>1
  <2>3. raw[j] = value[j - q + 1]
    BY <1>1, <2>1, <2>2
  <2> QED BY <1>3, <2>1, <2>3
<1>5. ASSUME Len(raw) < c PROVE Find(raw, q, "\r") = 0
  <2>1. \A j \in q .. Len(raw) : j < c
    BY <1>1, <1>5
  <2>2. \A j \in q .. Len(raw) : raw[j] # "\r"
    BY <1>4, <2>1
  <2> QED BY <2>2, FindNothing
<1>6. ASSUME c <= Len(raw) PROVE Find(raw, q, "\r") = c
  <2>1. c \in q .. Len(raw) /\ c \in 1 .. Len(raw) /\ q \in Nat
    BY <1>1, <1>6
  <2>2. raw[c] = "\r"
    BY <1>1, <1>2, <2>1
  <2>3. \A j \in q .. Len(raw) : ~(j < c) => c <= j
    BY <1>1
  <2>4. \A j \in q .. Len(raw) : raw[j] = "\r" => c <= j
    BY <1>4, <2>3
  <2> HIDE DEF c
  <2> QED BY <1>1, <2>1, <2>2, <2>4, FindFacts
<1> QED BY <1>5, <1>6

\* The end of a line is two tokens.
LEMMA AtTwo ==
  ASSUME NEW raw, Len(raw) \in Nat, NEW i \in Nat
  PROVE  At(raw, i, CRLF) <=> i + 1 <= Len(raw) /\ raw[i] = "\r" /\ raw[i + 1] = "\n"
<1>1. /\ Len(CRLF) = 2 /\ DOMAIN CRLF = {1, 2} /\ CRLF[1] = "\r" /\ CRLF[2] = "\n"
  BY DEF CRLF
<1>2. i + 2 - 1 = i + 1 /\ i + 1 - 1 = i
  OBVIOUS
<1> QED BY <1>1, <1>2 DEF At

\* A piece that was received is cut out of the text.
Piece(X, raw, all, p, s, r) ==
  /\ Cut(X, raw, all) /\ p \in Nat \ {0} /\ Len(s) \in Nat
  /\ r = p - 1 + Len(s) /\ r <= Len(raw)
  /\ \A j \in 1 .. Len(s) : all[p - 1 + j] = s[j]

LEMMA CutOut ==
  ASSUME NEW X, NEW raw, NEW all, NEW p, NEW Y, NEW s \in Seq(Y), NEW r, Piece(X, raw, all, p, s, r)
  PROVE  SubSeq(raw, p, r) = s
<1> USE DEF Piece
<1>1. raw \in Seq(X) /\ Len(raw) \in Nat /\ \A j \in 1 .. Len(raw) : raw[j] = all[j]
  BY DEF Cut
<1>2. Len(s) \in Nat /\ p \in Nat /\ p # 0
  OBVIOUS
<1> DEFINE t == SubSeq(raw, p, r)
<1>3. /\ t \in Seq(X) /\ Len(t) = Len(s)
      /\ \A j \in 1 .. Len(s) : t[j] = raw[p - 1 + j]
  <2>1. r - p + 1 = Len(s) /\ \A j \in 1 .. Len(s) : p + j - 1 = p - 1 + j
    BY <1>2
  <2>0. r \in Nat /\ \A j \in p .. r : j \in 1 .. Len(raw)
    BY <1>1, <1>2
  <2>2. t \in Seq(X) /\ Len(t) = Len(s)
    <3>1. t \in Seq(X)
      BY <1>1, <1>2, <2>0
    <3>2. Len(t) = IF p <= r THEN r - p + 1 ELSE 0
      BY <1>1, <1>2, <2>0
    <3> QED BY <1>2, <3>1, <3>2
  <2>3. \A j \in 1 .. Len(s) : t[j] = raw[p + j - 1]
    BY <1>1, <1>2
  <2> QED BY <2>1, <2>2, <2>3
<1>4. \A j \in 1 .. Len(s) : p - 1 + j \in 1 .. Len(raw)
  BY <1>1, <1>2
<1>5. \A j \in 1 .. Len(s) : t[j] = s[j]
  BY <1>1, <1>3, <1>4
<1> HIDE DEF t
<1>6. t \in Seq(X \cup Y) /\ s \in Seq(X \cup Y)
  BY <1>3, SubsetSeq
<1>7. t = s
  BY <1>3, <1>5, <1>6, SeqEqual
<1> QED BY <1>7 DEF t

\* What is made of a line, if the position behind it is in the text.
LineRead(raw, key, value, next, from) ==
  IF next <= Len(raw) + 1 THEN ReadLine(raw, key, value, from[next]) ELSE <<>>

\* The loop takes a line that was received as a whole, and leaves the text in one that
\* was cut.
LEMMA LineTurn ==
  ASSUME NEW X, NEW raw, NEW all, Cut(X, raw, all), NEW p, NEW key, NEW value,
         LineParts(X, all, p, key, value), LineWords(key, value),
         NEW next, next = p + Len(key) + Len(value) + 4, NEW g
  PROVE  HeaderTurn(raw, p, g) = LineRead(raw, key, value, next, g)
<1> USE DEF LineRead
<1> DEFINE c == p + Len(key)
           q == p + Len(key) + 2
           e == q + Len(value)
           colon == Find(raw, p, ":")
           val == IF colon = 0 THEN 0 ELSE SkipSpaces(raw, colon + 1)
           cr == IF val = 0 THEN 0 ELSE Find(raw, val, "\r")
<1>1. /\ Len(raw) \in Nat /\ Len(all) \in Nat /\ p \in Nat /\ p # 0
      /\ \A j \in 1 .. Len(raw) : raw[j] = all[j]
      /\ Len(key) \in Nat /\ Len(key) # 0 /\ Len(value) \in Nat
  BY DEF Cut, LineParts
<1>2. /\ c \in Nat /\ q \in Nat /\ e \in Nat /\ c + 1 = q - 1 /\ q + Len(value) = e
      /\ next = e + 2 /\ c # 0 /\ q # 0 /\ e # 0 /\ c < q /\ q <= e
  BY <1>1
<1>3. ~HeadersEnd(raw, p)
  <2> SUFFICES ASSUME p + 1 <= Len(raw), raw[p] = "\r" PROVE FALSE
    BY <1>1, AtTwo DEF HeadersEnd
  <2>1. p \in 1 .. Len(raw) /\ 1 \in 1 .. Len(key) /\ p - 1 + 1 = p
    BY <1>1
  <2>2. all[p - 1 + 1] = key[1]
    BY <2>1 DEF LineParts
  <2>3. key[1] \in Words
    <3>1. key \in Seq(Words)
      BY DEF LineWords
    <3> QED BY <2>1, <3>1, ElementFacts, Zenon
  <2>4. "\r" \notin Words
    BY HttpAssumption DEF HttpAssumption
  <2> QED BY <1>1, <2>1, <2>2, <2>3, <2>4
<1>4. /\ Len(raw) < c => colon = 0
      /\ c <= Len(raw) => colon = c
  BY KeyFound
<1>5. /\ Len(raw) < q => SkipSpaces(raw, q - 1) = 0
      /\ q <= Len(raw) => SkipSpaces(raw, q - 1) = q
  BY ValueFound
<1>6. /\ Len(raw) < e => Find(raw, q, "\r") = 0
      /\ e <= Len(raw) => Find(raw, q, "\r") = e
  BY EndFound
<1>7. HeaderTurn(raw, p, g) =
        IF cr = 0 \/ ~At(raw, cr, CRLF) THEN <<>>
        ELSE ReadLine(raw, SubSeq(raw, p, colon - 1), SubSeq(raw, val, cr - 1), g[cr + 2])
  BY <1>3 DEF HeaderTurn, ReadLine
<1> HIDE DEF c, q, e
<1>8. CASE Len(raw) < q
  <2>1. val = 0
    <3>1. CASE Len(raw) < c
      BY <1>4, <3>1
    <3>2. CASE c <= Len(raw)
      BY <1>2, <1>4, <1>5, <1>8, <3>2
    <3> QED BY <1>1, <1>2, <3>1, <3>2
  <2>2. cr = 0
    BY <2>1
  <2>3. ~(next <= Len(raw) + 1)
    BY <1>1, <1>2, <1>8
  <2> QED BY <1>7, <2>2, <2>3
<1>9. CASE q <= Len(raw)
  <2>1. colon = c
    <3>1. c <= Len(raw)
      BY <1>1, <1>2, <1>9
    <3> QED BY <1>4, <3>1
  <2>2. val = q
    BY <1>2, <1>5, <1>9, <2>1
  <2> HIDE DEF colon, val
  <2>3. CASE Len(raw) < e
    <3>1. cr = 0
      BY <1>6, <2>2, <2>3
    <3>2. ~(next <= Len(raw) + 1)
      BY <1>1, <1>2, <2>3
    <3> QED BY <1>7, <3>1, <3>2
  <2>4. CASE e <= Len(raw)
    <3>1. cr = e
      BY <1>2, <1>6, <2>2, <2>4
    <3> HIDE DEF cr
    <3>2. e \in 1 .. Len(raw) /\ all[e] = "\r" /\ all[e + 1] = "\n"
      <4>1. e = p + Len(key) + Len(value) + 2 /\ e + 1 = p + Len(key) + Len(value) + 3
        BY <1>1 DEF e, q
      <4>2. all[e] = "\r" /\ all[e + 1] = "\n"
        BY <4>1 DEF LineParts
      <4> QED BY <1>1, <1>2, <2>4, <4>2
    <3>3. At(raw, cr, CRLF) <=> next <= Len(raw) + 1
      <4>1. e + 1 <= Len(raw) => raw[e] = "\r" /\ raw[e + 1] = "\n"
        <5>1. e + 1 <= Len(raw) => e + 1 \in 1 .. Len(raw)
          BY <1>1, <1>2
        <5> QED BY <1>1, <3>2, <5>1
      <4>2. At(raw, e, CRLF) <=> e + 1 <= Len(raw)
        BY <1>1, <1>2, <4>1, AtTwo
      <4>3. e + 1 <= Len(raw) <=> next <= Len(raw) + 1
        BY <1>1, <1>2
      <4> QED BY <3>1, <4>2, <4>3
    <3>4. SubSeq(raw, p, colon - 1) = key
      <4>1. c - 1 = p - 1 + Len(key) /\ c - 1 <= Len(raw) /\ p \in Nat \ {0}
        BY <1>1, <1>2, <1>9 DEF c
      <4>2. key \in Seq(Words) /\ \A j \in 1 .. Len(key) : all[p - 1 + j] = key[j]
        BY DEF LineParts, LineWords
      <4>3. SubSeq(raw, p, c - 1) = key
        <5>1. Piece(X, raw, all, p, key, c - 1)
          BY <1>1, <4>1, <4>2 DEF Piece
        <5> QED BY <4>2, <5>1, CutOut, Zenon
      <4> QED BY <2>1, <4>3
    <3>5. SubSeq(raw, val, cr - 1) = value
      <4>1. e - 1 = q - 1 + Len(value) /\ e - 1 <= Len(raw) /\ q \in Nat \ {0}
        BY <1>1, <1>2, <2>4
      <4> DEFINE Y == Words \cup {" ", ":"}
      <4>2. value \in Seq(Y)
        BY DEF LineWords
      <4> HIDE DEF Y
      <4>3. \A j \in 1 .. Len(value) : all[q - 1 + j] = value[j]
        <5>1. q - 1 = p + Len(key) + 1
          BY <1>1 DEF q
        <5> QED BY <5>1 DEF LineParts
      <4> DEFINE r == e - 1
      <4> HIDE DEF r
      <4>4. r = q - 1 + Len(value) /\ r <= Len(raw)
        BY <4>1 DEF r
      <4>5. SubSeq(raw, q, r) = value
        <5>1. Piece(X, raw, all, q, value, r)
          BY <1>1, <4>1, <4>3, <4>4 DEF Piece
        <5> QED BY <4>2, <5>1, CutOut, Zenon
      <4>6. SubSeq(raw, q, e - 1) = value
        BY <4>5 DEF r
      <4> QED BY <2>2, <3>1, <4>6
    <3>6. cr + 2 = next /\ cr # 0
      BY <1>2, <3>1
    <3> QED BY <1>7, <3>3, <3>4, <3>5, <3>6
  <2> QED BY <1>1, <1>2, <2>3, <2>4
<1> QED BY <1>1, <1>2, <1>8, <1>9

\* The headers of the lines from the i-th on: the first with a key counts.
HeadersOf(lines, i) ==
  [key \in {lines[j][1] : j \in i .. Len(lines)} |->
     lines[Min({j \in i .. Len(lines) : lines[j][1] = key})][2]]

\* Before a line, its header comes to those of the lines behind it.
LEMMA HeadersOfMore ==
  ASSUME NEW lines, Len(lines) \in Nat, NEW i \in 1 .. Len(lines)
  PROVE  FirstWins(lines[i][1], lines[i][2], HeadersOf(lines, i + 1)) = HeadersOf(lines, i)
<1> DEFINE key == lines[i][1]
           value == lines[i][2]
           I(m) == m .. Len(lines)
           K(m) == {lines[j][1] : j \in I(m)}
           S(m, k) == {j \in I(m) : lines[j][1] = k}
           more == HeadersOf(lines, i + 1)
<1>1. I(i) = {i} \cup I(i + 1) /\ i \notin I(i + 1) /\ I(i) \subseteq Nat /\ i \in Nat
      /\ \A j \in I(i) : i <= j
  OBVIOUS
<1>2. /\ HeadersOf(lines, i) = [k \in K(i) |-> lines[Min(S(i, k))][2]]
      /\ more = [k \in K(i + 1) |-> lines[Min(S(i + 1, k))][2]]
  BY DEF HeadersOf
<1> HIDE DEF I, more
<1>3. K(i) = {key} \cup K(i + 1)
  BY <1>1
<1>4. Min(S(i, key)) = i
  <2>1. i \in S(i, key) /\ S(i, key) \in SUBSET Nat /\ \A j \in S(i, key) : i <= j
    BY <1>1
  <2> HIDE DEF S
  <2> QED BY <2>1, LeastIs
<1>5. ASSUME NEW k, k # key PROVE S(i, k) = S(i + 1, k)
  BY <1>1, <1>5
<1>6. DOMAIN more = K(i + 1)
  BY <1>2
<1>7. FirstWins(key, value, more) = [k \in {key} \cup K(i + 1) |-> IF k = key THEN value ELSE more[k]]
  BY <1>6 DEF FirstWins
<1> HIDE DEF S, key, value
<1>8. ASSUME NEW k \in {key} \cup K(i + 1)
      PROVE  (IF k = key THEN value ELSE more[k]) = lines[Min(S(i, k))][2]
  <2>1. CASE k = key
    BY <1>4, <2>1 DEF value
  <2>2. CASE k # key
    <3>1. k \in K(i + 1)
      BY <1>8, <2>2
    <3> HIDE DEF K
    <3>2. more[k] = lines[Min(S(i + 1, k))][2]
      BY <1>2, <3>1
    <3> QED BY <1>5, <2>2, <3>2
  <2> QED BY <2>1, <2>2
<1> HIDE DEF K
<1>9. FirstWins(key, value, more) = [k \in K(i) |-> lines[Min(S(i, k))][2]]
  BY <1>3, <1>7, <1>8
<1> QED BY <1>2, <1>9 DEF key, value, more

\* Behind the last line there are no headers.
LEMMA HeadersOfNone ==
  ASSUME NEW lines, Len(lines) \in Nat
  PROVE  HeadersOf(lines, Len(lines) + 1) = <<>>
<1>1. Len(lines) + 1 .. Len(lines) = {}
  OBVIOUS
<1>2. {lines[j][1] : j \in Len(lines) + 1 .. Len(lines)} = {}
  BY <1>1
<1> QED BY <1>2 DEF HeadersOf

\* From the first line on, they are those a client means.
LEMMA HeadersOfAll ==
  ASSUME NEW X, NEW lines \in Seq(X)
  PROVE  FirstValues(lines) = HeadersOf(lines, 1)
<1> DEFINE S(key) == {j \in 1 .. Len(lines) : lines[j][1] = key}
<1>1. DOMAIN lines = 1 .. Len(lines)
  OBVIOUS
<1>2. \A key : SelectInSeq(lines, LAMBDA line : line[1] = key) = IF S(key) # {} THEN Min(S(key)) ELSE 0
  BY DEF SelectInSeq
<1>3. \A key \in {lines[i][1] : i \in DOMAIN lines} : S(key) # {}
  BY <1>1
<1>4. \A key \in {lines[i][1] : i \in DOMAIN lines} :
        SelectInSeq(lines, LAMBDA line : line[1] = key) = Min(S(key))
  BY <1>2, <1>3
<1>5. FirstValues(lines) = [key \in {lines[i][1] : i \in DOMAIN lines} |-> lines[Min(S(key))][2]]
  BY <1>4 DEF FirstValues
<1> QED BY <1>1, <1>5 DEF HeadersOf

\* A line of a client has such words.
LEMMA LineWordsOf ==
  ASSUME NEW header \in Lines
  PROVE  header \in HeaderPairs /\ header[1] # <<>> /\ LineWords(header[1], header[2])
<1>1. header \in HeaderPairs
  BY LinesFacts
<1>2. header[1] \in SeqOf(Words, MaxWord) \ {<<>>} /\ header[2] \in Values
  BY DEF Lines
<1>3. header[1] \in Seq(Words)
  BY <1>2, BoundedFacts
<1>4. header[2] \in Seq(Words \cup {" ", ":"})
  BY <1>2, BoundedFacts DEF Values
<1>5. header[2] # <<>> => header[2][1] # " "
  BY <1>2 DEF Values
<1> QED BY <1>1, <1>2, <1>3, <1>4, <1>5 DEF LineWords

\* A text of which the first lines are behind the first s elements, and an empty line
\* behind those; H is the length of the head.
HeadLines(X, raw, all, lines, pieces, whole, place, s, H) ==
  /\ Cut(X, raw, all) /\ lines \in Seq(Lines)
  /\ Len(pieces) = Len(lines) /\ \A k \in 1 .. Len(lines) : pieces[k] = HeaderLine(lines[k])
  /\ Len(whole) \in Nat /\ IsPlace(place, pieces, whole)
  /\ Behind(all, s, whole) /\ Behind(all, s + Len(whole), CRLF) /\ H = s + Len(whole) + 2

\* What is read from the i-th line on
ReadFrom(lines, i, H, received) ==
  IF received < H THEN <<>> ELSE <<[headers |-> HeadersOf(lines, i), body |-> H + 1]>>

\* What is made of the empty line behind the first t elements
LastRead(t, received) ==
  IF received < t + 2 THEN <<>> ELSE <<[headers |-> <<>>, body |-> t + 3]>>

\* The empty line ends the headers, if it was received.
LEMMA LastTurn ==
  ASSUME NEW X, NEW raw, NEW all, Cut(X, raw, all), NEW t, Behind(all, t, CRLF), t <= Len(raw),
         NEW g
  PROVE  HeaderTurn(raw, t + 1, g) = LastRead(t, Len(raw))
<1> USE DEF LastRead
<1>1. /\ Len(raw) \in Nat /\ t \in Nat /\ t + 1 \in Nat /\ (t + 1) + 1 = t + 2 /\ (t + 1) + 2 = t + 3
      /\ \A j \in 1 .. Len(raw) : raw[j] = all[j]
      /\ all[t + 1] = "\r" /\ all[t + 2] = "\n"
  <2>1. t \in Nat /\ all[t + 1] = "\r" /\ all[t + 2] = "\n"
    BY BehindTwo DEF CRLF
  <2> QED BY <2>1 DEF Cut
<1>2. CASE Len(raw) < t + 2
  <2>1. ~HeadersEnd(raw, t + 1)
    BY <1>1, <1>2, AtTwo DEF HeadersEnd
  <2>2. Find(raw, t + 1, ":") = 0
    <3>1. \A j \in t + 1 .. Len(raw) : j = t + 1 /\ j \in 1 .. Len(raw)
      BY <1>1, <1>2
    <3>2. \A j \in t + 1 .. Len(raw) : raw[j] = "\r"
      BY <1>1, <3>1
    <3>3. \A j \in t + 1 .. Len(raw) : raw[j] # ":"
      BY <3>2
    <3> QED BY <3>3, FindNothing
  <2> QED BY <1>2, <2>1, <2>2 DEF HeaderTurn
<1>3. CASE ~(Len(raw) < t + 2)
  <2>1. t + 1 \in 1 .. Len(raw) /\ t + 2 \in 1 .. Len(raw)
    BY <1>1, <1>3
  <2>2. At(raw, t + 1, CRLF)
    BY <1>1, <2>1, AtTwo
  <2>3. HeaderTurn(raw, t + 1, g) = <<[headers |-> <<>>, body |-> (t + 1) + 2]>>
    BY <2>2 DEF HeaderTurn, HeadersEnd
  <2> QED BY <1>1, <1>3, <2>3
<1> QED BY <1>2, <1>3

\* The loop reads the headers as they were meant if all of the head was received, and
\* nothing otherwise.
LEMMA HeaderLoop ==
  ASSUME NEW X, NEW raw, NEW all, NEW lines, NEW pieces, NEW whole, NEW place, NEW s, NEW H,
         HeadLines(X, raw, all, lines, pieces, whole, place, s, H), s <= Len(raw)
  PROVE  headersFrom(raw)[s + 1] = ReadFrom(lines, 1, H, Len(raw))
<1> DEFINE n == Len(lines)
           from == headersFrom(raw)
           WholeFrom(i) == s + place[i] <= Len(raw) =>
                        from[s + place[i] + 1] = ReadFrom(lines, i + 1, H, Len(raw))
           S == {m \in Nat : \A i \in 0 .. n : i + m = n => WholeFrom(i)}
<1>1. /\ Cut(X, raw, all) /\ raw \in Seq(X) /\ all \in Seq(X) /\ Len(raw) \in Nat /\ Len(all) \in Nat
      /\ lines \in Seq(Lines) /\ Len(pieces) = n
      /\ \A k \in 1 .. n : pieces[k] = HeaderLine(lines[k])
      /\ Len(whole) \in Nat /\ s \in Nat
      /\ Behind(all, s, whole) /\ Behind(all, s + Len(whole), CRLF) /\ H = s + Len(whole) + 2
  BY DEF HeadLines, Cut, Behind
<1>2. n \in Nat /\ \A k \in 1 .. n : lines[k] \in Lines
  BY <1>1, ElementFacts, Zenon
<1>3. /\ place \in [0 .. n -> Nat] /\ place[0] = 0 /\ place[n] = Len(whole)
      /\ \A k \in 1 .. n :
           /\ place[k] = place[k - 1] + Len(pieces[k])
           /\ place[k] <= Len(whole)
           /\ \A j \in 1 .. Len(pieces[k]) : whole[place[k - 1] + j] = pieces[k][j]
  BY <1>1 DEF HeadLines, IsPlace
<1>4. ASSUME NEW p \in 1 .. Len(raw) + 1 PROVE from[p] = HeaderTurn(raw, p, from)
  BY <1>1, HeadersFromFacts
<1> HIDE DEF n, from
<1>5. WholeFrom(n)
  <2> SUFFICES ASSUME s + place[n] <= Len(raw)
               PROVE  from[s + place[n] + 1] = ReadFrom(lines, n + 1, H, Len(raw))
    OBVIOUS
  <2> DEFINE t == s + Len(whole)
  <2>1. t \in Nat /\ t <= Len(raw) /\ t + 1 \in 1 .. Len(raw) + 1 /\ H = t + 2 /\ H + 1 = t + 3
        /\ s + place[n] + 1 = t + 1
    BY <1>1, <1>3
  <2>2. Behind(all, t, CRLF)
    BY <1>1
  <2> HIDE DEF t
  <2>3. from[t + 1] = IF Len(raw) < t + 2 THEN <<>> ELSE <<[headers |-> <<>>, body |-> t + 3]>>
    <3>1. from[t + 1] = HeaderTurn(raw, t + 1, from)
      BY <1>4, <2>1
    <3>2. HeaderTurn(raw, t + 1, from) = LastRead(t, Len(raw))
      BY <1>1, <2>1, <2>2, LastTurn
    <3> QED BY <3>1, <3>2 DEF LastRead
  <2>4. HeadersOf(lines, n + 1) = <<>>
    BY <1>2, HeadersOfNone DEF n
  <2> QED BY <2>1, <2>3, <2>4 DEF ReadFrom
<1>6. 0 \in S
  <2>1. \A i \in 0 .. n : i + 0 = n => i = n
    BY <1>2
  <2> HIDE DEF WholeFrom
  <2> QED BY <1>5, <2>1
<1>7. ASSUME NEW m \in Nat, m \in S PROVE m + 1 \in S
  <2> SUFFICES ASSUME NEW i \in 0 .. n, i + (m + 1) = n, s + place[i] <= Len(raw)
               PROVE  from[s + place[i] + 1] = ReadFrom(lines, i + 1, H, Len(raw))
    OBVIOUS
  <2> DEFINE k == i + 1
             u == place[i]
             w == place[k]
             line == HeaderLine(lines[k])
             key == lines[k][1]
             value == lines[k][2]
             l == Len(line)
             a == Len(key)
             b == Len(value)
             h == Len(whole)
             r == Len(raw)
             p == s + u + 1
             next == s + w + 1
  <2>1. k \in 1 .. n /\ k \in 0 .. n /\ k + m = n /\ k - 1 = i /\ k \in Nat
    BY <1>2
  <2>2. WholeFrom(k)
    BY <1>7, <2>1
  <2> HIDE DEF k
  <2>3. /\ lines[k] \in HeaderPairs /\ key # <<>> /\ LineWords(key, value)
    BY <1>2, <2>1, LineWordsOf
  <2>4. /\ u \in Nat /\ w = u + l /\ w <= h
        /\ \A j \in 1 .. l : whole[u + j] = line[j]
    BY <1>1, <1>3, <2>1
  <2>5. l \in Nat /\ l = a + 1 + 1 + b + 2
    BY <2>3, HeaderLineFacts DEF HeaderSize
  <2>6. Behind(whole, u, line)
    <3> HIDE DEF u, w, line
    <3>1. u + l <= Len(whole)
      BY <2>4
    <3> QED BY <1>1, <2>4, <2>5, <3>1 DEF Behind
  <2>7. Behind(all, s + u, line)
    BY <1>1, <2>6, BehindWithin
  <2>8. a \in Nat /\ b \in Nat
    <3>1. key \in Seq(Words) /\ value \in Seq(Words \cup {" ", ":"})
      BY <2>3 DEF LineWords
    <3> HIDE DEF key, value
    <3> QED BY <3>1, ElementFacts, Zenon
  <2>9. h \in Nat /\ r \in Nat /\ H = s + h + 2 /\ s + u <= r /\ s \in Nat
    BY <1>1
  <2> HIDE DEF u, w, line, l, a, b, h, r, key, value
  <2>10. /\ p \in Nat \ {0} /\ p - 1 = s + u /\ p \in 1 .. r + 1
         /\ next = p + a + b + 4 /\ next <= H
         /\ next <= r + 1 => s + w <= r
         /\ ~(next <= r + 1) => r < H
    <3>1. p \in Nat \ {0} /\ p - 1 = s + u /\ p \in 1 .. r + 1
      BY <2>4, <2>9
    <3>2. w \in Nat /\ next = p + a + b + 4
      BY <2>4, <2>5, <2>8, <2>9
    <3>3. next <= H /\ (next <= r + 1 => s + w <= r)
      BY <2>4, <2>9, <3>2
    <3>4. ~(next <= r + 1) => r < H
      BY <2>4, <2>9, <3>2
    <3> QED BY <3>1, <3>2, <3>3, <3>4
  <2> HIDE DEF p, next
  <2>11. LineParts(X, all, p, key, value)
    BY <1>1, <2>3, <2>7, <2>10, LinePartsAt DEF key, value, line
  <2>12. from[p] = IF next <= r + 1 THEN ReadLine(raw, key, value, from[next]) ELSE <<>>
    <3>1. from[p] = HeaderTurn(raw, p, from)
      BY <1>4, <2>10 DEF r
    <3>2. next = p + Len(key) + Len(value) + 4
      BY <2>10 DEF a, b
    <3>3. HeaderTurn(raw, p, from) = LineRead(raw, key, value, next, from)
      BY <1>1, <2>3, <2>11, <3>2, LineTurn
    <3> QED BY <3>1, <3>3 DEF r, LineRead
  <2>13. FirstWins(key, value, HeadersOf(lines, k + 1)) = HeadersOf(lines, k)
    BY <1>2, <2>1, HeadersOfMore DEF n, key, value
  <2>14. CASE next <= r + 1
    <3> DEFINE rest == ReadFrom(lines, k + 1, H, r)
    <3>1. from[next] = rest
      BY <2>2, <2>10, <2>14 DEF next, r, w
    <3>2. from[p] = ReadLine(raw, key, value, rest)
      BY <2>12, <2>14, <3>1
    <3>3. CASE r < H
      BY <3>2, <3>3 DEF ReadFrom, ReadLine, k, p, r, u
    <3>4. CASE ~(r < H)
      <4>1. rest = <<[headers |-> HeadersOf(lines, k + 1), body |-> H + 1]>>
        BY <3>4 DEF ReadFrom
      <4>2. rest # <<>> /\ rest[1].headers = HeadersOf(lines, k + 1) /\ rest[1].body = H + 1
        BY <4>1
      <4>3. ReadLine(raw, key, value, rest) = <<[headers |-> HeadersOf(lines, k), body |-> H + 1]>>
        BY <2>13, <4>2 DEF ReadLine
      <4> QED BY <3>2, <3>4, <4>3 DEF ReadFrom, k, p, r, u
    <3> QED BY <3>3, <3>4
  <2>15. CASE ~(next <= r + 1)
    <3>1. r < H
      BY <2>10, <2>15
    <3> QED BY <2>12, <2>15, <3>1 DEF ReadFrom, p, r, u
  <2> QED BY <2>14, <2>15
<1>8. n \in S
  <2> HIDE DEF S
  <2> QED BY <1>2, <1>6, <1>7, NumbersFromZero
<1>9. WholeFrom(0)
  <2> HIDE DEF WholeFrom
  <2>1. 0 \in 0 .. n /\ 0 + n = n
    BY <1>2
  <2> QED BY <1>8, <2>1
<1>10. s + place[0] <= Len(raw) /\ s + place[0] + 1 = s + 1 /\ 0 + 1 = 1
  BY <1>1, <1>3
<1>11. from[s + 1] = ReadFrom(lines, 1, H, Len(raw))
  BY <1>9, <1>10
<1> QED BY <1>11 DEF from

\* One more piece of a text: it is behind what is there, and that stays where it was.
LEMMA JoinedBehind ==
  ASSUME NEW X, NEW a, NEW m, Text(a, X, m), NEW b, NEW n, Text(b, X, n)
  PROVE  /\ Text(a \o b, X, m + n) /\ Behind(a \o b, m, b)
         /\ \A p, s : Behind(a, p, s) => Behind(a \o b, p, s)
<1>1. a \in Seq(X) /\ b \in Seq(X) /\ Len(a) = m
  BY DEF Text
<1>2. Text(a \o b, X, m + n)
  BY Joined
<1>3. Behind(a \o b, m, b)
  BY <1>1, BehindFirst
<1>4. ASSUME NEW p, NEW s, Behind(a, p, s) PROVE Behind(a \o b, p, s)
  BY <1>1, <1>4, BehindMore
<1> QED BY <1>2, <1>3, <1>4

\* Where the parts of a request are: u tokens of url, l of header lines, n of body.
RequestParts(X, all, method, url, u, version, whole, l, body, n) ==
  /\ Text(all, X, u + l + 9 + n)
  /\ Behind(all, 0, <<method, " ">>) /\ Behind(all, 2, url) /\ Len(url) = u /\ u \in Nat
  /\ Behind(all, u + 2, <<" ", "HTTP/", version>>) /\ Behind(all, u + 5, CRLF)
  /\ Behind(all, u + 7, whole) /\ Len(whole) = l /\ l \in Nat
  /\ Behind(all, u + 7 + l, CRLF) /\ Behind(all, u + l + 9, body) /\ Len(body) = n /\ n \in Nat

\* Lengths of the parts, added up.
LEMMA PartLengths ==
  ASSUME NEW u \in Nat, NEW l \in Nat, NEW n \in Nat
  PROVE  /\ 2 + u = u + 2 /\ (2 + u) + 3 = u + 5 /\ ((2 + u) + 3) + 2 = u + 7
         /\ (((2 + u) + 3) + 2) + l = u + 7 + l /\ ((((2 + u) + 3) + 2) + l) + 2 = u + l + 9
         /\ (((((2 + u) + 3) + 2) + l) + 2) + n = u + l + 9 + n
OBVIOUS

\* Where they are when the text is put together.
LEMMA RequestJoined ==
  ASSUME NEW X, NEW method, Text(<<method, " ">>, X, 2), NEW url, NEW u, Text(url, X, u),
         NEW version, Text(<<" ", "HTTP/", version>>, X, 3), Text(CRLF, X, 2),
         NEW whole, NEW l, Text(whole, X, l), NEW body, NEW n, Text(body, X, n),
         NEW head, head = <<method, " ">> \o url \o <<" ", "HTTP/", version>> \o CRLF \o whole \o CRLF
  PROVE  Len(head) = u + l + 9 /\ RequestParts(X, head \o body, method, url, u, version, whole, l, body, n)
<1> DEFINE a == <<method, " ">>
           c == <<" ", "HTTP/", version>>
           b == a \o url
           d == b \o c
           e == d \o CRLF
           f == e \o whole
           g == f \o CRLF
           all == g \o body
<1>0. u \in Nat /\ l \in Nat /\ n \in Nat /\ Len(url) = u /\ Len(whole) = l /\ Len(body) = n
  BY DEF Text
<1>1. head = g
  OBVIOUS
<1>2. Text(a, X, 2) /\ Text(c, X, 3) /\ Behind(a, 0, a)
  <2>1. Text(a, X, 2)
    OBVIOUS
  <2> HIDE DEF a
  <2>2. a \in Seq(X)
    BY <2>1 DEF Text
  <2> QED BY <2>1, <2>2, BehindAll
<1> HIDE DEF a, c
<1>3. /\ Text(b, X, 2 + u) /\ Behind(b, 2, url) /\ \A p, s : Behind(a, p, s) => Behind(b, p, s)
  BY <1>2, JoinedBehind
<1> HIDE DEF b
<1>4. /\ Text(d, X, (2 + u) + 3) /\ Behind(d, 2 + u, c) /\ \A p, s : Behind(b, p, s) => Behind(d, p, s)
  BY <1>2, <1>3, JoinedBehind
<1> HIDE DEF d
<1>5. /\ Text(e, X, ((2 + u) + 3) + 2) /\ Behind(e, (2 + u) + 3, CRLF)
      /\ \A p, s : Behind(d, p, s) => Behind(e, p, s)
  BY <1>4, JoinedBehind
<1> HIDE DEF e
<1>6. /\ Text(f, X, (((2 + u) + 3) + 2) + l) /\ Behind(f, ((2 + u) + 3) + 2, whole)
      /\ \A p, s : Behind(e, p, s) => Behind(f, p, s)
  BY <1>5, JoinedBehind
<1> HIDE DEF f
<1>7. /\ Text(g, X, ((((2 + u) + 3) + 2) + l) + 2) /\ Behind(g, (((2 + u) + 3) + 2) + l, CRLF)
      /\ \A p, s : Behind(f, p, s) => Behind(g, p, s)
  BY <1>6, JoinedBehind
<1> HIDE DEF g
<1>8. /\ Text(all, X, (((((2 + u) + 3) + 2) + l) + 2) + n)
      /\ Behind(all, ((((2 + u) + 3) + 2) + l) + 2, body)
      /\ \A p, s : Behind(g, p, s) => Behind(all, p, s)
  BY <1>7, JoinedBehind
<1> HIDE DEF all
<1>9. /\ Behind(all, 0, a) /\ Behind(all, 2, url) /\ Behind(all, 2 + u, c)
      /\ Behind(all, (2 + u) + 3, CRLF) /\ Behind(all, ((2 + u) + 3) + 2, whole)
      /\ Behind(all, (((2 + u) + 3) + 2) + l, CRLF)
  BY <1>2, <1>3, <1>4, <1>5, <1>6, <1>7, <1>8, Zenon
<1>10. /\ 2 + u = u + 2 /\ (2 + u) + 3 = u + 5 /\ ((2 + u) + 3) + 2 = u + 7
       /\ (((2 + u) + 3) + 2) + l = u + 7 + l /\ ((((2 + u) + 3) + 2) + l) + 2 = u + l + 9
       /\ (((((2 + u) + 3) + 2) + l) + 2) + n = u + l + 9 + n
  BY <1>0, PartLengths
<1>11. Len(head) = u + l + 9
  BY <1>1, <1>7, <1>10 DEF Text
<1>12. RequestParts(X, all, method, url, u, version, whole, l, body, n)
  BY <1>0, <1>8, <1>9, <1>10 DEF RequestParts, a, c
<1> QED BY <1>1, <1>11, <1>12 DEF all

\* The tokens of a request
Sent == Printed \cup Methods \cup {"x"}

\* What a client sends, with the places of its lines.
RequestOf(r, all, whole, pieces, place) ==
  /\ r.lines \in Seq(Lines) /\ r.url \in Seq(Words \cup {":"})
  /\ r.method \in Methods /\ r.version \in Versions
  /\ Len(pieces) = Len(r.lines) /\ \A k \in 1 .. Len(r.lines) : pieces[k] = HeaderLine(r.lines[k])
  /\ IsPlace(place, pieces, whole)
  /\ all = HeadText(r) \o r.body /\ Len(HeadText(r)) = Len(r.url) + Len(whole) + 9
  /\ r.body \in Seq(Sent)
  /\ RequestParts(Sent, all, r.method, r.url, Len(r.url), r.version, whole, Len(whole), r.body, Len(r.body))

\* Every request is such a text.
LEMMA RequestFacts ==
  ASSUME NEW r \in Requests
  PROVE  \E all, whole, pieces, place : RequestOf(r, all, whole, pieces, place)
<1> DEFINE pieces == [i \in DOMAIN r.lines |-> HeaderLine(r.lines[i])]
           whole == FlattenSeq(pieces)
           all == HeadText(r) \o r.body
<1>1. /\ r.method \in Methods /\ r.url \in SeqOf(Words \cup {":"}, MaxWord) /\ r.version \in {"0.9", "1.1"}
      /\ r.lines \in SeqOf(Lines, MaxHeaders)
      /\ \E n \in 0 .. MaxBody : r.body = [i \in 1 .. n |-> "x"]
  BY DEF Requests
<1>2. r.lines \in Seq(Lines)
  BY <1>1, BoundedFacts
<1>3. r.url \in Seq(Words \cup {":"}) /\ r.version \in Versions
  BY <1>1, BoundedFacts DEF Versions
<1>4. r.body \in Seq({"x"})
  <2>1. PICK n \in 0 .. MaxBody : r.body = [i \in 1 .. n |-> "x"]
    BY <1>1
  <2>2. n \in Nat
    OBVIOUS
  <2> QED BY <2>1, <2>2
<1>5. pieces \in Seq(Seq(Printed))
  <2>1. r.lines \in Seq(HeaderPairs)
    BY <1>2, LinesFacts, SubsetSeq
  <2> QED BY <2>1, LinesTyped
<1>6. Len(pieces) = Len(r.lines) /\ \A k \in 1 .. Len(r.lines) : pieces[k] = HeaderLine(r.lines[k])
  BY <1>2
<1>7. HeadText(r) = <<r.method, " ">> \o r.url \o <<" ", "HTTP/", r.version>> \o CRLF \o whole \o CRLF
  BY DEF HeadText
<1> HIDE DEF pieces
<1>8. whole \in Seq(Printed) /\ \E place : IsPlace(place, pieces, whole)
  BY <1>5, FlattenPlaces
<1> HIDE DEF whole
<1>9. PICK place : IsPlace(place, pieces, whole)
  BY <1>8
<1>10. /\ Printed \subseteq Sent /\ {"x"} \subseteq Sent /\ Words \cup {":"} \subseteq Sent
       /\ " " \in Sent /\ "HTTP/" \in Sent /\ "\r" \in Sent /\ "\n" \in Sent
       /\ r.method \in Sent /\ r.version \in Sent
  BY <1>1, <1>3 DEF Sent, Printed, HeaderTokens, Versions
<1>11. Text(<<r.method, " ">>, Sent, 2) /\ Text(<<" ", "HTTP/", r.version>>, Sent, 3) /\ Text(CRLF, Sent, 2)
  BY <1>10, FewTokens DEF CRLF
<1>12. Text(r.url, Sent, Len(r.url))
  <2>1. r.url \in Seq(Sent)
    BY <1>3, <1>10, SubsetSeq
  <2> QED BY <2>1 DEF Text
<1>13. Text(r.body, Sent, Len(r.body))
  <2>1. r.body \in Seq(Sent)
    BY <1>4, <1>10, SubsetSeq
  <2> QED BY <2>1 DEF Text
<1>14. Text(whole, Sent, Len(whole))
  <2>1. whole \in Seq(Sent)
    BY <1>8, <1>10, SubsetSeq
  <2> QED BY <2>1 DEF Text
<1>15. /\ Len(HeadText(r)) = Len(r.url) + Len(whole) + 9
       /\ RequestParts(Sent, all, r.method, r.url, Len(r.url), r.version, whole, Len(whole), r.body, Len(r.body))
  BY <1>7, <1>11, <1>12, <1>13, <1>14, RequestJoined
<1> HIDE DEF all
<1>16. RequestOf(r, all, whole, pieces, place)
  BY <1>1, <1>2, <1>3, <1>6, <1>9, <1>13, <1>15 DEF RequestOf, all, Text
<1> QED BY <1>16

\* One token, and three, in a text.
LEMMA AtOne ==
  ASSUME NEW raw, Len(raw) \in Nat, NEW i \in Nat, NEW a
  PROVE  At(raw, i, <<a>>) <=> i <= Len(raw) /\ raw[i] = a
<1>1. /\ Len(<<a>>) = 1 /\ DOMAIN <<a>> = {1} /\ <<a>>[1] = a
  OBVIOUS
<1>2. i + 1 - 1 = i
  OBVIOUS
<1> QED BY <1>1, <1>2 DEF At

LEMMA OneAndTwo ==
  ASSUME NEW a, NEW b, NEW c
  PROVE  <<a>> \o <<b, c>> = <<a, b, c>>
<1> DEFINE T == {a, b, c}
           s == <<a>> \o <<b, c>>
           t == <<a, b, c>>
<1>1. Text(<<a>>, T, 1) /\ Text(<<b, c>>, T, 2) /\ Text(t, T, 3)
  BY FewTokens
<1>2. Text(s, T, 1 + 2) /\ Behind(s, 1, <<b, c>>) /\ Behind(s, 0, <<a>>)
  <2>1. Behind(<<a>>, 0, <<a>>)
    BY <1>1, BehindAll DEF Text
  <2> QED BY <1>1, <2>1, JoinedBehind
<1>3. Len(<<a>>) = 1 /\ <<a>>[1] = a /\ t[1] = a /\ t[2] = b /\ t[3] = c
  OBVIOUS
<1>4. s[1] = a
  <2>1. s[0 + 1] = <<a>>[1]
    BY <1>2, <1>3 DEF Behind
  <2> QED BY <1>3, <2>1
<1>5. s[2] = b /\ s[3] = c
  <2>1. s[1 + 1] = b /\ s[1 + 2] = c
    BY <1>2, BehindTwo
  <2> QED BY <2>1
<1> HIDE DEF s, t, T
<1>6. \A j \in 1 .. 3 : s[j] = t[j]
  <2>1. \A j \in 1 .. 3 : j = 1 \/ j = 2 \/ j = 3
    OBVIOUS
  <2> QED BY <1>3, <1>4, <1>5, <2>1
<1>7. s \in Seq(T) /\ t \in Seq(T) /\ Len(s) = 3 /\ Len(t) = 3
  BY <1>1, <1>2 DEF Text
<1>8. s = t
  BY <1>6, <1>7, SeqEqual
<1> QED BY <1>8 DEF s, t

LEMMA AtThree ==
  ASSUME NEW raw, Len(raw) \in Nat, NEW i \in Nat, NEW a
  PROVE  At(raw, i, <<a>> \o CRLF) <=>
           i + 2 <= Len(raw) /\ raw[i] = a /\ raw[i + 1] = "\r" /\ raw[i + 2] = "\n"
<1> DEFINE three == <<a, "\r", "\n">>
<1>1. <<a>> \o CRLF = three
  <2> DEFINE b == "\r"
             c == "\n"
  <2>1. CRLF = <<b, c>> /\ three = <<a, b, c>>
    BY DEF CRLF
  <2> HIDE DEF b, c, three
  <2>2. <<a>> \o <<b, c>> = <<a, b, c>>
    BY OneAndTwo
  <2> QED BY <2>1, <2>2
<1>2. /\ Len(three) = 3 /\ DOMAIN three = {1, 2, 3}
      /\ three[1] = a /\ three[2] = "\r" /\ three[3] = "\n"
  OBVIOUS
<1> HIDE DEF three
<1>3. i + 3 - 1 = i + 2 /\ i + 2 - 1 = i + 1 /\ i + 1 - 1 = i
  OBVIOUS
<1>4. At(raw, i, three) <=>
        i + 2 <= Len(raw) /\ raw[i] = a /\ raw[i + 1] = "\r" /\ raw[i + 2] = "\n"
  BY <1>2, <1>3 DEF At
<1> QED BY <1>1, <1>4

\* The blank behind the url ends it, if it was received.
UrlParts(all, url, u) ==
  /\ url \in Seq(Words \cup {":"}) /\ u \in Nat /\ u = Len(url)
  /\ Behind(all, 2, url) /\ all[u + 3] = " "

LEMMA UrlFound ==
  ASSUME NEW X, NEW raw, NEW all, Cut(X, raw, all), NEW url, NEW u, UrlParts(all, url, u)
  PROVE  /\ Len(raw) < u + 3 => Find(raw, 3, " ") = 0
         /\ u + 3 <= Len(raw) => Find(raw, 3, " ") = u + 3
<1> DEFINE c == u + 3
<1>1. /\ raw \in Seq(X) /\ Len(raw) \in Nat /\ \A j \in 1 .. Len(raw) : raw[j] = all[j]
      /\ u \in Nat /\ \A j \in 1 .. u : all[2 + j] = url[j]
  BY DEF Cut, UrlParts, Behind
<1>2. \A j \in 1 .. u : url[j] # " "
  <2>1. \A j \in 1 .. u : url[j] \in Words \cup {":"}
    BY ElementFacts, Zenon DEF UrlParts
  <2>2. " " \notin Words \cup {":"}
    BY HttpAssumption DEF HttpAssumption
  <2> QED BY <2>1, <2>2
<1>3. ASSUME NEW j \in 3 .. Len(raw), j < c PROVE raw[j] # " "
  <2>1. j - 2 \in 1 .. u /\ 2 + (j - 2) = j /\ j \in 1 .. Len(raw)
    BY <1>1, <1>3
  <2>2. all[2 + (j - 2)] = url[j - 2] /\ url[j - 2] # " "
    BY <1>1, <1>2, <2>1
  <2> QED BY <1>1, <2>1, <2>2
<1>4. ASSUME Len(raw) < c PROVE Find(raw, 3, " ") = 0
  <2>1. \A j \in 3 .. Len(raw) : j < c
    BY <1>1, <1>4
  <2>2. \A j \in 3 .. Len(raw) : raw[j] # " "
    BY <1>3, <2>1
  <2> QED BY <2>2, FindNothing
<1>5. ASSUME c <= Len(raw) PROVE Find(raw, 3, " ") = c
  <2>1. c \in 3 .. Len(raw) /\ c \in 1 .. Len(raw) /\ 3 \in Nat
    BY <1>1, <1>5
  <2>2. raw[c] = " "
    BY <1>1, <2>1 DEF UrlParts
  <2>3. \A j \in 3 .. Len(raw) : ~(j < c) => c <= j
    BY <1>1
  <2>4. \A j \in 3 .. Len(raw) : raw[j] = " " => c <= j
    BY <1>3, <2>3
  <2> HIDE DEF c
  <2> QED BY <1>1, <2>1, <2>2, <2>4, FindFacts
<1> QED BY <1>4, <1>5

\* The request line as it was received: whole, or cut somewhere.
WellFormed(raw, space) ==
  /\ space # 0
  /\ raw[1] \in Methods /\ raw[2] = " "
  /\ At(raw, space + 1, <<"HTTP/">>)
  /\ \E v \in Versions : At(raw, space + 2, <<v>> \o CRLF)

Space(raw) == IF Len(raw) < 3 THEN 0 ELSE Find(raw, 3, " ")

\* The beginning of a request that a client sends
LineRequest(X, raw, all, method, url, u, version) ==
  /\ Cut(X, raw, all) /\ method \in Methods /\ version \in Versions /\ url \in Seq(Words \cup {":"})
  /\ \E whole, l, body, n : RequestParts(X, all, method, url, u, version, whole, l, body, n)

\* fromRawData takes the request line for one as soon as all of it has arrived.
LEMMA RequestLine ==
  ASSUME NEW X, NEW raw, NEW all, NEW method, NEW url, NEW u, NEW version,
         LineRequest(X, raw, all, method, url, u, version), NEW space, space = Space(raw)
  PROVE  /\ WellFormed(raw, space) <=> u + 7 <= Len(raw)
         /\ u + 7 <= Len(raw) =>
              space = u + 3 /\ raw[1] = method /\ SubSeq(raw, 3, space - 1) = url /\ raw[space + 2] = version
<1>0. Cut(X, raw, all) /\ method \in Methods /\ version \in Versions
  BY DEF LineRequest
<1> PICK whole, l, body, n : RequestParts(X, all, method, url, u, version, whole, l, body, n)
  BY DEF LineRequest
<1>1. /\ raw \in Seq(X) /\ Len(raw) \in Nat /\ \A j \in 1 .. Len(raw) : raw[j] = all[j]
      /\ u \in Nat /\ u = Len(url) /\ Behind(all, 2, url)
  BY <1>0 DEF Cut, RequestParts
<1>2. /\ all[1] = method /\ all[2] = " " /\ all[u + 3] = " " /\ all[u + 4] = "HTTP/"
      /\ all[u + 5] = version /\ all[u + 6] = "\r" /\ all[u + 7] = "\n"
  <2>1. all[0 + 1] = method /\ all[0 + 2] = " "
    BY BehindTwo DEF RequestParts
  <2>2. all[(u + 2) + 1] = " " /\ all[(u + 2) + 2] = "HTTP/" /\ all[(u + 2) + 3] = version
    BY BehindThree DEF RequestParts
  <2>3. all[(u + 5) + 1] = "\r" /\ all[(u + 5) + 2] = "\n"
    BY BehindTwo DEF RequestParts, CRLF
  <2>4. /\ 0 + 1 = 1 /\ 0 + 2 = 2 /\ (u + 2) + 1 = u + 3 /\ (u + 2) + 2 = u + 4
        /\ (u + 2) + 3 = u + 5 /\ (u + 5) + 1 = u + 6 /\ (u + 5) + 2 = u + 7
    BY <1>1
  <2> QED BY <2>1, <2>2, <2>3, <2>4
<1>3. /\ Len(raw) < u + 3 => Find(raw, 3, " ") = 0
      /\ u + 3 <= Len(raw) => Find(raw, 3, " ") = u + 3
  <2>1. UrlParts(all, url, u)
    BY <1>1, <1>2 DEF LineRequest, UrlParts
  <2> QED BY <1>0, <2>1, UrlFound
<1> DEFINE found == Find(raw, 3, " ")
<1>6. space = IF Len(raw) < 3 THEN 0 ELSE found
  BY DEF Space
<1> HIDE DEF found
<1>7. (Len(raw) < u + 3 => found = 0) /\ (u + 3 <= Len(raw) => found = u + 3)
  BY <1>3 DEF found
<1>4. CASE Len(raw) < u + 3
  <2>1. space = 0 /\ ~(u + 7 <= Len(raw))
    BY <1>1, <1>4, <1>6, <1>7
  <2> QED BY <2>1 DEF WellFormed
<1>5. CASE u + 3 <= Len(raw)
  <2>1. space = u + 3 /\ space # 0 /\ space + 1 = u + 4 /\ space + 2 = u + 5
    <3>1. space = u + 3
      BY <1>1, <1>5, <1>6, <1>7
    <3> QED BY <1>1, <3>1
  <2>2. raw[1] = method /\ raw[2] = " "
    <3>1. 1 \in 1 .. Len(raw) /\ 2 \in 1 .. Len(raw)
      BY <1>1, <1>5
    <3> QED BY <1>1, <1>2, <3>1
  <2>3. ASSUME u + 7 <= Len(raw)
        PROVE  /\ raw[u + 4] = "HTTP/" /\ raw[u + 5] = version
               /\ raw[u + 6] = "\r" /\ raw[u + 7] = "\n"
    <3>1. /\ u + 4 \in 1 .. Len(raw) /\ u + 5 \in 1 .. Len(raw)
          /\ u + 6 \in 1 .. Len(raw) /\ u + 7 \in 1 .. Len(raw)
      BY <1>1, <2>3
    <3> QED BY <1>1, <1>2, <3>1
  <2>4. /\ u + 4 \in Nat /\ u + 5 \in Nat /\ (u + 5) + 1 = u + 6 /\ (u + 5) + 2 = u + 7
        /\ u + 7 <= Len(raw) => u + 4 <= Len(raw)
    BY <1>1
  <2>5. u + 7 <= Len(raw) => WellFormed(raw, space)
    <3> SUFFICES ASSUME u + 7 <= Len(raw) PROVE WellFormed(raw, space)
      OBVIOUS
    <3>1. At(raw, u + 4, <<"HTTP/">>)
      BY <1>1, <2>3, <2>4, AtOne
    <3>2. At(raw, u + 5, <<version>> \o CRLF)
      BY <1>1, <2>3, <2>4, AtThree
    <3> QED BY <1>0, <2>1, <2>2, <3>1, <3>2 DEF WellFormed
  <2>6. WellFormed(raw, space) => u + 7 <= Len(raw)
    <3> SUFFICES ASSUME WellFormed(raw, space) PROVE u + 7 <= Len(raw)
      OBVIOUS
    <3>1. PICK v \in Versions : At(raw, u + 5, <<v>> \o CRLF)
      BY <2>1 DEF WellFormed
    <3>2. (u + 5) + 2 <= Len(raw)
      BY <1>1, <2>4, <3>1, AtThree
    <3> QED BY <2>4, <3>2
  <2>7. u + 7 <= Len(raw) => SubSeq(raw, 3, space - 1) = url
    <3> SUFFICES ASSUME u + 7 <= Len(raw) PROVE SubSeq(raw, 3, space - 1) = url
      OBVIOUS
    <3> DEFINE e == space - 1
    <3>1. e = 3 - 1 + Len(url) /\ e <= Len(raw)
      BY <1>1, <2>1
    <3> HIDE DEF e
    <3>2. \A j \in 1 .. Len(url) : all[3 - 1 + j] = url[j]
      <4>1. 3 - 1 = 2
        OBVIOUS
      <4> QED BY <1>1, <4>1 DEF Behind
    <3>3. Piece(X, raw, all, 3, url, e)
      BY <1>0, <1>1, <3>1, <3>2 DEF Piece
    <3>4. SubSeq(raw, 3, e) = url
      <4> DEFINE Y == Words \cup {":"}
      <4>1. url \in Seq(Y)
        BY DEF LineRequest
      <4> HIDE DEF Y
      <4> QED BY <3>3, <4>1, CutOut, Zenon
    <3> QED BY <3>4 DEF e
  <2> QED BY <2>1, <2>2, <2>3, <2>5, <2>6, <2>7
<1> QED BY <1>1, <1>4, <1>5

\* The body of a request, as far as it arrived.
LEMMA BodyRead ==
  ASSUME NEW X, NEW raw, NEW all, Cut(X, raw, all), NEW H \in Nat, NEW body \in Seq(X), Behind(all, H, body),
         Len(all) = H + Len(body), H <= Len(raw), NEW arrived, arrived = Len(raw) - H
  PROVE  (IF HasBody(raw, H + 1) THEN SubSeq(raw, H + 1, Len(raw)) ELSE <<>>) =
            IF arrived = 1 THEN <<>> ELSE SubSeq(body, 1, arrived)
<1> DEFINE r == Len(raw)
           s == SubSeq(raw, H + 1, r)
           t == SubSeq(body, 1, arrived)
<1>1. /\ raw \in Seq(X) /\ r \in Nat /\ r <= H + Len(body) /\ Len(body) \in Nat
      /\ \A j \in 1 .. r : raw[j] = all[j]
      /\ \A j \in 1 .. Len(body) : all[H + j] = body[j]
  BY DEF Cut, Behind
<1>2. arrived \in Nat /\ arrived <= Len(body) /\ r = H + arrived /\ arrived = r - H
  BY <1>1
<1>3. HasBody(raw, H + 1) <=> H + 1 < r
  BY DEF HasBody
<1> HIDE DEF r
<1>4. CASE arrived = 0
  <2>1. ~(H + 1 < r) /\ t = <<>>
    BY <1>1, <1>2, <1>4
  <2> HIDE DEF t
  <2> QED BY <1>3, <1>4, <2>1 DEF t, r
<1>5. CASE arrived = 1
  <2>1. ~(H + 1 < r)
    BY <1>1, <1>2, <1>5
  <2> QED BY <1>3, <1>5, <2>1 DEF r
<1>6. CASE arrived # 0 /\ arrived # 1
  <2>1. H + 1 < r /\ H + 1 <= r /\ r - (H + 1) + 1 = arrived
    BY <1>2, <1>6
  <2>2. /\ s \in Seq(X) /\ Len(s) = arrived
        /\ \A j \in 1 .. arrived : s[j] = raw[(H + 1) + j - 1]
    <3>1. \A j \in H + 1 .. r : j \in 1 .. Len(raw)
      BY <1>1, <1>2 DEF r
    <3>2. \A j \in H + 1 .. r : raw[j] \in X
      BY <1>1, <3>1, ElementFacts
    <3>3. H + 1 \in Int /\ r \in Int
      BY <1>1
    <3> QED BY <2>1, <3>2, <3>3, SubSeqProperties
  <2>3. /\ t \in Seq(X) /\ Len(t) = arrived
        /\ \A j \in 1 .. arrived : t[j] = body[j]
    BY <1>1, <1>2, <1>6
  <2> HIDE DEF s, t
  <2>4. ASSUME NEW j \in 1 .. arrived PROVE s[j] = t[j]
    <3>1. /\ (H + 1) + j - 1 = H + j /\ H + j \in 1 .. r /\ j \in 1 .. Len(body)
      BY <1>1, <1>2
    <3>2. s[j] = raw[H + j] /\ raw[H + j] = all[H + j] /\ all[H + j] = body[j]
      BY <1>1, <2>2, <3>1
    <3> QED BY <2>3, <3>2
  <2>5. s = t
    BY <2>2, <2>3, <2>4, SeqEqual
  <2> QED BY <1>3, <1>6, <2>1, <2>5 DEF s, t, r
<1> QED BY <1>4, <1>5, <1>6

\* What is made of the first received tokens of a request
ReadOf(r, received) ==
  LET arrived == received - Len(HeadText(r))
  IN IF arrived < 0 THEN NoRequest
     ELSE <<[method |-> r.method, url |-> r.url, version |-> r.version, headers |-> FirstValues(r.lines),
             body |-> IF arrived = 1 THEN <<>> ELSE SubSeq(r.body, 1, arrived)]>>

\* fromRawData makes that of them.
LEMMA RequestRead ==
  ASSUME NEW r \in Requests, NEW raw \in Received(r)
  PROVE  fromRawData(raw) = ReadOf(r, Len(raw))
<1>1. PICK all, whole, pieces, place : RequestOf(r, all, whole, pieces, place)
  BY RequestFacts
<1> DEFINE X == Sent
           u == Len(r.url)
           l == Len(whole)
           n == Len(r.body)
           H == Len(HeadText(r))
           K == Len(raw)
           s == u + 7
           space == Space(raw)
           lines == IF WellFormed(raw, space) THEN headersFrom(raw)[space + 5] ELSE <<>>
<1>2. /\ r.method \in Methods /\ r.version \in Versions /\ r.url \in Seq(Words \cup {":"})
      /\ r.lines \in Seq(Lines) /\ all = HeadText(r) \o r.body /\ H = u + l + 9 /\ r.body \in Seq(X)
      /\ RequestParts(X, all, r.method, r.url, u, r.version, whole, l, r.body, n)
  BY <1>1 DEF RequestOf
<1>3. /\ Text(all, X, u + l + 9 + n) /\ Behind(all, u + 7, whole) /\ Behind(all, u + 7 + l, CRLF)
      /\ Behind(all, u + l + 9, r.body) /\ u \in Nat /\ l \in Nat /\ n \in Nat
  BY <1>2 DEF RequestParts
<1>4. PICK k \in 1 .. Len(all) : raw = SubSeq(all, 1, k)
  BY <1>2 DEF Received
<1>5. Cut(X, raw, all) /\ Len(all) = u + l + 9 + n
  <2>1. all \in Seq(X) /\ Len(all) = u + l + 9 + n /\ Len(all) \in Nat
    BY <1>3 DEF Text
  <2>2. /\ raw \in Seq(X) /\ Len(raw) = k /\ k \in Nat /\ k <= Len(all)
        /\ \A j \in 1 .. k : raw[j] = all[j]
    <3> HIDE DEF X, u, l, n
    <3> QED BY <1>4, <2>1
  <2> QED BY <2>1, <2>2 DEF Cut
<1>6. K \in Nat /\ K <= Len(all)
  BY <1>5 DEF Cut
<1>7. fromRawData(raw) =
        IF lines = <<>> THEN NoRequest
        ELSE <<[method |-> raw[1], url |-> SubSeq(raw, 3, space - 1), version |-> raw[space + 2],
                headers |-> lines[1].headers,
                body |-> IF HasBody(raw, lines[1].body) THEN SubSeq(raw, lines[1].body, Len(raw))
                                                        ELSE <<>>]>>
  BY DEF fromRawData, WellFormed, Space
<1> HIDE DEF X, u, l, n, H, K, space
<1>8. LineRequest(X, raw, all, r.method, r.url, u, r.version)
  BY <1>2, <1>5 DEF LineRequest
<1>9. /\ WellFormed(raw, space) <=> s <= K
      /\ s <= K => /\ space = u + 3 /\ raw[1] = r.method /\ SubSeq(raw, 3, space - 1) = r.url
                   /\ raw[space + 2] = r.version
  BY <1>8, RequestLine DEF space, K
<1>10. s \in Nat /\ H \in Nat /\ H = s + l + 2 /\ s <= H /\ (u + 3) + 5 = s + 1
  BY <1>2, <1>3
<1>11. ASSUME s <= K PROVE lines = ReadFrom(r.lines, 1, H, K)
  <2>1. HeadLines(X, raw, all, r.lines, pieces, whole, place, s, H)
    BY <1>1, <1>2, <1>3, <1>5, <1>10 DEF HeadLines, RequestOf, l
  <2>2. headersFrom(raw)[s + 1] = ReadFrom(r.lines, 1, H, K)
    BY <1>11, <2>1, HeaderLoop DEF K
  <2>3. WellFormed(raw, space) /\ space = u + 3
    BY <1>9, <1>11
  <2> QED BY <1>10, <2>2, <2>3
<1>12. ASSUME ~(s <= K) PROVE lines = <<>>
  BY <1>9, <1>12
<1> HIDE DEF lines, s
<1>13. CASE K < H
  <2>1. lines = <<>>
    BY <1>11, <1>12, <1>13 DEF ReadFrom
  <2>2. K - H < 0
    BY <1>6, <1>10, <1>13
  <2> QED BY <1>7, <2>1, <2>2 DEF ReadOf, K, H
<1>14. CASE ~(K < H)
  <2> DEFINE arrived == K - H
             got1 == lines[1]
  <2>1. s <= K /\ H <= K /\ ~(arrived < 0)
    BY <1>6, <1>10, <1>14
  <2>2. lines = <<[headers |-> HeadersOf(r.lines, 1), body |-> H + 1]>>
    BY <1>11, <1>14, <2>1 DEF ReadFrom
  <2>3. lines # <<>> /\ lines[1].headers = HeadersOf(r.lines, 1) /\ lines[1].body = H + 1
    BY <2>2
  <2>4. FirstValues(r.lines) = HeadersOf(r.lines, 1)
    BY <1>2, HeadersOfAll
  <2>5. /\ space = u + 3 /\ raw[1] = r.method /\ SubSeq(raw, 3, space - 1) = r.url
        /\ raw[space + 2] = r.version
    BY <1>9, <2>1
  <2>6. (IF HasBody(raw, H + 1) THEN SubSeq(raw, H + 1, Len(raw)) ELSE <<>>) =
          IF arrived = 1 THEN <<>> ELSE SubSeq(r.body, 1, arrived)
    <3>1. Behind(all, H, r.body) /\ Len(all) = H + Len(r.body)
      BY <1>2, <1>3, <1>5 DEF n
    <3> QED BY <1>2, <1>5, <1>10, <2>1, <3>1, BodyRead DEF K
  <2>7. fromRawData(raw) =
          <<[method |-> r.method, url |-> r.url, version |-> r.version, headers |-> FirstValues(r.lines),
             body |-> IF arrived = 1 THEN <<>> ELSE SubSeq(r.body, 1, arrived)]>>
    BY <1>7, <2>3, <2>4, <2>5, <2>6
  <2> QED BY <2>1, <2>7 DEF ReadOf, K, H
<1> QED BY <1>13, <1>14

\* Requests are read as they were meant, however they were cut.
RequestsHold ==
  /\ done \in BOOLEAN
  /\ ~done => ConversionInit
  /\ done => RequestsAreRead

\* fromRawData reads every request that a client can send as it was meant as soon as its
\* head has arrived, and none of which less has arrived, whatever the url, the header
\* lines and the body are and wherever the read cut the text.
THEOREM RequestsAreReadHolds == ConversionSpec => []RequestsAreRead
<1>1. ConversionInit => ~done
  BY DEF ConversionInit
<1>2. ASSUME ConversionInit, ReadRequest PROVE RequestsAreRead'
  <2>1. meant \in Requests /\ wire \in Received(meant) /\ got' = fromRawData(wire)
        /\ wire' = wire /\ meant' = meant
    BY <1>2 DEF ConversionInit, ReadRequest, Receives, Allocates, Dumps, Writes
  <2>2. got' = ReadOf(meant, Len(wire))
    BY <2>1, RequestRead
  <2> QED BY <2>1, <2>2 DEF RequestsAreRead, ReadOf, AsMeant
<1>3. ASSUME ConversionInit, Convert PROVE RequestsHold'
  <2>1. done' = TRUE
    BY <1>3 DEF Convert
  <2>2. CASE PrintResponse \/ ReadString
    BY <2>1, <2>2 DEF RequestsHold, RequestsAreRead, PrintResponse, ReadString
  <2>3. CASE ReadRequest
    BY <1>2, <1>3, <2>1, <2>3 DEF RequestsHold
  <2> QED BY <1>3, <2>2, <2>3 DEF Convert
<1>4. RequestsHold /\ [Convert]_conversion => RequestsHold'
  <2>1. ASSUME RequestsHold, UNCHANGED conversion PROVE RequestsHold'
    BY <2>1 DEF RequestsHold, conversion, ConversionInit, RequestsAreRead, AsMeant, Receives, Allocates, Dumps, Writes
  <2>2. ASSUME RequestsHold, Convert PROVE RequestsHold'
    BY <1>3, <2>2 DEF RequestsHold, Convert
  <2> QED BY <2>1, <2>2
<1>5. RequestsHold => RequestsAreRead
  BY DEF RequestsHold, RequestsAreRead
<1>6. ConversionInit => RequestsHold
  BY <1>1 DEF RequestsHold, ConversionInit
<1> QED BY <1>4, <1>5, <1>6, PTL DEF ConversionSpec
==============================================================================
