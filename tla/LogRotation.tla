---------------------------- MODULE LogRotation ----------------------------
(***************************************************************************)
(* GlobalLoggerManager (include/logger.h, src/logger.cpp): all threads     *)
(* write lines to one descriptor, and the logger thread moves a log file   *)
(* that is too long out of the way: it renames every numbered file to the  *)
(* next number, renames the current one to number 1, creates another and   *)
(* makes the descriptor refer to it with dup2.  The process may be killed  *)
(* between any two of these calls and started again.                       *)
(*                                                                         *)
(* A file is the sequence of its lines, which are numbered as they are     *)
(* written.  File 0 is <name>.log, file n is <name>.log.n.                 *)
(***************************************************************************)
EXTENDS Naturals, Sequences, FiniteSets, Elements

CONSTANTS Limit,       \* singleFileSizeLimit, in lines
          MaxLines,    \* bound: how many lines are written
          MaxCrashes,  \* bound: how often the process ends
          MaxFailures  \* bound: how often a listing or the rename of a numbered file fails

ASSUME LogAssumption ==
  /\ Limit \in Nat \ {0}
  /\ MaxLines \in Nat /\ MaxCrashes \in Nat /\ MaxFailures \in Nat

VARIABLES
  phase,    \* the logger: "down", "init", "sleep", "rename", "open", "dup"
  booting,  \* rotate was called by init: no other thread runs yet
  dir,      \* the log directory: number -> inode
  data,     \* the lines of each inode, in the order the inodes were created
  fd,       \* loggerFileFd_: the inode it refers to, 0 for none
  newfd,    \* the inode rotate created
  nums,     \* nums: the numbered files rotate has yet to rename
  written,  \* history: how many lines were written
  crashes, failures

disk == <<dir, data>>
bounded == <<crashes, failures>>
vars == <<phase, booting, disk, fd, newfd, nums, written, bounded>>

Create == data' = Append(data, <<>>)
NewInode == Len(data) + 1

Init ==
  /\ phase = "down"
  /\ booting = FALSE
  /\ dir = <<>>
  /\ data = <<>>
  /\ fd = 0
  /\ newfd = 0
  /\ nums = <<>>
  /\ written = 0
  /\ crashes = 0
  /\ failures = 0

\* rename replaces what has the new number already.
Renamed(old, new) ==
  [n \in (DOMAIN dir \cup {new}) \ {old} |-> IF n = new THEN dir[old] ELSE dir[n]]

\* open with O_CREAT, of a log file that is not there
Entered(inode) == [n \in DOMAIN dir \cup {0} |-> IF n = 0 THEN inode ELSE dir[n]]

TooLong == Len(data[fd]) >= Limit

\* The ways to list S
Listings(S) ==
  {s \in [1 .. Cardinality(S) -> S] : \A n \in S : \E i \in 1 .. Len(s) : s[i] = n}

\* variant: the order of std::sort without the comparison
SortedUp(S) == {s \in Listings(S) : \A i, j \in 1 .. Len(s) : i < j => s[i] < s[j]}

\* sort(nums.begin(), nums.end(), greater): there is one way.
Sorted(S) == {s \in Listings(S) : \A i, j \in 1 .. Len(s) : i < j => s[i] > s[j]}

------------------------------------------------------------------------------
(* init *)

OpenLog ==
  /\ phase = "down"
  /\ phase' = "init"
  /\ IF 0 \in DOMAIN dir
     THEN fd' = dir[0] /\ UNCHANGED disk
     ELSE /\ fd' = NewInode
          /\ dir' = Entered(NewInode)
          /\ Create
  /\ booting' = TRUE
  /\ UNCHANGED <<newfd, nums, written, bounded>>

StartThread ==
  /\ phase = "init" /\ ~TooLong
  /\ phase' = "sleep"
  /\ booting' = FALSE
  /\ UNCHANGED <<disk, fd, newfd, nums, written, bounded>>

------------------------------------------------------------------------------
(* rotate *)

\* variant: only init looks at the length of the file
ListFilesOnce ==
  /\ phase = "init" /\ TooLong
  /\ phase' = "rename"
  /\ nums' \in Sorted(DOMAIN dir \ {0})
  /\ UNCHANGED <<booting, disk, fd, newfd, written, bounded>>

\* init looks once, the logger thread after every sleep.
ListFiles ==
  /\ phase \in {"init", "sleep"} /\ TooLong
  /\ phase' = "rename"
  /\ nums' \in Sorted(DOMAIN dir \ {0})
  /\ UNCHANGED <<booting, disk, fd, newfd, written, bounded>>

\* The exception ends the loop over the directory and is caught; what was listed
\* by then is renamed.
ListingFails ==
  /\ phase \in {"init", "sleep"} /\ TooLong
  /\ failures < MaxFailures
  /\ failures' = failures + 1
  /\ phase' = "rename"
  /\ \E listed \in SUBSET (DOMAIN dir \ {0}) : nums' \in Sorted(listed)
  /\ UNCHANGED <<booting, disk, fd, newfd, written, crashes>>

RenameNext ==
  /\ phase = "rename" /\ nums # <<>>
  /\ dir' = Renamed(Head(nums), Head(nums) + 1)
  /\ nums' = Tail(nums)
  /\ UNCHANGED <<phase, booting, data, fd, newfd, written, bounded>>

\* The exception is caught and the loop goes on with the next number.
RenameFails ==
  /\ phase = "rename" /\ nums # <<>> /\ failures < MaxFailures
  /\ failures' = failures + 1
  /\ nums' = Tail(nums)
  /\ UNCHANGED <<phase, booting, disk, fd, newfd, written, crashes>>

RenameCurrent ==
  /\ phase = "rename" /\ nums = <<>>
  /\ dir' = Renamed(0, 1)
  /\ phase' = "open"
  /\ UNCHANGED <<booting, data, fd, newfd, nums, written, bounded>>

\* variant: open without O_CREAT
Enter(inode) == dir' = dir

\* open(..., O_CREAT | O_WRONLY) of a name that was just renamed away
EnterCreated(inode) == dir' = Entered(inode)

OpenNew ==
  /\ phase = "open"
  /\ EnterCreated(NewInode)
  /\ Create
  /\ newfd' = NewInode
  /\ phase' = "dup"
  /\ UNCHANGED <<booting, fd, nums, written, bounded>>

\* variant: the descriptor is not redirected
KeepFd == fd' = fd

Redirect == fd' = newfd

\* newfd itself is never closed.
Dup ==
  /\ phase = "dup"
  /\ Redirect
  /\ phase' = "sleep"
  /\ booting' = FALSE
  /\ UNCHANGED <<disk, newfd, nums, written, bounded>>

\* What ends the process: a signal, in any phase, or rotate itself, by an exception
\* that nobody catches when the current file cannot be renamed, or by abort when
\* the new one cannot be opened, which dup2 finds out.
Ends ==
  /\ phase # "down" /\ crashes < MaxCrashes
  /\ crashes' = crashes + 1
  /\ phase' = "down"
  /\ fd' = 0
  /\ newfd' = 0
  /\ nums' = <<>>
  /\ booting' = FALSE
  /\ UNCHANGED <<disk, written, failures>>

RenameCurrentFails == phase = "rename" /\ nums = <<>> /\ Ends

OpenNewFails == phase = "open" /\ Ends

LoggerThread ==
  \/ OpenLog
  \/ StartThread
  \/ ListFiles
  \/ ListingFails
  \/ RenameNext
  \/ RenameFails
  \/ RenameCurrent
  \/ RenameCurrentFails
  \/ OpenNew
  \/ OpenNewFails
  \/ Dup

------------------------------------------------------------------------------
(* The other threads, and the end of the process *)

\* ~Logger: one writev to whatever the descriptor refers to
WriteLine ==
  /\ phase # "down" /\ ~booting
  /\ written < MaxLines
  /\ written' = written + 1
  /\ data' = [data EXCEPT ![fd] = Append(@, written + 1)]
  /\ UNCHANGED <<phase, booting, dir, fd, newfd, nums, bounded>>

Crash == Ends

Next ==
  \/ LoggerThread
  \/ WriteLine
  \/ Crash

Spec == Init /\ [][Next]_vars

FairSpec == Spec /\ WF_vars(LoggerThread)

------------------------------------------------------------------------------
(* Properties *)

\* The types; the current log file is there whenever the logger sleeps, and the
\* number of a file grows with the lines written and with the restarts only.
TypeOK ==
  /\ phase \in {"down", "init", "sleep", "rename", "open", "dup"}
  /\ booting \in BOOLEAN
  /\ DOMAIN dir \subseteq 0 .. MaxLines + MaxCrashes
  /\ dir \in [DOMAIN dir -> DOMAIN data]
  /\ data \in Seq(Seq(1 .. MaxLines))
  /\ phase # "down" => fd \in DOMAIN data
  /\ phase = "sleep" => 0 \in DOMAIN dir
  /\ nums \in Seq(Nat)
  /\ written \in 0 .. MaxLines
  /\ crashes \in 0 .. MaxCrashes
  /\ failures \in 0 .. MaxFailures

Lines(n) == data[dir[n]]

\* Unless a numbered file is not renamed, no line that was written is lost, whenever
\* the process is killed: the files of the directory hold every line, and the files,
\* from the largest number to the current one, hold the lines in the order in which
\* they were written, each of them once.
NothingLost ==
  failures = 0 =>
    /\ UNION {Elems(Lines(n)) : n \in DOMAIN dir} = 1 .. written
    /\ \A m, n \in DOMAIN dir :
         \A i \in 1 .. Len(Lines(m)), j \in 1 .. Len(Lines(n)) :
           m > n \/ (m = n /\ i < j) => Lines(m)[i] < Lines(n)[j]

\* Between two rotations only the current file grows: a numbered file is final.
NumberedFilesAreFinal ==
  [][phase = "sleep" =>
       \A n \in DOMAIN dir \ {0} : data'[dir[n]] = data[dir[n]]]_vars

\* A log file that has reached the limit is rotated away, or the process dies.
LongFilesRotate ==
  (phase = "sleep" /\ TooLong) ~> (phase = "down" \/ ~TooLong)
==============================================================================
