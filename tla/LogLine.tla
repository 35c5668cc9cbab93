------------------------------- MODULE LogLine -------------------------------
(***************************************************************************)
(* One line of the log (LoggerInfoBuilder and Logger, logger.h): a buffer  *)
(* of logInfoMaxSize bytes, to which format and each operator<< append,    *)
(* and which the destructor of Logger ends with a newline and writes.      *)
(* Only the lengths of the pieces matter.                                  *)
(***************************************************************************)
EXTENDS Integers, FiniteSetsExt

CONSTANTS logInfoMaxSize,
          Headers,  \* the lengths of what a line starts with
          Texts,    \* the lengths of the texts that are appended
          Numbers,  \* the lengths of the numbers that are appended, as text
          SizeT,    \* how many values a size_t has, more than any of these
          MaxPieces \* bound: the pieces of a line

VARIABLES
  iov_len,  \* iovecs_[1].iov_len
  end,      \* how far the buffer was written, in bytes
  written,  \* how many bytes writev took from the buffer
  pieces,   \* how often something was appended
  phase     \* "new", "open" or "written"

vars == <<iov_len, end, written, pieces, phase>>

Init == iov_len = 0 /\ end = 0 /\ written = 0 /\ pieces = 0 /\ phase = "new"

\* logInfoMaxSize - iov_len, which is unsigned
Room == (logInfoMaxSize - iov_len) % SizeT

\* n bytes are written at the end of the line; none of them, none is touched.
Touch(n) == end' = IF n = 0 THEN end ELSE Max({end, iov_len + n})

\* snprintf writes what there is room for, with the zero at its end, and returns
\* the length of all.
Snprintf(size) ==
  /\ Touch(Min({size + 1, Room}))
  /\ iov_len' = (iov_len + size) % SizeT

format(size) ==
  /\ phase = "new"
  /\ Snprintf(size)
  /\ phase' = "open"
  /\ UNCHANGED <<written, pieces>>

Append(size) ==
  /\ phase = "open" /\ pieces < MaxPieces
  /\ pieces' = pieces + 1
  /\ UNCHANGED <<written, phase>>

\* build of a string_view, and of all that becomes one
BuildView(size) ==
  /\ Append(size)
  /\ IF size + 1 > Room
     THEN Touch(Room) /\ iov_len' = logInfoMaxSize
     ELSE Touch(size) /\ iov_len' = iov_len + size

BuildNumber(size) == Append(size) /\ Snprintf(size)

BuildChar ==
  /\ Append(1)
  /\ IF iov_len < logInfoMaxSize THEN Touch(1) /\ iov_len' = iov_len + 1
                                 ELSE UNCHANGED <<iov_len, end>>

\* The newline of a full line takes the place of its last byte, which is counted
\* already, and is counted once more.
Finish ==
  /\ phase = "open"
  /\ end' = Max({end, Min({iov_len, logInfoMaxSize - 1}) + 1})
  /\ iov_len' = iov_len + 1
  /\ written' = iov_len'
  /\ phase' = "written"
  /\ UNCHANGED pieces

Next ==
  \/ \E size \in Headers : format(size)
  \/ \E size \in Texts : BuildView(size)
  \/ \E size \in Numbers : BuildNumber(size)
  \/ BuildChar
  \/ Finish

Spec == Init /\ [][Next]_vars

------------------------------------------------------------------------------
(* Properties *)

\* The buffer is the longest line there is: nothing is written behind it, and
\* writev takes nothing from behind it.
LineFits == end <= logInfoMaxSize /\ written <= logInfoMaxSize
==============================================================================
