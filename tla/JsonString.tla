----------------------------- MODULE JsonString -----------------------------
(***************************************************************************)
(* The characters of JSON strings: dumpString and parseString (json.cpp),  *)
(* and fromUnicode (utils.h), which turns \uXXXX into UTF-8.  A character  *)
(* is the number of its byte, and a text a sequence of them.               *)
(***************************************************************************)
EXTENDS Naturals, SequencesExt

Quote == 34
Backslash == 92
LetterU == 117
Control == 0 .. 31

\* An optional value is a sequence of at most one element.
NoString == <<>>

\* variant: a backslash is printed as it is
EscapesButOne == [c \in {8, 9, 10, 12, 13, Quote} |->
  CASE c = 8 -> 98 [] c = 9 -> 116 [] c = 10 -> 110 [] c = 12 -> 102 [] c = 13 -> 114 [] OTHER -> c]

\* The characters dumpString escapes, and the letter it puts behind the backslash
Escapes == [c \in {8, 9, 10, 12, 13, Quote, Backslash} |->
  CASE c = 8 -> 98 [] c = 9 -> 116 [] c = 10 -> 110 [] c = 12 -> 102 [] c = 13 -> 114 [] OTHER -> c]

dumpString(string) ==
  <<Quote>>
    \o FlattenSeq([i \in DOMAIN string |-> IF string[i] \in DOMAIN Escapes
                                           THEN <<Backslash, Escapes[string[i]]>>
                                           ELSE <<string[i]>>])
    \o <<Quote>>

\* parseString reads one escape more than dumpString writes: \/
Unescapes == [e \in Range(Escapes) \cup {47} |->
  IF e = 47 THEN 47 ELSE CHOOSE c \in DOMAIN Escapes : Escapes[c] = e]

HexValue(digit) ==
  CASE digit \in 48 .. 57 -> digit - 48
    [] digit \in 97 .. 102 -> digit - 97 + 10
    [] digit \in 65 .. 70 -> digit - 65 + 10
IsHex(digit) == digit \in (48 .. 57) \cup (97 .. 102) \cup (65 .. 70)

\* Four digits
unicodeToWchar(digits) ==
  (HexValue(digits[1]) * 4096) + (HexValue(digits[2]) * 256) + (HexValue(digits[3]) * 16)
    + HexValue(digits[4])

\* The last six bits, behind the mark of a continuation byte
Continuation(bits) == 128 + (bits % 64)

\* Four digits name nothing above 65535: the branches for more are not reached.
fromUnicode(u) ==
  IF u <= 127 THEN <<u>>
  ELSE IF u <= 2047 THEN <<192 + (u \div 64), Continuation(u)>>
  ELSE <<224 + (u \div 4096), Continuation(u \div 64), Continuation(u)>>

\* The string that begins with bytes and goes on with what the rest is read as
Then(bytes, rest) == IF rest = NoString THEN NoString ELSE <<bytes \o rest[1]>>

\* A turn of parseString's loop at position i: the string it reads from there, unless
\* it throws, from what is read from each later position.  An escape has to be two
\* characters away from the end of the text, or five with its digits.
StringTurn(view, i, from) ==
  LET size == Len(view)
      escaped == i < size - 2 /\ view[i + 1] \notin Control
  IN IF i > size THEN <<(<<>>)>>
     ELSE IF view[i] \in Control THEN NoString
     ELSE IF view[i] = Quote THEN <<(<<>>)>>
     ELSE IF view[i] # Backslash THEN Then(<<view[i]>>, from[i + 1])
     ELSE IF escaped /\ view[i + 1] \in DOMAIN Unescapes
          THEN Then(<<Unescapes[view[i + 1]]>>, from[i + 2])
     ELSE IF escaped /\ view[i + 1] = LetterU /\ i + 6 < size
               /\ \A k \in i + 2 .. i + 5 : IsHex(view[k])
          THEN Then(fromUnicode(unicodeToWchar(SubSeq(view, i + 2, i + 5))), from[i + 6])
     ELSE NoString

\* parseString on a text that begins with the quote
stringFrom(view) == LET from[i \in 1 .. Len(view) + 1] == StringTurn(view, i, from) IN from

parseString(view) == IF Len(view) <= 3 THEN NoString ELSE stringFrom(view)[2]
==============================================================================
