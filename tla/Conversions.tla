---------------------------- MODULE Conversions ----------------------------
(***************************************************************************)
(* One conversion of a text: a request that arrives over a connection is   *)
(* read, a response is printed into the buffer allocated for it, a JSON    *)
(* string is printed and read back.  The texts are those of Http and       *)
(* JsonString.                                                             *)
(***************************************************************************)
EXTENDS Http, JsonString

CONSTANTS Chars,      \* the bytes of JSON strings
          CodePoints, \* the characters written as one \uXXXX
          MaxChars    \* bound: the characters of a string

\* No character has these numbers; two of them spell one beyond 65535.
Surrogates == 55296 .. 57343

ASSUME ConversionsAssumption ==
  /\ \A c \in Chars : c \in Nat /\ c < 256
  /\ \A u \in CodePoints : u \in Nat /\ u < 65536 /\ u \notin Surrogates
  /\ MaxChars \in Nat

VARIABLES
  kind,   \* "request", "response", "string" or "escaped"; "none" when there is no conversion
  meant,  \* history: what the text is to say
  wire,   \* the text: what was received, or the buffer that is printed into
  got,    \* what was read from the text
  done

conversion == <<kind, meant, wire, got, done>>

\* The file that is sent, and the body of toRawData
File == <<"x">>

\* What dump writes behind the last string of an array
EndOfArray == <<10, 93>>

HexDigit(n) == IF n < 10 THEN 48 + n ELSE 65 + n - 10
Escaped(u) ==
  <<Backslash, LetterU, HexDigit(u \div 4096), HexDigit((u \div 256) % 16),
    HexDigit((u \div 16) % 16), HexDigit(u % 16)>>
EscapedText(string) ==
  <<Quote>> \o FlattenSeq([i \in DOMAIN string |-> Escaped(string[i])]) \o <<Quote>>

NoConversion == kind = "none" /\ meant = <<>> /\ wire = <<>> /\ got = <<>> /\ done = TRUE

\* A client sends a request, and one read brings all of it or its beginning.
Receives ==
  /\ kind = "request"
  /\ meant \in Requests
  /\ wire \in Received(meant)

\* make_unique<char[]>(headersSize + fileSize)
Allocates ==
  /\ kind = "response"
  /\ meant \in Responses
  /\ wire = [i \in 1 .. getRawDataSizeWithoutBody(meant) + Len(File) |-> Zero]

\* dump has printed a string, or another program has written one.
Dumps == kind = "string" /\ meant \in SeqOf(Chars, MaxChars) /\ wire = dumpString(meant) \o EndOfArray
Writes == kind = "escaped" /\ meant \in SeqOf(CodePoints, MaxChars)
                           /\ wire = EscapedText(meant) \o EndOfArray

ConversionInit == got = <<>> /\ done = FALSE /\ (Receives \/ Allocates \/ Dumps \/ Writes)

ReadRequest ==
  /\ kind = "request"
  /\ got' = fromRawData(wire)
  /\ UNCHANGED <<kind, meant, wire>>

\* read(fd, res.get() + headersSize, fileSize)
ReadFile(buffer) == SubSeq(buffer, 1, Len(buffer) - Len(File)) \o File

\* Both ways to print: the head into the buffer and the file behind it, and all in
\* a string of its own.
PrintResponse ==
  /\ kind = "response"
  /\ wire' = ReadFile(toRawDataWithoutBody(meant, wire))
  /\ got' = toRawData(meant, File)
  /\ UNCHANGED <<kind, meant>>

ReadString ==
  /\ kind \in {"string", "escaped"}
  /\ got' = parseString(wire)
  /\ UNCHANGED <<kind, meant, wire>>

Convert == ~done /\ done' = TRUE /\ (ReadRequest \/ PrintResponse \/ ReadString)

ConversionSpec == ConversionInit /\ [][Convert]_conversion

------------------------------------------------------------------------------
(* Properties *)

\* The value of the first line with each key.
FirstValues(lines) ==
  [key \in {lines[i][1] : i \in DOMAIN lines} |->
     lines[SelectInSeq(lines, LAMBDA line : line[1] = key)][2]]

\* What is to be read when this much of the body has come
AsMeant(body) ==
  <<[method |-> meant.method, url |-> meant.url, version |-> meant.version,
     headers |-> FirstValues(meant.lines), body |-> body]>>

\* A request is read as it was meant as soon as its head has arrived, and one that
\* was cut within the head is never taken for a request with fewer headers or a
\* shorter url.  Of two headers with one key the first counts.  The body is what has
\* arrived of it; http.cpp:286 drops one of a single character, which is no part of
\* what is asked here: of such a body nothing is said but that no other is read.
RequestsAreRead ==
  kind = "request" /\ done =>
    LET arrived == Len(wire) - Len(HeadText(meant))
    IN IF arrived < 0 THEN got = NoRequest
       ELSE \/ got = AsMeant(SubSeq(meant.body, 1, arrived))
            \/ arrived = 1 /\ got = AsMeant(<<>>)

\* The head of a response never leaves the size that was allocated for it, and
\* one that can be printed fills it, so that the file read behind it follows and the
\* two ways to print a response agree.
ResponseIsWhole ==
  kind = "response" /\ done =>
    LET size == Len(wire) - Len(File)
    IN /\ Len(Written(meant)) <= size
       /\ meant.version \in {"1.0", "1.1"} /\ StatusText(meant.code) # <<>> =>
            Zero \notin ToSet(SubSeq(wire, 1, size)) /\ got = wire

\* The code points that UTF-8 text spells, as its definition has it
TwoBytes(a, b) == ((a - 192) * 64) + b - 128
ThreeBytes(a, b, c) == ((a - 224) * 4096) + ((b - 128) * 64) + c - 128

DecodeTurn(bytes, i, from) ==
  IF i > Len(bytes) THEN <<>>
  ELSE IF bytes[i] < 128 THEN <<bytes[i]>> \o from[i + 1]
  ELSE IF bytes[i] < 224 /\ i < Len(bytes)
       THEN <<TwoBytes(bytes[i], bytes[i + 1])>> \o from[i + 2]
  ELSE IF i + 1 < Len(bytes)
       THEN <<ThreeBytes(bytes[i], bytes[i + 1], bytes[i + 2])>> \o from[i + 3]
  ELSE <<>>

Decoded(bytes) == LET from[i \in 1 .. Len(bytes) + 1] == DecodeTurn(bytes, i, from) IN from[1]

\* A string that was dumped is read back byte for byte, unless it has a control
\* character that dump does not escape: then parse rejects what dump wrote.  One
\* written in \uXXXX is read as the UTF-8 of the same characters; a pair of escapes
\* that spells one character beyond 65535 is none of CodePoints, and the code makes
\* two units of three bytes of it.
StringsAreReadBack ==
  done =>
    /\ kind = "string" =>
         got = IF ToSet(meant) \cap (Control \ DOMAIN Escapes) # {} THEN NoString ELSE <<meant>>
    /\ kind = "escaped" => got # NoString /\ Decoded(got[1]) = meant
==============================================================================
