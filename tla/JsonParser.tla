----------------------------- MODULE JsonParser -----------------------------
(***************************************************************************)
(* JsonParser (include/json.h, src/json.cpp): dump writes a value, parse   *)
(* reads a text with one loop for each container that is open.  Each step  *)
(* here is one turn of the innermost loop; the C++ stack is the stack.     *)
(*                                                                         *)
(* A text is a sequence of tokens.  A space, a line break or a bracket is  *)
(* one character; numbers have one digit, "true" stands for both booleans, *)
(* and there are two strings, "empty" and "str": what the characters of a  *)
(* string or of a number mean is left out (JsonString has the characters   *)
(* of strings).  A value is a tuple that starts with its jsonBaseType.     *)
(***************************************************************************)
EXTENDS Naturals, Sequences, TLC

CONSTANTS Dumped,   \* the values that are dumped and parsed back
          Texts,    \* other texts that are parsed
          Indent    \* dump's indent

Strings == {"empty", "str"}
Scalars == {"1", "true", "null"} \cup Strings

\* How many characters a token takes
Width(token) ==
  CASE token \in {"true", "null"} -> 4 [] token = "empty" -> 2 [] token = "str" -> 3
    [] OTHER -> 1

Null == <<"Null">>
NoObject == <<"nullptr">>   \* a unique_ptr that points nowhere
NoResult == <<>>

------------------------------------------------------------------------------
(* dump *)

Spaces(n) == [i \in 1 .. n |-> " "]

\* variant: everything on one line, as dumpArray's parameter singleLine suggests
SingleLine(depth) == Spaces(depth * Indent)

\* A line break, and the indentation of the next line
NewLine(depth) == Spaces(1 + depth * Indent)

KeyOrder == <<"empty", "str">>    \* std::map keeps its keys in order
KeysOf(map) == SelectSeq(KeyOrder, LAMBDA k : k \in DOMAIN map)

RECURSIVE Dump(_, _), DumpItems(_, _, _)

\* The items of a container, each of them a prefix and a value
DumpItems(items, i, depth) ==
  IF i > Len(items) THEN <<>>
  ELSE NewLine(depth + 1) \o items[i][1] \o Dump(items[i][2], depth + 1)
       \o (IF i < Len(items) THEN <<",">> ELSE <<>>) \o DumpItems(items, i + 1, depth)

Dump(v, depth) ==
  LET pairs == KeysOf(v[2])
      items == IF v[1] = "Array" THEN [i \in 1 .. Len(v[2]) |-> <<(<<>>), v[2][i]>>]
               ELSE [i \in 1 .. Len(pairs) |-> <<(<<pairs[i], " ", ":", " ">>), v[2][pairs[i]]>>]
      ends == IF v[1] = "Array" THEN <<"[", "]">> ELSE <<"{", "}">>
  IN CASE v[1] = "Scalar" -> <<v[2]>>
       [] v = Null -> <<"null">>
       [] v[1] \in {"Array", "Map"} /\ items = <<>> -> ends
       [] OTHER -> <<ends[1]>> \o DumpItems(items, 1, depth) \o NewLine(depth) \o <<ends[2]>>

------------------------------------------------------------------------------
(* The copy constructors of JsonArray and JsonMap *)

\* variant: only what operator= of an array keeps
Assigned(items) == SelectSeq(items, LAMBDA v : v \notin {Null, <<"Scalar", "true">>})

Copied(items) == items

RECURSIVE HasNoObject(_), CopyOf(_)

\* Copying and dumping follow every pointer.
HasNoObject(v) ==
  \/ v = NoObject
  \/ v[1] \in {"Array", "Map"} /\ \E k \in DOMAIN v[2] : HasNoObject(v[2][k])

CopyOf(v) ==
  CASE v[1] = "Array" -> <<"Array", Copied([i \in DOMAIN v[2] |-> CopyOf(v[2][i])])>>
    [] v[1] = "Map" -> <<"Map", [k \in DOMAIN v[2] |-> CopyOf(v[2][k])]>>
    [] OTHER -> v

------------------------------------------------------------------------------

VARIABLES
  source,      \* history: the value the text was dumped from, or NoResult
  text,        \* view
  startIndex,  \* the token at startIndex
  stack,       \* the calls of parseArray and parseMap, innermost last
  res,         \* what parse has to return
  outcome      \* "parsing", "returned", "thrown" or, of a copy, "crashed"

vars == <<source, text, startIndex, stack, res, outcome>>

Init ==
  /\ \/ source \in Dumped /\ text = Dump(source, 0)
     \/ source = NoResult /\ text \in Texts
  /\ startIndex = 1
  /\ stack = <<>>
  /\ res = NoResult
  /\ outcome = "parsing"

More == startIndex <= Len(text)
Here(tokens) == More /\ text[startIndex] \in tokens
Level == Len(stack)
Top == stack[Level]
Within(kind, states) == Level > 0 /\ Top.kind = kind /\ Top.state \in states
Outer == SubSeq(stack, 1, Level - 1)

RECURSIVE WidthFrom(_)
WidthFrom(i) == IF i > Len(text) THEN 0 ELSE Width(text[i]) + WidthFrom(i + 1)

\* parseNum, parseBool, and the tests for null want a character after the value;
\* parseString wants more than three characters from its first quote on.
Readable == IF text[startIndex] \in Strings THEN WidthFrom(startIndex) > 3
                                            ELSE startIndex < Len(text)

\* parseArray stores a null as an empty pointer, parseMap as a JsonObj.
Read(kind) ==
  IF text[startIndex] # "null" THEN <<"Scalar", text[startIndex]>>
  ELSE IF kind = "Array" THEN NoObject ELSE Null

NewFrame(kind) ==
  IF kind = "Array" THEN [kind |-> "Array", state |-> "open", key |-> "", data |-> <<>>]
  ELSE [kind |-> "Map", state |-> "keyStart", key |-> "", data |-> [k \in {} |-> Null]]

InsertOrAssign(map, key, v) == [k \in DOMAIN map \cup {key} |-> IF k = key THEN v ELSE map[k]]

\* A frame with one more value
Holding(frame, v) ==
  IF frame.kind = "Array"
  THEN [frame EXCEPT !.data = Append(@, v), !.state = "open"]
  ELSE [frame EXCEPT !.data = InsertOrAssign(@, frame.key, v), !.state = "valueEnd"]

TakesValue == Within("Array", {"open", "comma"}) \/ Within("Map", {"valueStart"})

------------------------------------------------------------------------------

CanSkip == Here({" "})

\* variant: the space is seen and not passed
StandStill == startIndex' = startIndex

Step == startIndex' = startIndex + 1

SkipSpace ==
  /\ CanSkip
  /\ Step
  /\ UNCHANGED <<stack, res, outcome>>

CanOpen == Here({"[", "{"}) /\ startIndex < Len(text)
           /\ ((Level = 0 /\ res = NoResult) \/ TakesValue)

Open ==
  /\ CanOpen
  /\ stack' = Append(stack, NewFrame(IF text[startIndex] = "[" THEN "Array" ELSE "Map"))
  /\ Step
  /\ UNCHANGED <<res, outcome>>

CanSeparate == Here({","}) /\ (Within("Array", {"open"}) \/ Within("Map", {"valueEnd"}))

Separate ==
  /\ CanSeparate
  /\ stack' = [stack EXCEPT ![Level].state = IF Top.kind = "Array" THEN "comma" ELSE "keyStart"]
  /\ Step
  /\ UNCHANGED <<res, outcome>>

CanTakeKey == Here(Strings) /\ Within("Map", {"keyStart"}) /\ Readable

TakeKey ==
  /\ CanTakeKey
  /\ stack' = [stack EXCEPT ![Level].state = "keyEnd", ![Level].key = text[startIndex]]
  /\ Step
  /\ UNCHANGED <<res, outcome>>

CanColon == Here({":"}) /\ Within("Map", {"keyEnd"})

Colon ==
  /\ CanColon
  /\ stack' = [stack EXCEPT ![Level].state = "valueStart"]
  /\ Step
  /\ UNCHANGED <<res, outcome>>

CanTakeScalar == Here(Scalars) /\ TakesValue /\ Readable

TakeScalar ==
  /\ CanTakeScalar
  /\ stack' = [stack EXCEPT ![Level] = Holding(@, Read(Top.kind))]
  /\ Step
  /\ UNCHANGED <<res, outcome>>

\* An array in an array: the caller moves on by one more character.  It may take
\* that one from a longer token, and then meets the rest of it.
InArray == Level > 1 /\ stack[Level - 1].kind = "Array"

SkipsAfter(kind) == InArray /\ kind = "Array"

CanClose ==
  /\ \/ Here({"]"}) /\ Within("Array", {"open", "comma"})
     \/ Here({"}"}) /\ Within("Map", {"valueEnd"})
  /\ SkipsAfter(Top.kind) /\ startIndex < Len(text) => Width(text[startIndex + 1]) = 1

\* The container goes to the one around it, or is what parse returns.
Close ==
  /\ CanClose
  /\ startIndex' = startIndex + (IF SkipsAfter(Top.kind) THEN 2 ELSE 1)
  /\ LET v == <<Top.kind, Top.data>>
     IN IF Level = 1 THEN stack' = <<>> /\ res' = v
        ELSE /\ stack' = [Outer EXCEPT ![Level - 1] = Holding(@, v)]
             /\ UNCHANGED res
  /\ UNCHANGED outcome

\* variant: the end of the text ends every container
AtEnd == ~More

\* The text ends outside of every container; without one the result is a null.
CanReturn == ~More /\ Level = 0

Return ==
  /\ CanReturn
  /\ outcome' = "returned"
  /\ res' = IF res = NoResult THEN Null ELSE res
  /\ UNCHANGED <<startIndex, stack>>

\* Every other character, and the end of the text elsewhere, throws.
Throw ==
  /\ ~(CanSkip \/ CanOpen \/ CanSeparate \/ CanTakeKey \/ CanColon \/ CanTakeScalar
       \/ CanClose \/ CanReturn)
  /\ outcome' = "thrown"
  /\ UNCHANGED <<startIndex, stack, res>>

\* One turn of the innermost loop
Parse ==
  /\ outcome = "parsing"
  /\ UNCHANGED <<source, text>>
  /\ \/ SkipSpace
     \/ Open
     \/ Separate
     \/ TakeKey
     \/ Colon
     \/ TakeScalar
     \/ Close
     \/ Return
     \/ Throw

\* What came from a text is copied, dumped and parsed again.  dump throws on what
\* is no container.
CanDumpAgain == outcome = "returned" /\ source = NoResult /\ res # Null

DumpAgain ==
  /\ CanDumpAgain /\ ~HasNoObject(res)
  /\ source' = res
  /\ text' = Dump(CopyOf(res), 0)
  /\ startIndex' = 1
  /\ res' = NoResult
  /\ outcome' = "parsing"
  /\ UNCHANGED stack

FollowNull ==
  /\ CanDumpAgain /\ HasNoObject(res)
  /\ outcome' = "crashed"
  /\ UNCHANGED <<source, text, startIndex, stack, res>>

Next == Parse \/ DumpAgain \/ FollowNull

Spec == Init /\ [][Next]_vars

FairSpec == Spec /\ WF_vars(Parse)

------------------------------------------------------------------------------
(* Properties *)

\* parse reads back what dump wrote, nested arrays included, whose loop passes
\* over one character too many: dump never puts one there that is needed.  And so
\* it is with all that parse ever makes of a text and of a copy of that, unless
\* there is a null in an array.
RoundTrip ==
  /\ source # NoResult =>
       /\ outcome \notin {"thrown", "crashed"}
       /\ outcome = "returned" => res = source
  /\ outcome = "returned" => stack = <<>>
  /\ outcome = "crashed" => {"[", "null"} \subseteq {text[i] : i \in DOMAIN text}

\* parse returns or throws, whatever the text.
ParseEnds == outcome = "parsing" ~> outcome # "parsing"
==============================================================================
