------------------------------ MODULE MCTexts ------------------------------
(***************************************************************************)
(* Each behavior follows one text: a JSON value or text through JsonParser *)
(* or a request, a response or a JSON string through Conversions.          *)
(*                                                                         *)
(* The values have depth two, no empty map (dump writes {}, which parse    *)
(* rejects) and no null in an array (parse makes it a null pointer, which  *)
(* dump follows); the texts are all those of up to MaxText tokens.         *)
(***************************************************************************)
EXTENDS JsonParser, Conversions

CONSTANT MaxText

Leaves == {<<"Scalar", "1">>, <<"Scalar", "empty">>}
ArraysOver(S) == {<<"Array", a>> : a \in UNION {[1 .. n -> S] : n \in 0 .. 2}}
MapsOver(S) == {<<"Map", m>> : m \in UNION {[K -> S] : K \in (SUBSET Strings) \ {{}}}}
Flat == ArraysOver(Leaves) \cup MapsOver(Leaves \cup {Null})
Nested == Flat \cup {<<"Scalar", "str">>}

MCDumped == ArraysOver(Nested) \cup MapsOver(Nested \cup {Null})

MCTexts ==
  UNION {[1 .. n -> {"[", "]", "{", "}", ",", ":", " ", "true", "null", "str"}] : n \in 0 .. MaxText}

\* quote, backslash, slash, newline, a control character without an escape, a
\* letter that is an escape, and a byte of a longer character
MCChars == {34, 92, 47, 10, 1, 110, 195}
\* the ends of the ranges of one, two and three bytes, and hex digits of each kind
MCCodePoints == {0, 10, 34, 92, 127, 128, 2047, 2048, 4779, 65535}

NoText == source = NoResult /\ text = <<>> /\ startIndex = 1 /\ stack = <<>>
          /\ res = Null /\ outcome = "returned"

TextsInit == (Init /\ NoConversion) \/ (ConversionInit /\ NoText)

TextsNext == (Next /\ UNCHANGED conversion) \/ (Convert /\ UNCHANGED vars)

TextsSpec == TextsInit /\ [][TextsNext]_<<vars, conversion>> /\ WF_vars(Parse /\ UNCHANGED conversion)
==============================================================================
