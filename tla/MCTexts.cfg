SPECIFICATION TextsSpec
CONSTANTS
  Dumped <- MCDumped
  Texts <- MCTexts
  Indent = 1
  MaxText = 5
  Words = {"a", "b"}
  MaxWord = 1
  MaxHeaders = 2
  MaxBody = 2
  Chars <- MCChars
  CodePoints <- MCCodePoints
  MaxChars = 3
INVARIANTS
  RoundTrip
  RequestsAreRead
  ResponseIsWhole
  StringsAreReadBack
PROPERTIES
  ParseEnds
CHECK_DEADLOCK FALSE
