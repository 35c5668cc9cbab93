--------------------------------- MODULE Http ---------------------------------
(***************************************************************************)
(* HttpRequest::fromRawData and the printing of an HttpResponse (http.cpp).*)
(*                                                                         *)
(* A text is a sequence of tokens.  A word the code compares as a whole (a *)
(* method, "HTTP/", a version) is one token; every other token stands for  *)
(* one character.                                                          *)
(***************************************************************************)
EXTENDS Naturals, SequencesExt

CONSTANTS Words,       \* the characters of urls, keys, values and bodies
          MaxWord,     \* bound: the characters of a url, a key or a value
          MaxHeaders,  \* bound: the headers of a request
          MaxBody      \* bound: the characters of a body

Zero == "NUL"     \* the character a fresh buffer is filled with

ASSUME HttpAssumption ==
  /\ Words \cap {" ", ":", "\r", "\n", Zero} = {}
  /\ MaxWord \in Nat
  /\ MaxHeaders \in Nat
  /\ MaxBody \in Nat

Methods == {"GET", "POST", "PUT", "PATCH", "DELETE", "HEAD"}
Versions == {"0.9", "1.0", "1.1"}
CRLF == <<"\r", "\n">>

\* An optional value is a sequence of at most one element.
NoRequest == <<>>

------------------------------------------------------------------------------
(* HttpRequest *)

\* raw.substr(i, n) == what
At(raw, i, what) ==
  i + Len(what) - 1 <= Len(raw) /\ \A k \in DOMAIN what : raw[i + k - 1] = what[k]

\* while (raw.at(i) != token) i++: where the loop stops, 0 when it leaves the text
Find(raw, i, token) == SelectInSubSeq(raw, i, Len(raw), LAMBDA t : t = token)

\* while (raw.at(i) == ' ') i++
SkipSpaces(raw, i) == SelectInSubSeq(raw, i, Len(raw), LAMBDA t : t # " ")

\* std::map::insert keeps what is there
FirstWins(key, value, headers) ==
  [k \in {key} \cup DOMAIN headers |-> IF k = key THEN value ELSE headers[k]]

\* variant: a carriage return alone ends the header lines
EndsAtReturn(raw, i) == At(raw, i, <<"\r">>)

\* while (raw.substr(i, 2) != "\r\n"): where the loop over the header lines ends
HeadersEnd(raw, i) == At(raw, i, CRLF)

\* A turn of the loop over the header lines at position i: the headers and where the
\* body begins, if the lines end, from what is read from each later position.
HeaderTurn(raw, i, from) ==
  LET colon == Find(raw, i, ":")
      value == IF colon = 0 THEN 0 ELSE SkipSpaces(raw, colon + 1)
      cr == IF value = 0 THEN 0 ELSE Find(raw, value, "\r")
      rest == from[cr + 2]
  IN IF HeadersEnd(raw, i) THEN <<[headers |-> <<>>, body |-> i + 2]>>
     ELSE IF cr = 0 \/ ~At(raw, cr, CRLF) \/ rest = <<>> THEN <<>>
     ELSE <<[headers |-> FirstWins(SubSeq(raw, i, colon - 1), SubSeq(raw, value, cr - 1),
                                   rest[1].headers),
             body |-> rest[1].body]>>

headersFrom(raw) == LET from[i \in 1 .. Len(raw) + 1] == HeaderTurn(raw, i, from) IN from

\* index < raw.size() - 1
HasBody(raw, i) == i < Len(raw)

\* Every way to leave the text early throws out_of_range, which is caught.
fromRawData(raw) ==
  LET space == IF Len(raw) < 3 THEN 0 ELSE Find(raw, 3, " ")
      wellFormed ==
        /\ space # 0
        /\ raw[1] \in Methods /\ raw[2] = " "
        /\ At(raw, space + 1, <<"HTTP/">>)
        /\ \E v \in Versions : At(raw, space + 2, <<v>> \o CRLF)
      lines == IF wellFormed THEN headersFrom(raw)[space + 5] ELSE <<>>
  IN IF lines = <<>> THEN NoRequest
     ELSE <<[method |-> raw[1], url |-> SubSeq(raw, 3, space - 1), version |-> raw[space + 2],
             headers |-> lines[1].headers,
             body |-> IF HasBody(raw, lines[1].body) THEN SubSeq(raw, lines[1].body, Len(raw))
                                                     ELSE <<>>]>>

------------------------------------------------------------------------------
(* HttpResponse: a version, a status code and the headers in the order of the map *)

\* getStatusText: three codes stand for all, one of them unknown
StatusText(code) == CASE code = "200" -> <<"OK">>
                      [] code = "404" -> <<"Not", " ", "Found">>
                      [] OTHER -> <<>>

\* getContentType compares hashes, taken here to tell the extensions apart.
ContentTypes == [html |-> <<"text/html">>, png |-> <<"image/png">>]
ContentType(ext) == IF ext \in DOMAIN ContentTypes THEN ContentTypes[ext] ELSE <<>>

HeaderLine(header) == header[1] \o <<":", " ">> \o header[2] \o CRLF

\* variant: the blank after the colon is not counted
TightSize(header) == Len(header[1]) + 1 + Len(header[2]) + 2

HeaderSize(header) == Len(header[1]) + 1 + 1 + Len(header[2]) + 2

\* "HTTP/", the version, the code and two blanks are 13 characters.
getRawDataSizeWithoutBody(res) ==
  LET size[n \in 0 .. Len(res.headers)] ==
        IF n = 0 THEN 5 + Len(StatusText(res.code)) + 2
                 ELSE size[n - 1] + HeaderSize(res.headers[n])
  IN size[Len(res.headers)] + 2

\* What toRawDataWithoutBody puts at the start of the buffer.  Version 0.9 is
\* copied over the "HTTP/", and its own place is left as it was; a response without
\* a version or with an unknown code ends in an exception half way.
Written(res) ==
  LET start == IF res.version = "0.9" THEN <<"0.9", Zero>> ELSE <<"HTTP/", res.version>>
      line == start \o <<" ", res.code, " ">> \o StatusText(res.code)
      lines == [i \in DOMAIN res.headers |-> HeaderLine(res.headers[i])]
  IN IF res.version = "" THEN <<"HTTP/">>
     ELSE IF StatusText(res.code) = <<>> THEN line
     ELSE line \o CRLF \o FlattenSeq(lines) \o CRLF

toRawDataWithoutBody(res, buffer) ==
  [i \in DOMAIN buffer |-> IF i <= Len(Written(res)) THEN Written(res)[i] ELSE buffer[i]]

\* The size of the string that toRawData returns: the same sum, and the body.
resSize(res, body) == getRawDataSizeWithoutBody(res) + Len(body)

\* Nothing, when there is no version or no status text, or when what was printed is
\* not as long as the string made for it.
toRawData(res, body) ==
  LET printed == Written(res) \o body
  IN IF res.version = "" \/ StatusText(res.code) = <<>> \/ Len(printed) # resSize(res, body)
     THEN <<>> ELSE printed

\* The response of static_web_http to a file with this extension.
StaticResponse(ext) ==
  LET type == [k \in DOMAIN ContentType(ext) |-> <<<<"Content-Type">>, <<ContentType(ext)[k]>>>>]
  IN [version |-> "1.0", code |-> "200",
      headers |-> <<<<<<"Content-Length">>, <<"size">>>>>> \o type \o <<<<<<"server">>, <<"name">>>>>>]

------------------------------------------------------------------------------
(* What is read and printed *)

\* A value may have blanks and colons, but no blank at its start.
Values == {v \in SeqOf(Words \cup {" ", ":"}, MaxWord) : v = <<>> \/ v[1] # " "}
Lines == (SeqOf(Words, MaxWord) \ {<<>>}) \X Values

\* What a client may mean to say, header by header, and the text it sends for it.
Requests ==
  [method : Methods, url : SeqOf(Words \cup {":"}, MaxWord), version : {"0.9", "1.1"},
   lines : SeqOf(Lines, MaxHeaders), body : {[i \in 1 .. n |-> "x"] : n \in 0 .. MaxBody}]

HeadText(r) ==
  <<r.method, " ">> \o r.url \o <<" ", "HTTP/", r.version>> \o CRLF
    \o FlattenSeq([i \in DOMAIN r.lines |-> HeaderLine(r.lines[i])]) \o CRLF

\* What one read of the socket may bring: all of a request, or its beginning.
Received(r) == LET all == HeadText(r) \o r.body IN {SubSeq(all, 1, k) : k \in 1 .. Len(all)}

Responses ==
  [version : Versions \cup {""}, code : {"200", "404", "600"}, headers : SeqOf(Lines, MaxHeaders)]
    \cup {StaticResponse(ext) : ext \in {"html", "png", "unknown"}}
==============================================================================
