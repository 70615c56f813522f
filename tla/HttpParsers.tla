----------------------------- MODULE HttpParsers -----------------------------
(***************************************************************************)
(* The three parsers of include/http against the texts they are for: what  *)
(* a message looks like, and what the parsers make of it, of its           *)
(* beginnings, and of texts that differ from it in one place.              *)
(***************************************************************************)
EXTENDS HttpText, FiniteSets

CONSTANTS Requests, Responses, Uris, \* the messages
          Wrap                       \* as in RequestParser

VARIABLES buf, it, state, out, loc, \* of the parser at work
          parser,                   \* which one that is
          msg,                      \* the message the text was made from
          kind                      \* how: all of it, a beginning, or a change

parserVars == <<buf, it, state, out, loc>>
caseVars == <<parser, msg, kind>>
vars == <<parserVars, caseVars>>

Rq == INSTANCE RequestParser
Rs == INSTANCE ResponseParser
Ur == INSTANCE UriParser

(***************************************************************************)
(* Messages as text.                                                       *)
(***************************************************************************)
CRLF == <<"CR", "LF">>

Lines(headers, space) ==
  FlattenSeq([i \in DOMAIN headers |->
    headers[i].name \o <<":">> \o space \o headers[i].value \o CRLF])

Delimiter(m) == <<"-", "-">> \o m.boundary

\* A part may have no headers.
PartText(m, p) ==
  Delimiter(m) \o CRLF \o (IF p.info = <<>> THEN <<>> ELSE p.info \o CRLF) \o CRLF
  \o p.data \o CRLF

PartLines(m) == FlattenSeq([i \in DOMAIN m.parts |-> PartText(m, m.parts[i])])

RequestText(m) ==
  m.method \o <<"SP">> \o m.uri \o <<"SP", "H", "T", "T", "P", "/">> \o m.version \o CRLF
  \o Lines(m.headers, m.space) \o CRLF \o m.content
  \o IF m.parts = <<>> THEN <<>> ELSE PartLines(m) \o Delimiter(m) \o <<"-", "-">> \o CRLF

ResponseText(m) ==
  <<"H", "T", "T", "P", "/">> \o m.version \o <<"SP">> \o m.codestr \o <<"SP">> \o m.status \o CRLF
  \o Lines(m.headers, m.space) \o CRLF \o m.content
  \o IF ~m.chunked THEN <<>>
     ELSE FlattenSeq([i \in DOMAIN m.chunks |->
            m.sizes[i] \o CRLF \o m.chunks[i] \o CRLF]) \o <<"0">> \o CRLF \o CRLF

\* An absent part of a URI is empty and comes without its separator.
Before(separator, t) == IF t = <<>> THEN <<>> ELSE <<separator>> \o t
After(t, separator) == IF t = <<>> THEN <<>> ELSE t \o <<separator>>

QueryText(m) ==
  FlattenSeq([i \in DOMAIN m.queries |->
    (IF i = 1 THEN <<>> ELSE <<"&">>) \o m.queries[i].name \o <<"=">> \o m.queries[i].value])

UriText(m) ==
  m.scheme \o <<":", "/", "/">>
  \o After(m.username \o Before(":", m.password), "@")
  \o m.hostname \o Before(":", m.portstr) \o m.path
  \o Before("?", QueryText(m)) \o Before("#", m.fragment)

(***************************************************************************)
(* The messages the parsers read: what must stand in the fields of a       *)
(* well-formed message.  The others are well-formed too, and the parsers   *)
(* refuse them or read something else.                                     *)
(***************************************************************************)
Named(headers, name) == \E i \in DOMAIN headers : headers[i].name = <<name>>

\* A line break of the data follows the boundary: the data ends there for the
\* parser, which does not ask what is before the boundary.
HoldsBoundary(data, boundary) ==
  {boundary \o <<"CR">>, boundary \o <<"-", "-", "CR">>} \intersect SubSeqs(data \o <<"CR">>) # {}

\* Headers have values, a body comes with POST or PUT and a Content-Length
\* spelled so, and parts have headers and do not hold the boundary.
ReadsRequest(m) ==
  /\ \A i \in DOMAIN m.headers : m.headers[i].value # <<>>
  /\ m.content # <<>> \/ m.parts # <<>> => m.method \in {<<"POST">>, <<"PUT">>}
  /\ m.content # <<>> => Named(m.headers, "Content-Length")
  /\ \A i \in DOMAIN m.parts :
       m.parts[i].info # <<>> /\ ~HoldsBoundary(m.parts[i].data, m.boundary)

\* The reason phrase is longer than one character, headers have values, the
\* first header's name does not begin with a mark, no character is above 127,
\* and after headers comes a body, with its length or in chunks.
ReadsResponse(m) ==
  /\ Len(m.status) > 1 \/ ToSet(m.status) \intersect Rs!Long # {}
  /\ Signed \intersect ToSet(m.status) = {}
  /\ \A i \in DOMAIN m.headers :
       m.headers[i].value # <<>> /\ Signed \intersect ToSet(m.headers[i].value) = {}
  /\ m.headers # <<>> => m.headers[1].name[1] \in Alnum \union Word
  /\ m.content # <<>> => Named(m.headers, "Content-Length")
  /\ m.headers # <<>> => m.chunked \/ m.content # <<>>
  /\ m.chunked => [name |-> <<"Transfer-Encoding">>, value |-> <<"chunked">>] \in ToSet(m.headers)

\* A text that is not empty, with a symbol of `first` and then of `rest`.
Begins(t, first, rest) ==
  t \in Seq(Symbols) /\ t # <<>> /\ t[1] \in first /\ \A i \in 2 .. Len(t) : t[i] \in rest

\* A scheme, a host and a path; names and values of queries are not empty, and
\* of what may stand between the separators only some.
ReadsUri(m) ==
  /\ m.scheme \in Seq(Ur!Unreserved)
  /\ m.username # <<>> => Begins(m.username, Alnum \union HeaderName, Ur!Name)
  /\ m.password # <<>> =>
       m.username # <<>> /\ Begins(m.password, Ur!Unreserved \ HeaderName, Alnum \union {"%"})
  /\ Begins(m.hostname, IF m.username = <<>> THEN Alnum \union HeaderName ELSE Ur!Name, Ur!Name)
  /\ m.path # <<>>
  /\ \A i \in DOMAIN m.queries :
       Begins(m.queries[i].name, Ur!Name, Ur!Name) /\ Begins(m.queries[i].value, Ur!Name, Ur!Name)

\* A URI's parts, which the separators that end them are not part of.
UriFits(m) ==
  /\ m \in [scheme : Seq(Symbols), username : Seq(Symbols), password : Seq(Symbols),
            hostname : Seq(Symbols), portstr : Seq(Digit), path : Seq(Symbols \ {"#", "?"}),
            queries : Seq([name : Seq(Symbols), value : Seq(Symbols)]), fragment : Seq(Symbols)]
  /\ m.path # <<>> => m.path[1] = "/"

ASSUME UrisAssumption == \A m \in Uris : UriFits(m)

\* Texts of symbols; a request is shorter than size_t can count.
ASSUME ParsersAssumption ==
  /\ Wrap \in Nat
  /\ \A m \in Requests : RequestText(m) \in Seq(Symbols) /\ Len(RequestText(m)) < Wrap
  /\ \A m \in Responses : ResponseText(m) \in Seq(Symbols)
  /\ \A m \in Uris : UriText(m) \in Seq(Symbols)

\* Texts that differ from t in one symbol, or lack one.
Changed(t) ==
  UNION {{ReplaceAt(t, i, c) : c \in Symbols} \union {RemoveAt(t, i)} : i \in DOMAIN t}

Take(t) ==
  \/ kind = "whole" /\ buf = t
  \/ kind = "cut" /\ \E n \in 0 .. Len(t) - 1 : buf = SubSeq(t, 1, n)
  \/ kind = "changed" /\ buf \in Changed(t)

Init ==
  \/ parser = "request" /\ msg \in Requests /\ Take(RequestText(msg)) /\ Rq!Begin
  \/ parser = "response" /\ msg \in Responses /\ Take(ResponseText(msg)) /\ Rs!Begin
  \/ parser = "uri" /\ msg \in Uris /\ Take(UriText(msg)) /\ Ur!Begin

Next ==
  /\ \/ parser = "request" /\ Rq!Next
     \/ parser = "response" /\ Rs!Next
     \/ parser = "uri" /\ Ur!Next
  /\ UNCHANGED caseVars

Spec == Init /\ [][Next]_vars
-----------------------------------------------------------------------------
Decided == state \in Verdicts

T(v) == Text(buf, v)

ParsedRequest ==
  [method |-> T(out.method), uri |-> T(out.uri), version |-> T(out.version), space |-> msg.space,
   headers |-> [i \in DOMAIN out.headers |->
                  [name |-> T(out.headers[i].name), value |-> T(out.headers[i].value)]],
   content |-> T(out.content), boundary |-> T(out.boundary),
   parts |-> [i \in DOMAIN out.parts |->
                [info |-> T(out.parts[i].info), data |-> T(out.parts[i].data)]]]

ParsedResponse ==
  [version |-> T(out.version), codestr |-> T(out.codestr), status |-> T(out.status),
   space |-> msg.space,
   headers |-> [i \in DOMAIN out.headers |->
                  [name |-> T(out.headers[i].name), value |-> T(out.headers[i].value)]],
   content |-> T(out.content), chunked |-> out.chunked,
   sizes |-> msg.sizes, chunks |-> [i \in DOMAIN out.chunks |-> T(out.chunks[i].data)]]

ParsedUri ==
  [scheme |-> T(out.scheme), username |-> T(out.username), password |-> T(out.password),
   hostname |-> T(out.hostname), portstr |-> T(out.portstr), path |-> T(out.path),
   queries |-> [i \in DOMAIN out.queries |->
                  [name |-> T(out.queries[i].name), value |-> T(out.queries[i].value)]],
   fragment |-> T(out.fragment)]

\* The state, the position and the beginning of the piece that is being read
\* have their types.
TypeOK ==
  /\ buf \in Seq(Symbols)
  /\ it \in 1 .. Len(buf) + 1
  /\ state \in Verdicts \union {"HttpStart", "Header_rnr", "Header_rnrn", "PostDataStart",
                               "BoundaryMatchStart", "PartBodyStart", "ChunkDataSize_rn",
                               "HashStart", "Path", "QueryName"}
                 \union UNION {{r.from, r.to} : r \in Rq!Rules \union Rs!Rules \union Ur!Rules}
  /\ loc.prev \in 1 .. it

\* The message is accepted, and every field of the result is the text it was
\* made from.
IsParsed ==
  /\ state = "Completed"
  /\ msg = CASE parser = "request" -> ParsedRequest
            [] parser = "response" -> ParsedResponse
            [] parser = "uri" -> ParsedUri

\* The messages that are read back as they were written are these and no
\* others: of the messages HTTP allows, a parser refuses or misreads a request
\* with an empty header, a body after GET or without a Content-Length spelled
\* so, a part without headers or with the boundary in its data; a response
\* with headers and no body, with a body up to the end of the connection, with
\* a short reason phrase, an empty header or characters above 127; a URI
\* without a host or a path, or with an empty value in its query.
WholeIsParsed ==
  kind = "whole" /\ Decided =>
    (IsParsed <=> CASE parser = "request" -> ReadsRequest(msg)
                    [] parser = "response" -> ReadsResponse(msg)
                    [] parser = "uri" -> ReadsUri(msg))

\* The beginning of a request that can be read is incomplete, never an error:
\* a server may go on reading.  The parser takes one beginning for the whole:
\* when the text ends with the headers, it does not ask whether a body is to
\* come.
CutIsIncomplete ==
  kind = "cut" /\ parser = "request" /\ ReadsRequest(msg) /\ Decided =>
    \/ state = "InCompleted"
    \/ /\ state = "Completed"
       /\ IsSuffix(CRLF \o CRLF, buf)
       /\ msg.content # <<>> \/ msg.parts # <<>>

\* A header h that begins at `from`: a name, a colon and perhaps a space, the
\* value and a line break.  Headers follow each other up to HeadersEnd.
HeaderTiles(h, from) ==
  /\ h.name[1] = from /\ h.name[1] < h.name[2]
  /\ h.value[1] - h.name[2] \in {1, 2} /\ h.value[1] < h.value[2]
  /\ T(<<h.value[2], h.value[2] + 2>>) = CRLF

HeadersEnd(headers, from) ==
  IF headers = <<>> THEN from ELSE Last(headers).value[2] + 2

HeadersTile(headers, from) ==
  \A i \in DOMAIN headers :
    HeaderTiles(headers[i], IF i = 1 THEN from ELSE headers[i - 1].value[2] + 2)

\* A part begins after its delimiter, and its data four places before the next
\* boundary ends.  The parser finds that boundary by its text alone, whatever
\* is in the four places, and may find it in the first places of the data:
\* then the data ends before it begins, by as many places as are missing.
PartTiles(p, from, boundary) ==
  /\ p.info[1] = from + 4 + Len(T(boundary))
  /\ T(<<p.info[2], p.info[2] + 4>>) = CRLF \o CRLF
  /\ p.data[1] = p.info[2] + 4
  /\ p.data[1] <= p.data[2] + 4
  /\ T(<<p.data[2] + 4, p.data[2] + 4 + Len(T(boundary))>>) = T(boundary)

PartsTile(parts, from, boundary) ==
  \A i \in DOMAIN parts :
    PartTiles(parts[i], IF i = 1 THEN from ELSE parts[i - 1].data[2] + 2, boundary)

\* A chunk: its size, a line break, as much data, and a line break.
ChunkTiles(c, from) ==
  /\ c.data[1] > from + 2 /\ c.data[2] = c.data[1] + c.size
  /\ T(<<c.data[1] - 2, c.data[1]>>) = CRLF /\ T(<<c.data[2], c.data[2] + 2>>) = CRLF

ChunksTile(chunks, from) ==
  \A i \in DOMAIN chunks :
    ChunkTiles(chunks[i], IF i = 1 THEN from ELSE chunks[i - 1].data[2] + 2)

RequestTiles ==
  LET first == out.version[2] + 2
      body == HeadersEnd(out.headers, first) + 2
  IN  /\ out.method[1] = 1
      /\ out.uri[1] = out.method[2] + 1
      /\ out.version[1] = out.uri[2] + 6
      /\ HeadersTile(out.headers, first)
      /\ PartsTile(out.parts, body, out.boundary)
      /\ out.content # Empty =>
           /\ out.content[1] = body
           /\ out.content[2] = out.content[1] + out.contentSize
           /\ out.content[2] <= Len(buf) + 1

\* After a response's status line the parser passes over all that is neither
\* a carriage return nor a letter or digit: the first header may begin later.
\* The content is as long as the last Content-Length says, whether the text
\* holds so much or not.
ResponseTiles ==
  LET first == IF out.headers = <<>> THEN out.status[2] + 2 ELSE out.headers[1].name[1]
      body == HeadersEnd(out.headers, first) + 2
  IN  /\ out.version[1] = 6
      /\ out.codestr[1] = out.version[2] + 1
      /\ out.status[1] = out.codestr[2] + 1
      /\ first >= out.status[2] + 2
      /\ HeadersTile(out.headers, first)
      /\ ChunksTile(out.chunks, body)
      /\ out.content # Empty =>
           out.content[1] = body /\ out.content[2] = out.content[1] + loc.length

\* The parts of a URI in their order; those that are absent are empty.
UriParts == <<out.scheme, out.username, out.password, out.hostname,
              out.portstr, out.path, out.querystr, out.fragment>>

UriTiles ==
  LET present == {i \in DOMAIN UriParts : UriParts[i][1] # UriParts[i][2]} IN
  IsPrefix(<<"/">>, T(out.path)) =>
    /\ out.scheme[1] = 1
    /\ \A i \in present : UriParts[i][1] < UriParts[i][2]
    /\ \A i, j \in present :
         i < j /\ (\A k \in present : k <= i \/ k >= j) =>
           UriParts[j][1] - UriParts[i][2] \in 0 .. 3
    /\ \E i \in present : UriParts[i][2] = Len(buf) + 1 /\ \A k \in present : k <= i

\* When a parser accepts a text, each view it returns begins where the view
\* before it and the separator after that end, except the first header of a
\* response, before which the parser passes over what is not a letter.  They
\* end before the next separator, except that a part's data may end up to four
\* places before it begins.  A request's body is inside the text; a response's
\* content is as long as its Content-Length.
ViewsTile ==
  state = "Completed" =>
    CASE parser = "request" -> RequestTiles
      [] parser = "response" -> ResponseTiles
      [] parser = "uri" -> UriTiles
=============================================================================
