---------------------------- MODULE RequestParser ----------------------------
(***************************************************************************)
(* include/http/request_parser.hpp: the loop of parse, one iteration a     *)
(* step.  The states that only look at the class of the character are the  *)
(* rows of Rules; each of the others is an action.  A verdict is a state.  *)
(***************************************************************************)
EXTENDS HttpText

CONSTANT Wrap \* size_t counts modulo Wrap; above the length of any input

VARIABLES buf,   \* the text
          it,    \* the position of cur_char
          state, \* the parser's state, or its verdict
          out,   \* the Request
          loc    \* prev_it and remaining_content_size

vars == <<buf, it, state, out, loc>>

Printable == Symbols \ Control

NewRequest ==
  [method |-> Empty, uri |-> Empty, version |-> Empty, headers |-> <<>>, content |-> Empty,
   contentSize |-> 0, multipart |-> FALSE, boundary |-> Empty, parts |-> <<>>]

Begin ==
  /\ it = 1
  /\ state = "MethodUnstart"
  /\ out = NewRequest
  /\ loc = [prev |-> 1, remaining |-> 0]

Rules == {
  Rule("MethodUnstart", Alpha, "MethodStart", "none"),
  Rule("MethodStart", {"SP"}, "MethodEnd", "method"),
  Rule("MethodStart", Alpha, "MethodStart", "none"),
  Rule("MethodEnd", Printable, "UriStart", "mark"),
  Rule("UriStart", {"SP"}, "UriEnd", "uri"),
  Rule("UriStart", Printable \ {"SP"}, "UriStart", "none"),
  Rule("UriEnd", {"H"}, "HttpStart", "mark"),
  Rule("HttpStart", Alpha, "HttpStart", "none"),
  Rule("HttpEnd", Digit, "VersionStart", "mark"),
  Rule("VersionStart", {"CR"}, "VersionEnd_r", "version"),
  Rule("VersionStart", Digit \union {"."}, "VersionStart", "none"),
  Rule("VersionEnd_r", {"LF"}, "VersionEnd_rn", "none"),
  Rule("VersionEnd_rn", {"CR"}, "VersionEnd_rnr", "none"),
  Rule("VersionEnd_rn", Printable, "HeaderStart", "mark"),
  Rule("VersionEnd_rnr", {"LF"}, "Completed", "none"),
  Rule("HeaderStart", {":"}, "HeaderNameEnd", "name"),
  Rule("HeaderStart", Printable \ {":"}, "HeaderStart", "none"),
  Rule("HeaderNameEnd", {"SP"}, "HeaderNameValueSpace", "none"),
  Rule("HeaderNameEnd", Printable \ {"SP"}, "HeaderValueStart", "mark"),
  Rule("HeaderNameValueSpace", Printable, "HeaderValueStart", "mark"),
  Rule("HeaderValueStart", {"CR"}, "Header_r", "value"),
  Rule("HeaderValueStart", Printable, "HeaderValueStart", "none"),
  Rule("Header_r", {"LF"}, "Header_rn", "none"),
  Rule("Header_rn", {"CR"}, "Header_rnr", "none"),
  Rule("Header_rn", Printable, "HeaderStart", "mark"),
  Rule("MultipartDataStart", {"-"}, "MultipartDataStart_", "none"),
  Rule("MultipartDataStart_", Printable, "BoundaryMatchStart", "mark"),
  Rule("BoundaryMatchStart", Printable, "BoundaryMatchStart", "none"),
  Rule("BoundaryMatch_r", {"LF"}, "BoundaryMatch_rn", "none"),
  Rule("BoundaryMatch_rn", Printable, "PartInfoStart", "mark"),
  Rule("PartInfoStart", {"CR"}, "PartInfo_r", "none"),
  Rule("PartInfoStart", Printable, "PartInfoStart", "none"),
  Rule("PartInfo_r", {"LF"}, "PartInfo_rn", "none"),
  Rule("PartInfo_rn", {"CR"}, "PartInfo_rnr", "info"),
  Rule("PartInfo_rn", Printable, "PartInfoStart", "none"),
  Rule("PartInfo_rnr", {"LF"}, "PartInfo_rnrn", "none"),
  Rule("PartInfo_rnrn", Symbols, "PartBodyStart", "mark"),
  Rule("PartBodyStart", Symbols \ {"CR"}, "PartBodyStart", "none"),
  Rule("LastBoundaryMatch", {"LF"}, "Completed", "none")}

View == <<loc.prev, it>>
Cur == buf[it]
Reading == state \notin Verdicts /\ it <= Len(buf)

\* Mutants: plausible bugs, each of which breaks a property of HttpParsers.

\* The counter is compared before it is decremented.
BodyGoesOnLate ==
  /\ state = "PostDataStart" /\ Reading
  /\ loc' = [loc EXCEPT !.remaining = (@ - 1) % Wrap]
  /\ \/ /\ loc.remaining = 0
        /\ out' = [out EXCEPT !.content = <<loc.prev, it + 1>>]
        /\ state' = "Completed"
     \/ /\ loc.remaining # 0
        /\ UNCHANGED <<out, state>>
  /\ it' = it + 1
  /\ UNCHANGED buf

\* The body ends one character early.
BodyGoesOnEarly ==
  /\ state = "PostDataStart" /\ Reading
  /\ loc' = [loc EXCEPT !.remaining = (@ - 1) % Wrap]
  /\ \/ /\ loc'.remaining <= 1
        /\ out' = [out EXCEPT !.content = <<loc.prev, it + 1>>]
        /\ state' = "Completed"
     \/ /\ loc'.remaining > 1
        /\ UNCHANGED <<out, state>>
  /\ it' = it + 1
  /\ UNCHANGED buf

\* The view of a part's data forgets the line break before the boundary.
EndsPartLong(boundary, end, next) ==
  /\ Text(buf, boundary) = Text(buf, out.boundary)
  /\ out' = [out EXCEPT !.parts[Len(out.parts)].data = <<loc.prev, end + 2>>]
  /\ state' = next

(***************************************************************************)
(* What a row does with the view [prev_it, it).                            *)
(***************************************************************************)
\* The end of a header's value, with the headers the parser acts on.
TakeValue ==
  LET name == Text(buf, Last(out.headers).name)
      value == Text(buf, View)
      tagAt == SelectInSeq(value, LAMBDA c : c = "multipart-boundary")
      taken == [out EXCEPT !.headers[Len(out.headers)].value = View]
  IN  IF name = <<"Content-Type">> /\ tagAt # 0
        THEN /\ out' = [taken EXCEPT !.multipart = TRUE,
                                     !.boundary = <<loc.prev + tagAt, it>>]
             /\ UNCHANGED loc
        ELSE IF name = <<"Content-Length">>
          THEN LET n == Number(value, Digit, 10) % Wrap IN
               /\ out' = [taken EXCEPT !.contentSize = n]
               /\ loc' = [loc EXCEPT !.remaining = n]
          ELSE out' = taken /\ UNCHANGED loc

Do(what) ==
  CASE what = "none" -> UNCHANGED <<out, loc>>
    [] what = "mark" -> loc' = [loc EXCEPT !.prev = it] /\ UNCHANGED out
    [] what \in {"method", "uri", "version"} ->
         out' = [out EXCEPT ![what] = View] /\ UNCHANGED loc
    [] what = "name" ->
         /\ out' = [out EXCEPT !.headers = Append(@, [name |-> View, value |-> Empty])]
         /\ UNCHANGED loc
    [] what = "value" -> TakeValue
    [] what = "info" -> \* without the line break before it
         /\ out' = [out EXCEPT !.parts = Append(@, [info |-> <<loc.prev, it - 2>>, data |-> Empty])]
         /\ UNCHANGED loc

Follow ==
  /\ Reading
  /\ \E r \in Rules : r.from = state /\ Cur \in r.on /\ Do(r.do) /\ state' = r.to
  /\ it' = it + 1
  /\ UNCHANGED buf

(***************************************************************************)
(* The states whose rows depend on more than the character.                *)
(***************************************************************************)
IsHttpWord == Cur = "/" /\ Text(buf, View) = <<"H", "T", "T", "P">>

HttpWord ==
  /\ state = "HttpStart" /\ Reading
  /\ IsHttpWord
  /\ state' = "HttpEnd"
  /\ it' = it + 1
  /\ UNCHANGED <<buf, out, loc>>

\* The text ends with the headers, or goes on.
HeadersEnd ==
  /\ state = "Header_rnr" /\ Reading
  /\ Cur = "LF"
  /\ state' = IF it = Len(buf) THEN "Completed" ELSE "Header_rnrn"
  /\ it' = it + 1
  /\ UNCHANGED <<buf, out, loc>>

HasBody == Text(buf, out.method) \in {<<"POST">>, <<"PUT">>}

\* The first character after the headers.
BodyStarts ==
  /\ state = "Header_rnrn" /\ Reading
  /\ it' = it + 1
  /\ UNCHANGED buf
  /\ \/ /\ ~HasBody
        /\ state' = "Completed"
        /\ UNCHANGED <<out, loc>>
     \/ /\ HasBody
        /\ ~out.multipart
        /\ loc' = [prev |-> it, remaining |-> (loc.remaining - 1) % Wrap]
        /\ \/ /\ loc'.remaining = 0
              /\ out' = [out EXCEPT !.content = <<it, it + 1>>]
              /\ state' = "Completed"
           \/ /\ loc'.remaining # 0
              /\ state' = "PostDataStart"
              /\ UNCHANGED out
     \/ /\ HasBody
        /\ out.multipart /\ Cur = "-"
        /\ loc' = [loc EXCEPT !.prev = it]
        /\ state' = "MultipartDataStart"
        /\ UNCHANGED out

BodyGoesOn ==
  /\ state = "PostDataStart" /\ Reading
  /\ loc' = [loc EXCEPT !.remaining = (@ - 1) % Wrap]
  /\ \/ /\ loc'.remaining = 0
        /\ out' = [out EXCEPT !.content = <<loc.prev, it + 1>>]
        /\ state' = "Completed"
     \/ /\ loc'.remaining # 0
        /\ UNCHANGED <<out, state>>
  /\ it' = it + 1
  /\ UNCHANGED buf

IsFirstBoundary == Cur = "CR" /\ Text(buf, View) = Text(buf, out.boundary)

FirstBoundary ==
  /\ state = "BoundaryMatchStart" /\ Reading
  /\ IsFirstBoundary
  /\ state' = "BoundaryMatch_r"
  /\ it' = it + 1
  /\ UNCHANGED <<buf, out, loc>>

\* The text just before a line break is the boundary: the part's data ended
\* before the line break and the dashes in front of it.
EndsPart(boundary, end, next) ==
  /\ Text(buf, boundary) = Text(buf, out.boundary)
  /\ out' = [out EXCEPT !.parts[Len(out.parts)].data = <<loc.prev, end>>]
  /\ state' = next

PartBody ==
  LET from == it - (out.boundary[2] - out.boundary[1])
      between == <<from, it>>
      last == <<from - 2, it - 2>>
      dashes == buf[it - 1] = "-" /\ buf[it - 2] = "-"
  IN
  /\ state = "PartBodyStart" /\ Reading
  /\ Cur = "CR"
  /\ \/ EndsPart(between, from - 4, "BoundaryMatch_r")
     \/ /\ Text(buf, between) # Text(buf, out.boundary)
        /\ dashes
        /\ EndsPart(last, from - 6, "LastBoundaryMatch")
     \/ /\ Text(buf, between) # Text(buf, out.boundary)
        /\ ~(dashes /\ Text(buf, last) = Text(buf, out.boundary))
        /\ UNCHANGED <<out, state>>
  /\ it' = it + 1
  /\ UNCHANGED <<buf, loc>>

Read == Follow \/ HttpWord \/ HeadersEnd \/ BodyStarts \/ BodyGoesOn \/ FirstBoundary \/ PartBody

\* What the states accept; on anything else parse returns an error.
Accepts ==
  \/ \E r \in Rules : r.from = state /\ Cur \in r.on
  \/ state = "HttpStart" /\ IsHttpWord
  \/ state = "Header_rnr" /\ Cur = "LF"
  \/ state = "Header_rnrn" /\ (HasBody /\ out.multipart => Cur = "-")
  \/ state = "BoundaryMatchStart" /\ IsFirstBoundary
  \/ state \in {"PostDataStart", "PartBodyStart"}

Reject ==
  /\ Reading
  /\ ~Accepts
  /\ state' = "Error"
  /\ UNCHANGED <<buf, it, out, loc>>

EndOfText ==
  /\ state \notin Verdicts
  /\ it > Len(buf)
  /\ state' = "InCompleted"
  /\ UNCHANGED <<buf, it, out, loc>>

Next == Read \/ Reject \/ EndOfText
=============================================================================
