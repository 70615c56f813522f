--------------------------- MODULE ResponseParser ---------------------------
(***************************************************************************)
(* include/http/response_parser.hpp: the loop of parse, one iteration a    *)
(* step, in the manner of RequestParser.                                   *)
(***************************************************************************)
EXTENDS HttpText

VARIABLES buf,   \* the text
          it,    \* the position of cur_char
          state, \* the parser's state, or its verdict
          out,   \* the Response
          loc    \* prev_it, header_name, content_length and new_chunk_size

\* is_http_control compares a char: above 127 it is a control character
\* where char is signed.
Printable == Symbols \ (Control \union Signed)

\* More than one character, which the state after the status code notices.
Long == Method \union Word \union {"chunked"}

NewResponse ==
  [version |-> Empty, codestr |-> Empty, code |-> 0, status |-> Empty, headers |-> <<>>,
   content |-> Empty, chunked |-> FALSE, chunks |-> <<>>]

Begin ==
  /\ it = 1
  /\ state = "StatusStart"
  /\ out = NewResponse
  /\ loc = [prev |-> 1, name |-> Empty, length |-> 0, chunk |-> 0]

Rules == {
  Rule("StatusStart", {"H"}, "StatusStart_h", "none"),
  Rule("StatusStart_h", {"T"}, "StatusStart_ht", "none"),
  Rule("StatusStart_ht", {"T"}, "StatusStart_htt", "none"),
  Rule("StatusStart_htt", {"P"}, "StatusStart_http", "none"),
  Rule("StatusStart_http", {"/"}, "HttpEnd", "none"),
  Rule("HttpEnd", Digit, "VersionStart", "mark"),
  Rule("VersionStart", Digit \union {"."}, "VersionStart", "none"),
  Rule("VersionStart", {"SP"}, "VersionEnd", "version"),
  Rule("VersionEnd", Digit, "StatusCodeStart", "mark"),
  Rule("StatusCodeStart", Digit, "StatusCodeStart", "none"),
  Rule("StatusCodeStart", {"SP"}, "StatusCodeEnd", "codestr"),
  Rule("StatusCodeEnd", Printable \ Long, "StatusMsgStart", "mark"),
  Rule("StatusCodeEnd", Long, "StatusMsg", "mark"),
  Rule("StatusMsgStart", Printable, "StatusMsg", "none"),
  Rule("StatusMsg", {"CR"}, "StatusMsgEnd", "status"),
  Rule("StatusMsg", Printable, "StatusMsg", "none"),
  Rule("StatusMsgEnd", {"LF"}, "StatusMsgEnd_rn", "none"),
  Rule("StatusMsgEnd_rn", {"CR"}, "StatusMsgEnd_rnr", "none"),
  Rule("StatusMsgEnd_rn", Alnum \union Word, "HeaderName", "mark"),
  Rule("StatusMsgEnd_rn", Symbols \ (Alnum \union Word \union {"CR"}), "StatusMsgEnd_rn", "none"),
  Rule("StatusMsgEnd_rnr", {"LF"}, "Completed", "none"),
  Rule("HeaderName", {":"}, "HeaderNameEnd", "name"),
  Rule("HeaderName", Printable \ {":"}, "HeaderName", "none"),
  Rule("HeaderNameEnd", {"SP"}, "HeaderNameValueSpace", "none"),
  Rule("HeaderNameEnd", Printable \ {"SP"}, "HeaderValueStart", "mark"),
  Rule("HeaderNameValueSpace", Printable, "HeaderValueStart", "mark"),
  Rule("HeaderValueStart", Printable, "HeaderValueStart", "none"),
  Rule("HeaderValueStart", {"CR"}, "Header_r", "value"),
  Rule("Header_r", {"LF"}, "Header_rn", "none"),
  Rule("Header_rn", {"CR"}, "Header_rnr", "none"),
  Rule("Header_rn", Printable, "HeaderName", "mark"),
  Rule("DataStart", Symbols, "Completed", "content"),
  Rule("NewChunkStart", HexDigit, "ChunkDataSize", "mark"),
  Rule("ChunkDataSize", HexDigit, "ChunkDataSize", "none"),
  Rule("ZeroChunkSize_r", {"LF"}, "Completed", "none"),
  Rule("ChunkDataSize_r", {"LF"}, "ChunkDataSize_rn", "none"),
  Rule("ChunkDataEnd", {"CR"}, "ChunkData_r", "none"),
  Rule("ChunkData_r", {"LF"}, "NewChunkStart", "none")}

View == <<loc.prev, it>>
Cur == buf[it]
Reading == state \notin Verdicts /\ it <= Len(buf)

\* Mutant: a chunk is taken without a look at what the text holds.
ChunkDataUnchecked ==
  /\ state = "ChunkDataSize_rn" /\ Reading
  /\ out' = [out EXCEPT !.chunks = Append(@, [size |-> loc.chunk, data |-> <<it, it + loc.chunk>>])]
  /\ it' = it + loc.chunk
  /\ state' = "ChunkDataEnd"
  /\ UNCHANGED <<buf, loc>>

\* The end of a header's value, with the headers the parser acts on.
TakeValue ==
  LET name == Text(buf, loc.name)
      value == Text(buf, View)
      taken == [out EXCEPT !.headers = Append(@, [name |-> loc.name, value |-> View])]
  IN  IF name = <<"Transfer-Encoding">> /\ value = <<"chunked">>
        THEN out' = [taken EXCEPT !.chunked = TRUE] /\ UNCHANGED loc
        ELSE /\ out' = taken
             /\ loc' = IF name = <<"Content-Length">>
                         THEN [loc EXCEPT !.length = Number(value, Digit, 10)]
                         ELSE loc

Do(what) ==
  CASE what = "none" -> UNCHANGED <<out, loc>>
    [] what = "mark" -> loc' = [loc EXCEPT !.prev = it] /\ UNCHANGED out
    [] what \in {"version", "status"} -> out' = [out EXCEPT ![what] = View] /\ UNCHANGED loc
    [] what = "codestr" ->
         /\ out' = [out EXCEPT !.codestr = View, !.code = Number(Text(buf, View), Digit, 10)]
         /\ UNCHANGED loc
    [] what = "name" -> loc' = [loc EXCEPT !.name = View] /\ UNCHANGED out
    [] what = "value" -> TakeValue
    [] what = "content" -> \* whatever the text holds
         out' = [out EXCEPT !.content = <<it, it + loc.length>>] /\ UNCHANGED loc

Follow ==
  /\ Reading
  /\ \E r \in Rules : r.from = state /\ Cur \in r.on /\ Do(r.do) /\ state' = r.to
  /\ it' = it + 1
  /\ UNCHANGED buf

HeadersEnd ==
  /\ state = "Header_rnr" /\ Reading
  /\ Cur = "LF"
  /\ state' = IF out.chunked THEN "NewChunkStart" ELSE "DataStart"
  /\ it' = it + 1
  /\ UNCHANGED <<buf, out, loc>>

\* The size of a chunk, in base 16; the last one has size zero.
ChunkSize ==
  LET n == Number(Text(buf, View), HexDigit, 16) IN
  /\ state = "ChunkDataSize" /\ Reading
  /\ Cur = "CR"
  /\ loc' = [loc EXCEPT !.chunk = n]
  /\ state' = IF n = 0 THEN "ZeroChunkSize_r" ELSE "ChunkDataSize_r"
  /\ it' = it + 1
  /\ UNCHANGED <<buf, out>>

\* A whole chunk at once, if the text holds more than its data.
HoldsChunk == Len(buf) + 1 - it > loc.chunk

ChunkData ==
  /\ state = "ChunkDataSize_rn" /\ Reading
  /\ HoldsChunk
  /\ out' = [out EXCEPT !.chunks = Append(@, [size |-> loc.chunk, data |-> <<it, it + loc.chunk>>])]
  /\ it' = it + loc.chunk
  /\ state' = "ChunkDataEnd"
  /\ UNCHANGED <<buf, loc>>

Read == Follow \/ HeadersEnd \/ ChunkSize \/ ChunkData

\* What the states accept; on anything else parse returns an error.
Accepts ==
  \/ \E r \in Rules : r.from = state /\ Cur \in r.on
  \/ state = "Header_rnr" /\ Cur = "LF"
  \/ state = "ChunkDataSize" /\ Cur = "CR"
  \/ state = "ChunkDataSize_rn" /\ HoldsChunk

Reject ==
  /\ Reading
  /\ ~Accepts
  /\ state' = "Error"
  /\ UNCHANGED <<buf, it, out, loc>>

EndOfText ==
  /\ state \notin Verdicts
  /\ it > Len(buf)
  /\ state' = "InCompleted"
  /\ UNCHANGED <<buf, it, out, loc>>

Next == Read \/ Reject \/ EndOfText
=============================================================================
