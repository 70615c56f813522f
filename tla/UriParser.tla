------------------------------ MODULE UriParser ------------------------------
(***************************************************************************)
(* include/http/uri_parser.hpp: the loop of parse, then that of            *)
(* parse_queries over the query string, one iteration a step.              *)
(***************************************************************************)
EXTENDS HttpText

VARIABLES buf,   \* the text
          it,    \* the position of cur_char
          state, \* the parser's state, or its verdict
          out,   \* the Uri
          loc    \* prev_it, query_name, and where the loop ends

\* Of the characters that URIs may hold, "_", "~" and "+" are left out.
Unreserved == Alnum \union HeaderName \union {"-", "."}
Name == Unreserved \union {"%"}

NewUri ==
  [scheme |-> Empty, username |-> Empty, password |-> Empty, hostname |-> Empty,
   portstr |-> Empty, port |-> 80, path |-> Empty, querystr |-> Empty, queries |-> <<>>,
   fragment |-> Empty]

Begin ==
  /\ it = 1
  /\ state = "SchemeStart"
  /\ out = NewUri
  /\ loc = [prev |-> 1, name |-> Empty, end |-> Len(buf) + 1]

Rules == {
  Rule("SchemeStart", Unreserved, "SchemeStart", "none"),
  Rule("SchemeStart", {":"}, "SchemeEnd", "scheme"),
  Rule("SchemeEnd", {"/"}, "SchemeEndSlash", "none"),
  Rule("SchemeEnd", Alnum \union HeaderName, "UsernameOrHostname", "mark"),
  Rule("SchemeEndSlash", {"/"}, "SchemeEndSlashSlash", "none"),
  Rule("SchemeEndSlash", Alnum \union HeaderName, "UsernameOrHostname", "mark"),
  Rule("SchemeEndSlashSlash", Alnum \union HeaderName, "UsernameOrHostname", "mark"),
  Rule("UsernameOrHostname", Name, "UsernameOrHostname", "none"),
  Rule("UsernameOrHostname", {":"}, "PortOrPasswordStart", "username"),
  Rule("UsernameOrHostname", {"@"}, "HostnameStart", "username"),
  Rule("UsernameOrHostname", {"/"}, "Path", "hostname"),
  Rule("PortOrPasswordStart", Unreserved \ HeaderName, "PortOrPassword", "mark"),
  Rule("PortOrPassword", Digit, "PortOrPassword", "none"),
  Rule("PortOrPassword", (Alnum \ Digit) \union {"%"}, "Password", "none"),
  Rule("PortOrPassword", {"@"}, "HostnameStart", "password"),
  Rule("Password", Alnum \union {"%"}, "Password", "none"),
  Rule("Password", {"@"}, "HostnameStart", "password"),
  Rule("HostnameStart", Name, "Hostname", "mark"),
  Rule("Hostname", Name, "Hostname", "none"),
  Rule("Hostname", {":"}, "PortStart", "hostname"),
  Rule("Hostname", {"/"}, "Path", "hostname"),
  Rule("PortStart", Digit, "Port", "mark"),
  Rule("Port", Digit, "Port", "none"),
  Rule("Path", {"#"}, "HashStart", "path"),
  Rule("Path", {"?"}, "QueryStart", "path"),
  Rule("Path", Symbols \ {"#", "?"}, "Path", "none"),
  Rule("QueryStart", Symbols, "Query", "mark"),
  Rule("Query", {"#"}, "HashStart", "querystr"),
  Rule("Query", Symbols \ {"#"}, "Query", "none"),
  Rule("QueryName", Name, "QueryName", "none"),
  Rule("QueryName", {"="}, "QueryValueStart", "name"),
  Rule("QueryValueStart", Name, "QueryValue", "mark"),
  Rule("QueryValue", Name, "QueryValue", "none"),
  Rule("QueryValue", {"&"}, "NewQueryStart", "query"),
  Rule("NewQueryStart", Name, "QueryName", "mark")}

View == <<loc.prev, it>>
Cur == buf[it]
Reading == state \notin Verdicts /\ it < loc.end

Query(v) == [name |-> loc.name, value |-> v]

\* "/" after a hostname belongs to the path.
Do(what) ==
  CASE what = "none" -> UNCHANGED <<out, loc>>
    [] what = "mark" -> loc' = [loc EXCEPT !.prev = it] /\ UNCHANGED out
    [] what = "hostname" ->
         /\ out' = [out EXCEPT !.hostname = View]
         /\ loc' = IF Cur = "/" THEN [loc EXCEPT !.prev = it] ELSE loc
    [] what = "name" -> loc' = [loc EXCEPT !.name = View] /\ UNCHANGED out
    [] what = "query" -> out' = [out EXCEPT !.queries = Append(@, Query(View))] /\ UNCHANGED loc
    [] OTHER -> out' = [out EXCEPT ![what] = View] /\ UNCHANGED loc

Follow ==
  /\ Reading
  /\ \E r \in Rules : r.from = state /\ Cur \in r.on /\ Do(r.do) /\ state' = r.to
  /\ it' = it + 1
  /\ UNCHANGED buf

\* A port is a uint16_t.
Port(v) == Number(Text(buf, v), Digit, 10) % 65536

\* What was taken for a user's name was the host.
IsPort == Cur = "/" /\ ToSet(Text(buf, View)) \subseteq Digit

PortOrPassword ==
  /\ state = "PortOrPassword" /\ Reading
  /\ IsPort
  /\ out' = [out EXCEPT !.hostname = out.username, !.username = out.hostname,
                        !.portstr = View, !.port = Port(View)]
  /\ loc' = [loc EXCEPT !.prev = it]
  /\ state' = "Path"
  /\ it' = it + 1
  /\ UNCHANGED buf

PortEnd ==
  /\ state = "Port" /\ Reading
  /\ Cur = "/"
  /\ out' = [out EXCEPT !.portstr = View, !.port = Port(View)]
  /\ loc' = [loc EXCEPT !.prev = it]
  /\ state' = "Path"
  /\ it' = it + 1
  /\ UNCHANGED buf

(***************************************************************************)
(* parse_queries starts over at the query string.                          *)
(***************************************************************************)
IsEmpty(v) == v[1] = v[2]

StartQueries(querystr) ==
  IF IsEmpty(querystr)
    THEN state' = "Completed" /\ UNCHANGED <<it, loc>>
    ELSE IF buf[querystr[1]] \notin Name
      THEN state' = "Error" /\ UNCHANGED <<it, loc>>
      ELSE /\ state' = "QueryName"
           /\ it' = querystr[1]
           /\ loc' = [prev |-> querystr[1], name |-> Empty, end |-> querystr[2]]

Fragment ==
  /\ state = "HashStart" /\ Reading
  /\ out' = [out EXCEPT !.fragment = <<it, Len(buf) + 1>>]
  /\ StartQueries(out.querystr)
  /\ UNCHANGED buf

InQueries == state \in {"QueryName", "QueryValueStart", "QueryValue", "NewQueryStart"}

\* The end of the text: what is open is the path, or else the query string.
EndOfText ==
  LET rest == <<loc.prev, Len(buf) + 1>> IN
  /\ state \notin Verdicts /\ ~InQueries
  /\ it >= loc.end
  /\ \/ /\ IsEmpty(out.path)
        /\ out' = [out EXCEPT !.path = rest]
        /\ state' = "Completed"
        /\ UNCHANGED <<it, loc>>
     \/ /\ ~IsEmpty(out.path) /\ IsEmpty(out.querystr)
        /\ out' = [out EXCEPT !.querystr = rest]
        /\ StartQueries(rest)
     \/ /\ ~IsEmpty(out.path) /\ ~IsEmpty(out.querystr)
        /\ state' = "InCompleted"
        /\ UNCHANGED <<it, out, loc>>
  /\ UNCHANGED buf

\* The end of the query string: its last value is still open.
EndOfQueries ==
  /\ InQueries
  /\ it >= loc.end
  /\ \/ /\ state = "QueryValue"
        /\ out' = [out EXCEPT !.queries = Append(@, Query(<<loc.prev, loc.end>>))]
        /\ state' = "Completed"
     \/ /\ state # "QueryValue"
        /\ state' = "Error"
        /\ UNCHANGED out
  /\ UNCHANGED <<buf, it, loc>>

Read == Follow \/ PortOrPassword \/ PortEnd \/ Fragment

\* What the states accept; on anything else parse returns an error.
Accepts ==
  \/ \E r \in Rules : r.from = state /\ Cur \in r.on
  \/ state = "PortOrPassword" /\ IsPort
  \/ state = "Port" /\ Cur = "/"
  \/ state = "HashStart"

Reject ==
  /\ Reading
  /\ ~Accepts
  /\ state' = "Error"
  /\ UNCHANGED <<buf, it, out, loc>>

Next == Read \/ Reject \/ EndOfText \/ EndOfQueries
=============================================================================
