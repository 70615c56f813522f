---------------------------- MODULE MCHttpParsers ----------------------------
(***************************************************************************)
(* Messages for HttpParsers: each part of a message present and absent,    *)
(* and well-formed messages that the parsers do not read.                  *)
(***************************************************************************)
EXTENDS HttpParsers

Header(n, v) == [name |-> n, value |-> v]
Plain == Header(<<"a">>, <<"a", "SP", ":">>)
Length(n) == Header(<<"Content-Length">>, n)
Multipart == Header(<<"Content-Type">>, <<"multipart-boundary", "a", "1">>)
Chunked == Header(<<"Transfer-Encoding">>, <<"chunked">>)

Request(method, headers, space, content, boundary, parts) ==
  [method |-> method, uri |-> <<"/", "a">>, version |-> <<"1", ".", "1">>, space |-> space,
   headers |-> headers, content |-> content, boundary |-> boundary, parts |-> parts]

ReadRequests ==
  {Request(<<"GET">>, h, <<"SP">>, <<>>, <<>>, <<>>) : h \in {<<>>, <<Plain>>, <<Plain, Plain>>}}
  \union {Request(<<"POST">>, <<Length(<<"2">>)>>, <<>>, <<"a", "CR">>, <<>>, <<>>),
          Request(<<"PUT">>, <<Length(<<"1", "0">>), Plain>>, <<"SP">>,
                  [i \in 1 .. 10 |-> "LF"], <<>>, <<>>),
          Request(<<"POST">>, <<Multipart>>, <<"SP">>, <<>>, <<"a", "1">>,
                  <<[info |-> <<"a">>, data |-> <<"0">>]>>),
          Request(<<"POST">>, <<Plain, Multipart>>, <<>>, <<>>, <<"a", "1">>,
                  <<[info |-> <<"a", "CR", "LF", ":">>, data |-> <<>>],
                    [info |-> <<"2">>, data |-> <<"-", "CR", "LF">>]>>)}

\* Well-formed requests that ReadsRequest leaves out; <<"a">> may stand for a
\* Content-Length in small letters.
MisreadRequests ==
  {Request(<<"GET">>, <<Header(<<"a">>, <<>>)>>, <<>>, <<>>, <<>>, <<>>),
   Request(<<"GET">>, <<Header(<<"a">>, <<>>)>>, <<"SP">>, <<>>, <<>>, <<>>),
   Request(<<"GET">>, <<Length(<<"1">>)>>, <<>>, <<"0">>, <<>>, <<>>),
   Request(<<"POST">>, <<Header(<<"a">>, <<"1">>)>>, <<>>, <<"0">>, <<>>, <<>>)}
  \union
  {Request(<<"POST">>, <<Multipart>>, <<>>, <<>>, <<"a", "1">>, <<part>>) :
     part \in {[info |-> <<"a">>, data |-> <<"a", "1">>],
               [info |-> <<"a">>, data |-> <<"0", "a", "1", "-", "-", "CR">>],
               [info |-> <<>>, data |-> <<"0", "a", "1", "-">>]}}

Response(headers, content, sizes, chunks) ==
  [version |-> <<"1", ".", "1">>, codestr |-> <<"2", "0", "0">>, status |-> <<"a", "a", "SP">>,
   space |-> <<"SP">>, headers |-> headers, content |-> content,
   chunked |-> chunks # <<>>, sizes |-> sizes, chunks |-> chunks]

ReadResponses ==
  {Response(<<>>, <<>>, <<>>, <<>>),
   Response(<<Plain, Length(<<"2">>)>>, <<"a", "CR">>, <<>>, <<>>),
   Response(<<Header(<<"a">>, <<"a", ":", "1">>), Length(<<"1">>)>>, <<"0">>, <<>>, <<>>),
   Response(<<Chunked>>, <<>>, <<<<"1">>, <<"0", "a">>>>, <<<<"LF">>, [i \in 1 .. 10 |-> "0"]>>)}

\* Well-formed responses that ReadsResponse leaves out, and two that it does
\* not: a word is a long reason phrase, and a mark may begin a later header.
Short(status, headers, content) ==
  [Response(headers, content, <<>>, <<>>) EXCEPT !.status = status]

MisreadResponses ==
  {Short(status, <<>>, <<>>) : status \in {<<>>, <<"a">>, <<"GET">>, <<"a", "xE9">>}}
  \union {Short(<<"a", "a">>, headers, <<>>) :
            headers \in {<<Plain>>, <<Length(<<"0">>)>>, <<Header(<<"a">>, <<>>), Length(<<"1">>)>>}}
  \union {Short(<<"a", "a">>, headers, <<"1">>) :
            headers \in {<<>>, <<Plain>>, <<Header(<<"a">>, <<>>), Length(<<"1">>)>>,
                         <<Header(<<"a">>, <<"a", "xE9">>), Length(<<"1">>)>>,
                         <<Header(<<"-", "a">>, <<"a">>), Length(<<"1">>)>>,
                         <<Length(<<"1">>), Header(<<"-", "a">>, <<"a">>)>>}}
  \union {[Response(<<Header(<<"Transfer-Encoding">>, <<"a", "chunked">>)>>, <<>>,
                    <<<<"1">>>>, <<<<"LF">>>>) EXCEPT !.status = <<"a", "a">>]}

Query(n, v) == [name |-> n, value |-> v]

ReadUris ==
  [scheme : {<<"a">>}, username : {<<>>}, password : {<<>>}, hostname : {<<"a", ".", "a">>},
   portstr : {<<>>, <<"8", "0">>}, path : {<<"/">>, <<"/", "a", "/">>},
   queries : {<<>>, <<Query(<<"a">>, <<"1">>), Query(<<"%", "2">>, <<"a">>)>>}, fragment : {<<>>}]
  \union
  [scheme : {<<"a">>}, username : {<<"a">>}, password : {<<>>, <<"1">>, <<"1", "a">>},
   hostname : {<<"1">>}, portstr : {<<>>, <<"8">>}, path : {<<"/", "a">>},
   queries : {<<>>, <<Query(<<"a">>, <<"a">>)>>}, fragment : {<<>>, <<"a">>}]

Uri(username, password, hostname, path, queries) ==
  [scheme |-> <<"a">>, username |-> username, password |-> password, hostname |-> hostname,
   portstr |-> <<>>, path |-> path, queries |-> queries, fragment |-> <<>>]

\* Well-formed URIs that ReadsUri leaves out.
MisreadUris ==
  [scheme : {<<"a">>}, username : {<<>>, <<"a">>}, password : {<<>>}, hostname : {<<"a">>},
   portstr : {<<>>, <<"8">>}, path : {<<>>},
   queries : {<<>>, <<Query(<<"a">>, <<"1">>)>>}, fragment : {<<>>}]
  \union
  {Uri(u, <<>>, <<"a">>, <<"/">>, <<>>) : u \in {<<"-">>, <<"a", "=">>}}
  \union
  {Uri(<<"a">>, <<"1", "=">>, <<"a">>, <<"/">>, <<>>), Uri(<<>>, <<"1">>, <<"a">>, <<"/">>, <<>>)}
  \union
  {Uri(<<>>, <<>>, h, <<"/">>, <<>>) : h \in {<<>>, <<"-">>}}
  \union
  {Uri(<<>>, <<>>, <<"a">>, <<"/">>, <<Query(n, v)>>) :
     n \in {<<>>, <<"a">>}, v \in {<<>>, <<"1", "=">>}}

MCRequests == ReadRequests \union MisreadRequests
MCResponses == ReadResponses \union MisreadResponses
MCUris == ReadUris \union MisreadUris
=============================================================================
