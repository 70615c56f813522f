--------------------------- MODULE HttpParsers_proofs ---------------------------
(***************************************************************************)
(* Proofs about the parsers of include/http: for any text, of any length,  *)
(* that a parser accepts, the views it returns lie one behind the other in *)
(* the text, with nothing but separators between them.                     *)
(*                                                                         *)
(* Each parser has an inductive invariant that says, state by state, where *)
(* the pieces seen so far lie; a lemma per row of its table, or per kind   *)
(* of row, shows that the row keeps it, and a last one that the invariant  *)
(* of an accepted text implies ViewsTile.                                  *)
(***************************************************************************)
EXTENDS HttpParsers, WellFoundedInduction, NaturalsInduction, SequenceTheorems, TLAPS

\* Every set of natural numbers that is not empty has a least element.
LEMMA LeastElement ==
  ASSUME NEW S, S \subseteq Nat, S # {}
  PROVE  \E n \in S : \A m \in S : n <= m
<1>1. IsWellFoundedOn(OpToRel(<, Nat), Nat)
  BY NatLessThanWellFounded
<1>2. PICK R : R = OpToRel(<, Nat)
  OBVIOUS
<1>3. \E n \in S : \A m \in S : ~ (<<m, n>> \in R)
  BY <1>1, <1>2, WFMin
<1>4. \A m, n \in Nat : <<m, n>> \in R <=> m < n
  BY <1>2 DEF OpToRel
<1>5. PICK n \in S : \A m \in S : ~ (<<m, n>> \in R)
  BY <1>3
<1>6. \A m \in S : ~ (m < n)
  BY <1>4, <1>5
<1>7. QED
  BY <1>5, <1>6

\* Induction up to n, for membership in a set.
LEMMA UpTo ==
  ASSUME NEW n \in Nat, NEW S, 0 \in S, \A k \in 0 .. n : k \in S /\ k < n => k + 1 \in S
  PROVE  \A k \in 0 .. n : k \in S
<1> DEFINE Bad == {k \in 0 .. n : k \notin S}
<1>1. SUFFICES ASSUME Bad # {} PROVE FALSE
  OBVIOUS
<1>2. PICK k \in Bad : \A j \in Bad : k <= j
  <2>1. Bad \subseteq Nat
    OBVIOUS
  <2> HIDE DEF Bad
  <2>2. QED
    BY <1>1, <2>1, LeastElement
<1>3. k \in 0 .. n /\ k \notin S /\ k # 0
  BY <1>2
<1>4. k - 1 \in 0 .. n /\ k - 1 \notin Bad
  BY <1>2, <1>3
<1>5. k - 1 \in S /\ k - 1 < n
  BY <1>3, <1>4
<1>6. (k - 1) + 1 \in S
  BY <1>4, <1>5
<1>7. (k - 1) + 1 = k
  BY <1>3
<1>8. QED
  BY <1>3, <1>6, <1>7

\* The symbols a text begins with.
LEMMA LeadingIs ==
  ASSUME NEW t \in Seq(Symbols), NEW on
  PROVE  /\ Leading(t, on) \in Seq(Symbols) /\ Len(Leading(t, on)) \in 0 .. Len(t)
         /\ \A i \in 1 .. Len(Leading(t, on)) : Leading(t, on)[i] = t[i] /\ t[i] \in on
         /\ t # <<>> /\ t[1] \notin on => Leading(t, on) = <<>>
<1>1. Len(t) \in Nat /\ \A i \in 1 .. Len(t) : t[i] \in Symbols
  BY LenProperties, ElementOfSeq
<1> DEFINE I == {i \in 1 .. Len(t) : t[i] \notin on}
<1>2. CASE I = {}
  <2>1. Leading(t, on) = t
    BY <1>2 DEF Leading, SelectInSeq
  <2>2. QED
    BY <1>1, <1>2, <2>1, EmptySeq
<1>3. CASE I # {}
  <2>1. PICK m : m = Min(I)
    OBVIOUS
  <2>2. PICK k \in I : \A j \in I : k <= j
    <3>1. I \subseteq Nat
      BY <1>1
    <3> HIDE DEF I
    <3>2. QED
      BY <1>3, <3>1, LeastElement
  <2>3. m \in I /\ \A j \in I : m <= j
    BY <2>1, <2>2 DEF Min
  <2>4. m # 0
    BY <2>3
  <2>5. SelectInSeq(t, LAMBDA c : c \notin on) = m
    BY <1>3, <2>1 DEF SelectInSeq
  <2>6. Leading(t, on) = SubSeq(t, 1, m - 1)
    BY <2>4, <2>5 DEF Leading
  <2>7. QED
    BY <1>1, <2>3, <2>6, SubSeqProperties, EmptySeq
<1>4. QED
  BY <1>2, <1>3

\* f has values in V and follows from a by the functions of G.
Steps(G, V, n) == G \in [1 .. n -> [V -> V]]
Recursive(f, V, a, n, G) ==
  f \in [0 .. n -> V] /\ f[0] = a /\ \A i \in 1 .. n : f[i] = G[i][f[i - 1]]

\* A function may be defined by recursion on the numbers up to n.
LEMMA Recursion ==
  ASSUME NEW V, NEW a \in V, NEW n \in Nat, NEW G, Steps(G, V, n)
  PROVE  \E f : Recursive(f, V, a, n, G)
<1>0. G \in [1 .. n -> [V -> V]]
  BY DEF Steps
<1> DEFINE Good == {k \in 0 .. n : \E f \in [0 .. k -> V] :
                      f[0] = a /\ \A i \in 1 .. k : f[i] = G[i][f[i - 1]]}
<1>1. 0 \in Good
  <2>1. PICK f : f = [i \in 0 .. 0 |-> a]
    OBVIOUS
  <2>2. f \in [0 .. 0 -> V] /\ f[0] = a
    BY <2>1
  <2>3. \A i \in 1 .. 0 : f[i] = G[i][f[i - 1]]
    OBVIOUS
  <2>4. QED
    BY <2>2, <2>3
<1>2. ASSUME NEW k \in 0 .. n, k \in Good, k < n PROVE k + 1 \in Good
  <2>1. PICK f \in [0 .. k -> V] : f[0] = a /\ \A i \in 1 .. k : f[i] = G[i][f[i - 1]]
    BY <1>2
  <2>2. PICK g : g = [i \in 0 .. k + 1 |-> IF i = k + 1 THEN G[k + 1][f[k]] ELSE f[i]]
    OBVIOUS
  <2>3. k + 1 \in 1 .. n /\ k \in 0 .. k /\ 0 \in 0 .. k
    BY <1>2
  <2>4. G[k + 1][f[k]] \in V
    BY <1>0, <2>1, <2>3
  <2>5. \A i \in 0 .. k : i \in 0 .. k + 1 /\ i # k + 1 /\ f[i] \in V /\ g[i] = f[i]
    BY <2>1, <2>2
  <2>6. g[k + 1] = G[k + 1][f[k]] /\ k + 1 \in 0 .. k + 1
    BY <2>2
  <2>7. g \in [0 .. k + 1 -> V]
    <3>1. \A i \in 0 .. k + 1 : i \in 0 .. k \/ i = k + 1
      OBVIOUS
    <3>2. \A i \in 0 .. k + 1 : g[i] \in V
      BY <2>4, <2>5, <2>6, <3>1
    <3>3. g = [i \in 0 .. k + 1 |-> g[i]]
      BY <2>2
    <3>4. QED
      BY <3>2, <3>3
  <2>8. g[0] = a
    BY <2>1, <2>3, <2>5
  <2>9. ASSUME NEW i \in 1 .. k + 1 PROVE g[i] = G[i][g[i - 1]]
    <3>1. i - 1 \in 0 .. k /\ (i # k + 1 => i \in 1 .. k /\ i \in 0 .. k)
      OBVIOUS
    <3>2. g[i - 1] = f[i - 1]
      BY <2>5, <3>1
    <3>3. CASE i = k + 1
      <4>1. i - 1 = k
        BY <3>3
      <4>2. QED
        BY <2>6, <3>2, <3>3, <4>1
    <3>4. CASE i # k + 1
      <4>1. g[i] = f[i] /\ f[i] = G[i][f[i - 1]]
        BY <2>1, <2>5, <3>1, <3>4
      <4>2. QED
        BY <3>2, <4>1
    <3>5. QED
      BY <3>3, <3>4
  <2>10. \E f1 \in [0 .. k + 1 -> V] : f1[0] = a /\ \A i \in 1 .. k + 1 : f1[i] = G[i][f1[i - 1]]
    BY <2>7, <2>8, <2>9
  <2>11. k + 1 \in 0 .. n
    BY <2>3
  <2>12. QED
    BY <2>10, <2>11
<1>3. n \in Good
  <2> HIDE DEF Good
  <2>1. \A k \in 0 .. n : k \in Good
    BY <1>1, <1>2, UpTo
  <2>2. QED
    BY <2>1
<1>4. PICK f \in [0 .. n -> V] : f[0] = a /\ \A i \in 1 .. n : f[i] = G[i][f[i - 1]]
  BY <1>3
<1>5. Recursive(f, V, a, n, G)
  BY <1>4 DEF Recursive
<1>6. QED
  BY <1>5

\* The number that digits stand for is a natural number.
LEMMA PositionalIs ==
  ASSUME NEW d, Len(d) \in Nat, \A i \in 1 .. Len(d) : d[i] \in HexDigit, NEW base \in Nat
  PROVE  Positional(d, base, Value) \in Nat
<1> DEFINE Rec(f) == f = [n \in 0 .. Len(d) |->
                            IF n = 0 THEN 0 ELSE base * f[n - 1] + Value[d[n]]]
<1>4. \A i \in 1 .. Len(d) : Value[d[i]] \in Nat
  BY DEF Value, HexDigit, Digit
<1>5. \E f : Rec(f)
  <2>1. PICK G : G = [i \in 1 .. Len(d) |-> [x \in Nat |-> base * x + Value[d[i]]]]
    OBVIOUS
  <2>2. \A i \in 1 .. Len(d) : [x \in Nat |-> base * x + Value[d[i]]] \in [Nat -> Nat]
    <3>1. ASSUME NEW i \in 1 .. Len(d), NEW x \in Nat PROVE base * x + Value[d[i]] \in Nat
      <4>1. base * x \in Nat
        OBVIOUS
      <4>2. QED
        BY <1>4, <4>1
    <3>2. QED
      BY <3>1
  <2>3. G \in [1 .. Len(d) -> [Nat -> Nat]]
    BY <2>1, <2>2
  <2>4. PICK f \in [0 .. Len(d) -> Nat] :
             f[0] = 0 /\ \A i \in 1 .. Len(d) : f[i] = G[i][f[i - 1]]
    <3>1. PICK n \in Nat : n = Len(d)
      OBVIOUS
    <3>2. G \in [1 .. n -> [Nat -> Nat]]
      BY <2>3, <3>1
    <3>3. Steps(G, Nat, n) /\ 0 \in Nat
      BY <3>2 DEF Steps
    <3>4. PICK f : Recursive(f, Nat, 0, n, G)
      BY <3>3, Recursion
    <3>5. f \in [0 .. n -> Nat] /\ f[0] = 0 /\ \A i \in 1 .. n : f[i] = G[i][f[i - 1]]
      BY <3>4 DEF Recursive
    <3>6. QED
      BY <3>1, <3>5
  <2>5. ASSUME NEW i \in 1 .. Len(d) PROVE f[i] = base * f[i - 1] + Value[d[i]]
    <3>1. f[i - 1] \in Nat
      OBVIOUS
    <3>2. QED
      BY <2>1, <2>4, <3>1
  <2>6. ASSUME NEW i \in 0 .. Len(d)
        PROVE  f[i] = IF i = 0 THEN 0 ELSE base * f[i - 1] + Value[d[i]]
    BY <2>4, <2>5
  <2>7. f = [n \in 0 .. Len(d) |-> f[n]]
    OBVIOUS
  <2>8. QED
    BY <2>6, <2>7
<1>6. PICK f : f = CHOOSE h : Rec(h)
  OBVIOUS
<1>7. Rec(f)
  BY <1>5, <1>6
<1>8. \A n \in 0 .. Len(d) : f[n] = IF n = 0 THEN 0 ELSE base * f[n - 1] + Value[d[n]]
  BY <1>7
<1>9. f[Len(d)] \in Nat
  <2> DEFINE Good == {n \in 0 .. Len(d) : f[n] \in Nat}
  <2>1. 0 \in Good
    BY <1>8
  <2>2. ASSUME NEW n \in 0 .. Len(d), n \in Good, n < Len(d) PROVE n + 1 \in Good
    <3>1. n + 1 \in 1 .. Len(d) /\ n + 1 # 0 /\ (n + 1) - 1 = n
      BY <2>2
    <3>2. f[n + 1] = base * f[n] + Value[d[n + 1]]
      BY <1>8, <3>1
    <3>3. base * f[n] \in Nat
      BY <2>2
    <3>4. QED
      BY <1>4, <3>1, <3>2, <3>3
  <2>3. QED
    <3> HIDE DEF Good
    <3>1. \A n \in 0 .. Len(d) : n \in Good
      BY <2>1, <2>2, UpTo
    <3>2. Len(d) \in Good
      BY <3>1
    <3>3. QED
      BY <3>2 DEF Good
<1>10. Positional(d, base, Value) = f[Len(d)]
  BY <1>6 DEF Positional
<1>11. QED
  BY <1>9, <1>10

\* What atoi and stoi return is a number, not below zero for a text of digits.
LEMMA NumberIs ==
  ASSUME NEW t \in Seq(Symbols), NEW digits, digits \subseteq HexDigit, NEW base \in Nat
  PROVE  /\ Number(t, digits, base) \in Int
         /\ (\A i \in 1 .. Len(t) : t[i] \in digits) => Number(t, digits, base) >= 0
<1> DEFINE u == SubSeq(t, Len(Leading(t, {"SP"})) + 1, Len(t))
           negative == IsPrefix(<<"-">>, u)
           d == Leading(IF negative THEN Tail(u) ELSE u, digits)
<1>1. u \in Seq(Symbols)
  <2>1. Len(t) \in Nat /\ \A i \in 1 .. Len(t) : t[i] \in Symbols
    BY LenProperties, ElementOfSeq
  <2>2. Len(Leading(t, {"SP"})) \in 0 .. Len(t)
    BY LeadingIs
  <2>3. QED
    BY <2>1, <2>2, SubSeqProperties
<1>2. (IF negative THEN Tail(u) ELSE u) \in Seq(Symbols)
  <2>1. CASE negative
    <3>1. u # <<>>
      BY <2>1, <1>1 DEF IsPrefix
    <3>2. QED
      BY <2>1, <3>1, <1>1, HeadTailProperties
  <2>2. CASE ~negative
    BY <1>1, <2>2
  <2>3. QED
    BY <2>1, <2>2
<1>3. Len(d) \in Nat /\ \A i \in 1 .. Len(d) : d[i] \in digits
  <2> HIDE DEF negative, u
  <2>1. QED
    BY <1>2, LeadingIs, LenProperties
<1>4. PICK n \in Nat : n = Positional(d, base, Value)
  <2>1. \A i \in 1 .. Len(d) : d[i] \in HexDigit
    BY <1>3
  <2> HIDE DEF u, negative, d
  <2>2. QED
    BY <1>3, <2>1, PositionalIs
<1> HIDE DEF u, negative, d
<1>10. Number(t, digits, base) = IF negative THEN -n ELSE n
  BY <1>4 DEF Number, u, negative, d
<1>11. (\A i \in 1 .. Len(t) : t[i] \in digits) => ~negative
  <2>1. SUFFICES ASSUME \A i \in 1 .. Len(t) : t[i] \in digits, negative PROVE FALSE
    OBVIOUS
  <2>2. u # <<>> /\ u[1] = "-"
    BY <1>1, <2>1 DEF IsPrefix, negative
  <2>3. "-" \notin HexDigit
    BY DEF HexDigit, Digit
  <2>4. QED
    <3>1. Len(t) \in Nat /\ \A i \in 1 .. Len(t) : t[i] \in Symbols
      BY LenProperties, ElementOfSeq
    <3>2. Len(Leading(t, {"SP"})) \in 0 .. Len(t)
      BY LeadingIs
    <3>3. Len(u) >= 1
      BY <1>1, <2>2, EmptySeq, LenProperties
    <3>4. u[1] = t[Len(Leading(t, {"SP"})) + 1] /\ Len(Leading(t, {"SP"})) + 1 \in 1 .. Len(t)
      BY <3>1, <3>2, <3>3, SubSeqProperties DEF u
    <3>5. QED
      BY <2>1, <2>2, <2>3, <3>4
<1>12. QED
  BY <1>4, <1>10, <1>11

Views == Int \X Int

\* The piece of a text between two positions.
LEMMA TextIs ==
  ASSUME NEW b \in Seq(Symbols), NEW p \in Int, NEW q \in Int, 1 <= p, p <= q, q <= Len(b) + 1
  PROVE  /\ Text(b, <<p, q>>) \in Seq(Symbols) /\ Len(Text(b, <<p, q>>)) = q - p
         /\ \A i \in 1 .. q - p : Text(b, <<p, q>>)[i] = b[p + i - 1]
<1>1. Len(b) \in Nat /\ \A i \in 1 .. Len(b) : b[i] \in Symbols
  BY LenProperties, ElementOfSeq
<1>2. PICK n \in Int : n = q - 1
  OBVIOUS
<1>3. Text(b, <<p, q>>) = SubSeq(b, p, n)
  BY <1>2 DEF Text
<1>4. SubSeq(b, p, n) \in Seq(Symbols) /\ Len(SubSeq(b, p, n)) = q - p
  BY <1>1, <1>2, SubSeqProperties
<1>5. \A i \in 1 .. q - p : SubSeq(b, p, n)[i] = b[p + i - 1]
  BY <1>1, <1>2, SubSeqProperties
<1>6. QED
  BY <1>3, <1>4, <1>5

\* A line break in the text.
LEMMA BreakIs ==
  ASSUME NEW b \in Seq(Symbols), NEW p \in Int, 1 <= p, p + 1 <= Len(b),
         b[p] = "CR", b[p + 1] = "LF"
  PROVE  Text(b, <<p, p + 2>>) = CRLF
<1>0. Len(b) \in Nat
  BY LenProperties
<1>1. PICK q \in Int : q = p + 2
  OBVIOUS
<1>2. PICK t \in Seq(Symbols) : t = Text(b, <<p, q>>)
  BY <1>0, <1>1, TextIs
<1>3. 1 <= p /\ p <= q /\ q <= Len(b) + 1
  BY <1>0, <1>1
<1>7. Len(t) = q - p /\ \A i \in 1 .. q - p : t[i] = b[p + i - 1]
  BY <1>2, <1>3, TextIs
<1>4. Len(t) = 2 /\ t[1] = "CR" /\ t[2] = "LF"
  BY <1>1, <1>7
<1>5. t = <<"CR", "LF">>
  BY <1>4
<1>6. QED
  BY <1>1, <1>2, <1>5 DEF CRLF
-----------------------------------------------------------------------------
Headers == [name : Views, value : Views]

\* The first n headers lie one behind the other, in the text b.
HeaderIs(b, h, from) ==
  /\ h.name[1] = from /\ h.name[1] < h.name[2]
  /\ h.value[1] - h.name[2] \in {1, 2} /\ h.value[1] < h.value[2]
  /\ Text(b, <<h.value[2], h.value[2] + 2>>) = CRLF

HeadersRun(b, headers, from, n) ==
  \A i \in 1 .. n :
    HeaderIs(b, headers[i], IF i = 1 THEN from ELSE headers[i - 1].value[2] + 2)

\* The last header, whose line break is not complete.
HeaderOpen(b, headers, from) ==
  LET h == headers[Len(headers)]
      start == IF Len(headers) = 1 THEN from ELSE headers[Len(headers) - 1].value[2] + 2
  IN  /\ h.name[1] = start /\ h.name[1] < h.name[2]
      /\ h.value[1] - h.name[2] \in {1, 2} /\ h.value[1] < h.value[2]
      /\ b[h.value[2]] = "CR"

\* The chunks of a response, in the same way.
Chunks == [size : Int, data : Views]

ChunkOpen(b, c, from) ==
  /\ c.data[1] > from + 2 /\ c.data[2] = c.data[1] + c.size /\ c.data[1] <= c.data[2]
  /\ Text(b, <<c.data[1] - 2, c.data[1]>>) = CRLF

ChunkIs(b, c, from) ==
  ChunkOpen(b, c, from) /\ Text(b, <<c.data[2], c.data[2] + 2>>) = CRLF

ChunkFrom(chunks, i, from) == IF i = 1 THEN from ELSE chunks[i - 1].data[2] + 2

ChunksRun(b, chunks, from, n) ==
  \A i \in 1 .. n : ChunkIs(b, chunks[i], ChunkFrom(chunks, i, from))

Replies ==
  [version : Views, codestr : Views, code : Int, status : Views, headers : Seq(Headers),
   content : Views, chunked : BOOLEAN, chunks : Seq(Chunks)]

ReplyLocals == [prev : Int, name : Views, length : Int, chunk : Int]

ResponseTypes ==
  /\ buf \in Seq(Symbols)
  /\ out \in Replies
  /\ loc \in ReplyLocals
  /\ it \in 1 .. Len(buf) + 1
  /\ loc.prev \in 1 .. it

InStatus == {"StatusStart", "StatusStart_h", "StatusStart_ht", "StatusStart_htt",
             "StatusStart_http", "HttpEnd", "VersionStart", "VersionEnd", "StatusCodeStart",
             "StatusCodeEnd", "StatusMsgStart", "StatusMsg"}

\* The line a response begins with.
StatusLine ==
  /\ state = "StatusStart" => it = 1
  /\ state = "StatusStart_h" => it = 2
  /\ state = "StatusStart_ht" => it = 3
  /\ state = "StatusStart_htt" => it = 4
  /\ state = "StatusStart_http" => it = 5
  /\ state = "HttpEnd" => it = 6
  /\ state = "VersionStart" => loc.prev = 6
  /\ state = "VersionEnd" => out.version[1] = 6 /\ out.version[2] = it - 1
  /\ state = "StatusCodeStart" => out.version[1] = 6 /\ out.version[2] = loc.prev - 1
  /\ state = "StatusCodeEnd" =>
       out.version[1] = 6 /\ out.codestr[1] = out.version[2] + 1 /\ out.codestr[2] = it - 1
  /\ state \in {"StatusMsgStart", "StatusMsg"} =>
       out.version[1] = 6 /\ out.codestr[1] = out.version[2] + 1 /\ out.codestr[2] = loc.prev - 1
  /\ state \notin InStatus =>
       /\ out.version[1] = 6 /\ out.codestr[1] = out.version[2] + 1
       /\ out.status[1] = out.codestr[2] + 1
  /\ state = "StatusMsgEnd" => out.status[2] = it - 1
  /\ state = "StatusMsgEnd_rn" => out.status[2] + 2 <= it

ReplyFirst == IF out.headers = <<>> THEN out.status[2] + 2 ELSE out.headers[1].name[1]
ReplyEnd == IF out.headers = <<>> THEN out.status[2] + 2
            ELSE out.headers[Len(out.headers)].value[2] + 2

\* Where a header may begin.
ReplyStart(p) == IF out.headers = <<>> THEN p >= out.status[2] + 2 ELSE p = ReplyEnd

ResponseHeaders ==
  /\ state \in InStatus \union {"StatusMsgEnd", "StatusMsgEnd_rn"} => out.headers = <<>>
  /\ ReplyFirst >= out.status[2] + 2
  /\ state = "HeaderName" => ReplyStart(loc.prev) /\ loc.prev < it
  /\ state \in {"HeaderNameEnd", "HeaderNameValueSpace", "HeaderValueStart"} =>
       ReplyStart(loc.name[1]) /\ loc.name[1] < loc.name[2]
  /\ state = "HeaderNameEnd" => loc.name[2] = it - 1
  /\ state = "HeaderNameValueSpace" => loc.name[2] = it - 2
  /\ state = "HeaderValueStart" => loc.prev - loc.name[2] \in {1, 2} /\ loc.prev < it
  /\ state = "Header_r" =>
       /\ out.headers # <<>> /\ ReplyEnd = it + 1 /\ it > 1
       /\ HeadersRun(buf, out.headers, ReplyFirst, Len(out.headers) - 1)
       /\ HeaderOpen(buf, out.headers, ReplyFirst)
  /\ state # "Header_r" => HeadersRun(buf, out.headers, ReplyFirst, Len(out.headers))
  /\ state = "Header_rn" => out.headers # <<>> /\ ReplyEnd = it
  /\ state = "Header_rnr" => out.headers # <<>> /\ ReplyEnd + 1 = it

InChunks == {"NewChunkStart", "ChunkDataSize", "ZeroChunkSize_r", "ChunkDataSize_r",
             "ChunkDataSize_rn", "ChunkDataEnd", "ChunkData_r"}

ChunksFrom == ReplyEnd + 2
ChunksEnd == IF out.chunks = <<>> THEN ChunksFrom ELSE out.chunks[Len(out.chunks)].data[2] + 2

ResponseBody ==
  /\ state \notin InChunks \union {"Completed"} => out.chunks = <<>>
  /\ state # "Completed" => out.content = Empty
  /\ state = "Completed" => (out.content # Empty => out.content[1] = ReplyEnd + 2)
  /\ state = "DataStart" => it = ReplyEnd + 2
  /\ state = "NewChunkStart" => it = ChunksEnd
  /\ state = "ChunkDataSize" =>
       loc.prev = ChunksEnd /\ loc.prev < it /\ \A i \in loc.prev .. it - 1 : buf[i] \in HexDigit
  /\ state = "ChunkDataSize_r" => it > ChunksEnd + 1 /\ it > 1 /\ buf[it - 1] = "CR"
  /\ state = "ChunkDataSize_rn" =>
       it > ChunksEnd + 2 /\ it > 2 /\ buf[it - 2] = "CR" /\ buf[it - 1] = "LF"
  /\ state \in {"ChunkDataSize_r", "ChunkDataSize_rn"} => loc.chunk >= 0
  /\ state \in {"ChunkDataEnd", "ChunkData_r"} =>
       /\ out.chunks # <<>>
       /\ ChunksRun(buf, out.chunks, ChunksFrom, Len(out.chunks) - 1)
       /\ ChunkOpen(buf, out.chunks[Len(out.chunks)],
                    ChunkFrom(out.chunks, Len(out.chunks), ChunksFrom))
  /\ state = "ChunkDataEnd" => ChunksEnd = it + 2
  /\ state = "ChunkData_r" => ChunksEnd = it + 1 /\ it > 1 /\ buf[it - 1] = "CR"
  /\ state \notin {"ChunkDataEnd", "ChunkData_r"} =>
       ChunksRun(buf, out.chunks, ChunksFrom, Len(out.chunks))

Failed == state \in {"Error", "InCompleted"}

ResponseFacts == StatusLine /\ ResponseHeaders /\ ResponseBody
ResponseInv == ResponseTypes /\ (~Failed => ResponseFacts)

\* The rows of the response parser that only move on.
LEMMA ResponseNone ==
  ASSUME NEW r \in Rs!Rules, r.do = "none"
  PROVE  \/ r.from = "StatusStart" /\ r.to = "StatusStart_h"
         \/ r.from = "StatusStart_h" /\ r.to = "StatusStart_ht"
         \/ r.from = "StatusStart_ht" /\ r.to = "StatusStart_htt"
         \/ r.from = "StatusStart_htt" /\ r.to = "StatusStart_http"
         \/ r.from = "StatusStart_http" /\ r.to = "HttpEnd"
         \/ r.from = "StatusMsgStart" /\ r.to = "StatusMsg"
         \/ r.from = "StatusMsgEnd" /\ r.to = "StatusMsgEnd_rn"
         \/ r.from = "StatusMsgEnd_rn" /\ r.to = "StatusMsgEnd_rnr"
         \/ r.from = "StatusMsgEnd_rnr" /\ r.to = "Completed"
         \/ r.from = "HeaderNameEnd" /\ r.to = "HeaderNameValueSpace"
         \/ r.from = "Header_r" /\ r.to = "Header_rn" /\ r.on = {"LF"}
         \/ r.from = "Header_rn" /\ r.to = "Header_rnr"
         \/ r.from = "ZeroChunkSize_r" /\ r.to = "Completed"
         \/ r.from = "ChunkDataSize_r" /\ r.to = "ChunkDataSize_rn" /\ r.on = {"LF"}
         \/ r.from = "ChunkDataEnd" /\ r.to = "ChunkData_r" /\ r.on = {"CR"}
         \/ r.from = "ChunkData_r" /\ r.to = "NewChunkStart" /\ r.on = {"LF"}
         \/ r.from = "ChunkDataSize" /\ r.to = r.from /\ r.on = Rs!HexDigit
         \/ /\ r.from \in {"VersionStart", "StatusCodeStart", "StatusMsg", "StatusMsgEnd_rn",
                           "HeaderName", "HeaderValueStart"}
            /\ r.to = r.from
  BY DEF Rs!Rules, Rs!Rule

\* The rows that remember where a piece begins.
LEMMA ResponseMarks ==
  ASSUME NEW r \in Rs!Rules, r.do = "mark"
  PROVE  \/ r.from = "HttpEnd" /\ r.to = "VersionStart"
         \/ r.from = "VersionEnd" /\ r.to = "StatusCodeStart"
         \/ r.from = "StatusCodeEnd" /\ r.to \in {"StatusMsgStart", "StatusMsg"}
         \/ r.from = "StatusMsgEnd_rn" /\ r.to = "HeaderName"
         \/ r.from = "HeaderNameEnd" /\ r.to = "HeaderValueStart"
         \/ r.from = "HeaderNameValueSpace" /\ r.to = "HeaderValueStart"
         \/ r.from = "Header_rn" /\ r.to = "HeaderName"
         \/ r.from = "NewChunkStart" /\ r.to = "ChunkDataSize" /\ r.on = Rs!HexDigit
  BY DEF Rs!Rules, Rs!Rule

\* The rows that take the view of a piece.
LEMMA ResponseViews ==
  ASSUME NEW r \in Rs!Rules, r.do \notin {"none", "mark"}
  PROVE  \/ r.do = "version" /\ r.from = "VersionStart" /\ r.to = "VersionEnd"
         \/ r.do = "codestr" /\ r.from = "StatusCodeStart" /\ r.to = "StatusCodeEnd"
         \/ r.do = "status" /\ r.from = "StatusMsg" /\ r.to = "StatusMsgEnd"
         \/ r.do = "name" /\ r.from = "HeaderName" /\ r.to = "HeaderNameEnd"
         \/ r.do = "value" /\ r.from = "HeaderValueStart" /\ r.to = "Header_r" /\ r.on = {"CR"}
         \/ r.do = "content" /\ r.from = "DataStart" /\ r.to = "Completed"
  BY DEF Rs!Rules, Rs!Rule

\* The response parser has operators of HttpText of its own: they are the same.
LEMMA SameText ==
  /\ Rs!HexDigit = HexDigit /\ Rs!Digit = Digit /\ Rs!Empty = Empty /\ Rs!Verdicts = Verdicts
  /\ \A b, v : Rs!Text(b, v) = Text(b, v)
  BY DEF Rs!HexDigit, HexDigit, Rs!Digit, Digit, Rs!Empty, Empty, Rs!Text, Text, Rs!Verdicts,
         Verdicts

\* Its atoi and stoi are the same too.
LEMMA SameNumber == \A t, d, b : Rs!Number(t, d, b) = Number(t, d, b)
<1>1. \A S : Rs!Min(S) = Min(S)
  BY DEF Rs!Min, Min
<1>2. \A t, on : Rs!Leading(t, on) = Leading(t, on)
  BY <1>1 DEF Rs!Leading, Leading, Rs!SelectInSeq, SelectInSeq
<1>3. \A s, t : Rs!IsPrefix(s, t) = IsPrefix(s, t)
  BY DEF Rs!IsPrefix, IsPrefix
<1>4. Rs!Value = Value
  BY DEF Rs!Value, Value, Rs!HexDigit, HexDigit, Rs!Digit, Digit
<1>5. \A d, b, v : Rs!Positional(d, b, v) = Positional(d, b, v)
  BY DEF Rs!Positional, Positional
<1>6. QED
  BY <1>2, <1>3, <1>4, <1>5 DEF Rs!Number, Number

\* The ends of the first and the last header are numbers.
LEMMA HeaderFields ==
  ASSUME NEW hs \in Seq(Headers), hs # <<>>
  PROVE  hs[Len(hs)].value[2] \in Int /\ hs[1].name[1] \in Int
<1>1. Len(hs) \in Nat /\ Len(hs) # 0
  BY LenProperties, EmptySeq
<1>2. hs[Len(hs)] \in Headers /\ hs[1] \in Headers
  BY <1>1, ElementOfSeq
<1>3. QED
  BY <1>2 DEF Headers, Views

\* The end of the last chunk is a number.
LEMMA ChunkFields ==
  ASSUME NEW cs \in Seq(Chunks), cs # <<>>
  PROVE  cs[Len(cs)].data[2] \in Int
<1>1. Len(cs) \in Nat /\ Len(cs) # 0
  BY LenProperties, EmptySeq
<1>2. cs[Len(cs)] \in Chunks
  BY <1>1, ElementOfSeq
<1>3. QED
  BY <1>2 DEF Chunks, Views

\* A line feed completes the last header.
LEMMA HeaderCloses ==
  ASSUME NEW b \in Seq(Symbols), NEW hs \in Seq(Headers), hs # <<>>, NEW from,
         NEW e \in Int, e = hs[Len(hs)].value[2], 1 <= e, e + 1 <= Len(b), b[e + 1] = "LF",
         HeadersRun(b, hs, from, Len(hs) - 1), HeaderOpen(b, hs, from)
  PROVE  HeadersRun(b, hs, from, Len(hs))
<1>1. PICK n \in Nat : n = Len(hs)
  BY LenProperties
<1>2. n # 0
  BY <1>1, EmptySeq
<1>3. b[e] = "CR"
  BY DEF HeaderOpen
<1>4. Text(b, <<e, e + 2>>) = CRLF
  BY <1>3, BreakIs
<1>5. HeaderIs(b, hs[n], IF n = 1 THEN from ELSE hs[n - 1].value[2] + 2)
  BY <1>1, <1>4 DEF HeaderOpen, HeaderIs
<1>6. \A i \in 1 .. n : i \in 1 .. n - 1 \/ i = n
  OBVIOUS
<1>7. QED
  BY <1>1, <1>5, <1>6 DEF HeadersRun

\* A line break completes the last chunk.
LEMMA ChunkCloses ==
  ASSUME NEW b \in Seq(Symbols), NEW cs \in Seq(Chunks), cs # <<>>, NEW from,
         NEW e \in Int, e = cs[Len(cs)].data[2], 1 <= e, e + 1 <= Len(b),
         b[e] = "CR", b[e + 1] = "LF",
         ChunksRun(b, cs, from, Len(cs) - 1),
         ChunkOpen(b, cs[Len(cs)], ChunkFrom(cs, Len(cs), from))
  PROVE  ChunksRun(b, cs, from, Len(cs))
<1>1. PICK n \in Nat : n = Len(cs)
  BY LenProperties
<1>2. n # 0
  BY <1>1, EmptySeq
<1>3. Text(b, <<e, e + 2>>) = CRLF
  BY BreakIs
<1>4. ChunkIs(b, cs[n], ChunkFrom(cs, n, from))
  BY <1>1, <1>3 DEF ChunkIs
<1>5. \A i \in 1 .. n : i \in 1 .. n - 1 \/ i = n
  OBVIOUS
<1>6. QED
  BY <1>1, <1>4, <1>5 DEF ChunksRun

\* A header, or a chunk, after those that lie one behind the other.
LEMMA HeaderAppends ==
  ASSUME NEW hs \in Seq(Headers), NEW h \in Headers, NEW n \in Nat, n = Len(hs)
  PROVE  /\ Append(hs, h) \in Seq(Headers) /\ Len(Append(hs, h)) = n + 1
         /\ Append(hs, h) # <<>> /\ Append(hs, h)[n + 1] = h
         /\ \A i \in 1 .. n : Append(hs, h)[i] = hs[i]
         /\ (hs = <<>> <=> n = 0)
<1>1. PICK new : new = Append(hs, h)
  OBVIOUS
<1>2. /\ new \in Seq(Headers) /\ Len(new) = n + 1 /\ new[n + 1] = h
      /\ \A i \in 1 .. n : new[i] = hs[i]
  BY <1>1, AppendProperties
<1>3. hs = <<>> <=> n = 0
  BY EmptySeq
<1>4. new # <<>>
  BY <1>2, EmptySeq
<1>5. QED
  BY <1>1, <1>2, <1>3, <1>4

\* One more header leaves the others where they lie.
LEMMA HeaderRunGoesOn ==
  ASSUME NEW b, NEW hs \in Seq(Headers), NEW h \in Headers, NEW from, NEW from2,
         hs # <<>> => from2 = from, HeadersRun(b, hs, from, Len(hs))
  PROVE  HeadersRun(b, Append(hs, h), from2, Len(hs))
<1>1. PICK n \in Nat : n = Len(hs)
  BY LenProperties
<1>2. PICK new : new = Append(hs, h)
  OBVIOUS
<1>3. /\ \A i \in 1 .. n : new[i] = hs[i]
      /\ (hs = <<>> <=> n = 0)
  BY <1>1, <1>2, HeaderAppends
<1>4. ASSUME NEW i \in 1 .. n
      PROVE  HeaderIs(b, new[i], IF i = 1 THEN from2 ELSE new[i - 1].value[2] + 2)
  <2>1. HeaderIs(b, hs[i], IF i = 1 THEN from ELSE hs[i - 1].value[2] + 2)
    BY <1>1 DEF HeadersRun
  <2>2. from2 = from /\ new[i] = hs[i] /\ (i # 1 => i - 1 \in 1 .. n)
    BY <1>3
  <2>3. i # 1 => new[i - 1] = hs[i - 1]
    BY <1>3, <2>2
  <2>4. QED
    BY <2>1, <2>2, <2>3
<1>5. QED
  BY <1>1, <1>2, <1>4 DEF HeadersRun

\* What a sequence of chunks with one more is.
LEMMA ChunkAppends ==
  ASSUME NEW cs \in Seq(Chunks), NEW c \in Chunks, NEW n \in Nat, n = Len(cs)
  PROVE  /\ Append(cs, c) \in Seq(Chunks) /\ Len(Append(cs, c)) = n + 1
         /\ Append(cs, c) # <<>> /\ Append(cs, c)[n + 1] = c
         /\ \A i \in 1 .. n : Append(cs, c)[i] = cs[i]
         /\ (cs = <<>> <=> n = 0)
<1>1. PICK new : new = Append(cs, c)
  OBVIOUS
<1>2. /\ new \in Seq(Chunks) /\ Len(new) = n + 1 /\ new[n + 1] = c
      /\ \A i \in 1 .. n : new[i] = cs[i]
  BY <1>1, AppendProperties
<1>3. cs = <<>> <=> n = 0
  BY EmptySeq
<1>4. new # <<>>
  BY <1>2, EmptySeq
<1>5. QED
  BY <1>1, <1>2, <1>3, <1>4

\* One more chunk leaves the others where they lie.
LEMMA ChunkRunGoesOn ==
  ASSUME NEW b, NEW cs \in Seq(Chunks), NEW c \in Chunks, NEW from,
         ChunksRun(b, cs, from, Len(cs))
  PROVE  ChunksRun(b, Append(cs, c), from, Len(cs))
<1>1. PICK n \in Nat : n = Len(cs)
  BY LenProperties
<1>2. PICK new : new = Append(cs, c)
  OBVIOUS
<1>3. \A i \in 1 .. n : new[i] = cs[i]
  BY <1>1, <1>2, ChunkAppends
<1>4. ASSUME NEW i \in 1 .. n PROVE ChunkIs(b, new[i], ChunkFrom(new, i, from))
  <2>1. ChunkIs(b, cs[i], ChunkFrom(cs, i, from))
    BY <1>1 DEF ChunksRun
  <2>2. new[i] = cs[i] /\ (i # 1 => i - 1 \in 1 .. n)
    BY <1>3
  <2>3. ChunkFrom(new, i, from) = ChunkFrom(cs, i, from)
    BY <1>3, <2>2 DEF ChunkFrom
  <2>4. QED
    BY <2>1, <2>2, <2>3
<1>5. QED
  BY <1>1, <1>2, <1>4 DEF ChunksRun

\* The ends of the views of a response are numbers.
LEMMA ReplyEnds ==
  ASSUME ResponseTypes
  PROVE  /\ ReplyEnd \in Int /\ ReplyFirst \in Int /\ ChunksFrom \in Int /\ ChunksEnd \in Int
         /\ out.version[2] \in Int /\ out.codestr[2] \in Int /\ out.status[2] \in Int
<1>1. out.headers \in Seq(Headers) /\ out.chunks \in Seq(Chunks)
      /\ out.version[2] \in Int /\ out.codestr[2] \in Int /\ out.status[2] \in Int
  BY DEF ResponseTypes, Replies, Views
<1>2. ReplyEnd \in Int /\ ReplyFirst \in Int
  BY <1>1, HeaderFields DEF ReplyEnd, ReplyFirst
<1>3. QED
  BY <1>1, <1>2, ChunkFields DEF ChunksFrom, ChunksEnd

\* A row that only moves on keeps the facts.
LEMMA ResponseNoneStep ==
  ASSUME ResponseTypes, ResponseFacts, NEW r \in Rs!Rules, r.do = "none", r.from = state,
         it <= Len(buf), buf[it] \in r.on,
         state' = r.to, it' = it + 1, buf' = buf, out' = out, loc' = loc
  PROVE  ResponseFacts'
<1>0. /\ ChunksEnd' = ChunksEnd /\ ReplyEnd' = ReplyEnd
      /\ ReplyFirst' = ReplyFirst /\ ChunksFrom' = ChunksFrom
      /\ ReplyEnd \in Int /\ ReplyFirst \in Int /\ ChunksFrom \in Int /\ ChunksEnd \in Int
      /\ out.version[2] \in Int /\ out.codestr[2] \in Int /\ out.status[2] \in Int
  BY ReplyEnds DEF ChunksEnd, ReplyEnd, ReplyFirst, ChunksFrom
<1> USE <1>0 DEF ResponseTypes, ResponseFacts, StatusLine, ResponseHeaders, ResponseBody, InStatus,
                InChunks, ReplyStart
<1>1. CASE state = "StatusStart" /\ state' = "StatusStart_h"
  BY <1>1
<1>2. CASE state = "StatusStart_h" /\ state' = "StatusStart_ht"
  BY <1>2
<1>3. CASE state = "StatusStart_ht" /\ state' = "StatusStart_htt"
  BY <1>3
<1>4. CASE state = "StatusStart_htt" /\ state' = "StatusStart_http"
  BY <1>4
<1>5. CASE state = "StatusStart_http" /\ state' = "HttpEnd"
  BY <1>5
<1>6. CASE state = "StatusMsgStart" /\ state' = "StatusMsg"
  BY <1>6
<1>7. CASE state = "StatusMsgEnd" /\ state' = "StatusMsgEnd_rn"
  BY <1>7
<1>8. CASE state = "StatusMsgEnd_rn" /\ state' = "StatusMsgEnd_rnr"
  BY <1>8
<1>9. CASE state = "StatusMsgEnd_rnr" /\ state' = "Completed"
  BY <1>9
<1>10. CASE state = "HeaderNameEnd" /\ state' = "HeaderNameValueSpace"
  BY <1>10
<1>11. CASE state = "Header_rn" /\ state' = "Header_rnr"
  BY <1>11
<1>12. CASE state = "ZeroChunkSize_r" /\ state' = "Completed"
  BY <1>12
<1>14. CASE state = "ChunkDataEnd" /\ state' = "ChunkData_r" /\ buf[it] = "CR"
  BY <1>14
<1>20. CASE state = "VersionStart" /\ state' = state
  BY <1>20
<1>21. CASE state = "StatusCodeStart" /\ state' = state
  BY <1>21
<1>22. CASE state = "StatusMsg" /\ state' = state
  BY <1>22
<1>23. CASE state = "StatusMsgEnd_rn" /\ state' = state
  BY <1>23
<1>24. CASE state = "HeaderName" /\ state' = state
  BY <1>24
<1>25. CASE state = "HeaderValueStart" /\ state' = state
  <2>1. StatusLine'
    BY <1>25
  <2>2. ResponseHeaders'
    <3>1. it' > loc.prev
      BY <1>25
    <3>2. QED
      BY <1>25, <3>1
  <2>3. ResponseBody'
    BY <1>25
  <2>4. QED
    BY <2>1, <2>2, <2>3
<1> HIDE DEF ResponseTypes, ResponseFacts, StatusLine, ResponseHeaders, ResponseBody, InStatus,
             InChunks,
            ReplyStart
<1>13. CASE state = "ChunkDataSize_r" /\ state' = "ChunkDataSize_rn" /\ buf[it] = "LF"
  <2>1. it > ChunksEnd + 1 /\ it > 1 /\ buf[it - 1] = "CR" /\ loc.chunk >= 0
    BY <1>13 DEF ResponseFacts, ResponseBody
  <2>3. StatusLine' /\ ResponseHeaders'
    BY <1>13 DEF ResponseFacts, StatusLine, ResponseHeaders, InStatus, ReplyStart
  <2>4. ResponseBody'
    <3>1. it' - 2 = it - 1 /\ it' - 1 = it /\ it' > ChunksEnd + 2 /\ it' > 2
      BY <2>1, <1>13, ReplyEnds DEF ResponseTypes
    <3>2. buf'[it' - 2] = "CR" /\ buf'[it' - 1] = "LF"
      BY <1>13, <2>1, <3>1
    <3>3. QED
      BY <1>13, <2>1, <3>1, <3>2 DEF ResponseFacts, ResponseBody, InChunks
  <2>5. QED
    BY <2>3, <2>4 DEF ResponseFacts
<1>15. CASE state = "ChunkDataSize" /\ state' = state /\ buf[it] \in HexDigit
  <2>1. \A i \in loc.prev .. it : i \in loc.prev .. it - 1 \/ i = it
    BY DEF ResponseTypes
  <2>2. \A i \in loc.prev .. it : buf[i] \in HexDigit
    BY <1>15, <2>1 DEF ResponseFacts, ResponseBody
  <2>4. StatusLine' /\ ResponseHeaders'
    BY <1>15 DEF ResponseFacts, StatusLine, ResponseHeaders, InStatus, ReplyStart
  <2>5. ResponseBody'
    BY <1>15, <2>2 DEF ResponseTypes, ResponseFacts, ResponseBody, InChunks
  <2>6. QED
    BY <2>4, <2>5 DEF ResponseFacts
<1>16. CASE state = "Header_r" /\ state' = "Header_rn" /\ buf[it] = "LF"
  <2>1. /\ out.headers # <<>> /\ ReplyEnd = it + 1 /\ it > 1
        /\ HeadersRun(buf, out.headers, ReplyFirst, Len(out.headers) - 1)
        /\ HeaderOpen(buf, out.headers, ReplyFirst)
    BY <1>16 DEF ResponseFacts, ResponseHeaders
  <2>2. out.headers \in Seq(Headers) /\ buf \in Seq(Symbols)
    BY DEF ResponseTypes, Replies
  <2>3. PICK e \in Int : e = out.headers[Len(out.headers)].value[2]
    BY <2>1, <2>2, HeaderFields
  <2>4. e = it - 1
    <3>1. ReplyEnd = e + 2
      BY <2>1, <2>3 DEF ReplyEnd
    <3>2. QED
      BY <2>1, <3>1 DEF ResponseTypes
  <2>5. 1 <= e /\ e + 1 <= Len(buf) /\ buf[e + 1] = "LF"
    BY <1>16, <2>1, <2>4 DEF ResponseTypes
  <2>6. PICK hs, from : hs = out.headers /\ from = ReplyFirst
    OBVIOUS
  <2>7. HeadersRun(buf, hs, from, Len(hs))
    BY <2>1, <2>2, <2>3, <2>5, <2>6, HeaderCloses
  <2>8. HeadersRun(buf, out.headers, ReplyFirst, Len(out.headers))
    BY <2>6, <2>7
  <2>10. QED
    BY <1>16, <2>1, <2>8 DEF ResponseTypes, ResponseFacts, StatusLine, InStatus, ResponseHeaders,
       ResponseBody, InChunks
<1>17. CASE state = "ChunkData_r" /\ state' = "NewChunkStart" /\ buf[it] = "LF"
  <2>1. /\ out.chunks # <<>> /\ ChunksEnd = it + 1 /\ it > 1 /\ buf[it - 1] = "CR"
        /\ ChunksRun(buf, out.chunks, ChunksFrom, Len(out.chunks) - 1)
        /\ ChunkOpen(buf, out.chunks[Len(out.chunks)],
                     ChunkFrom(out.chunks, Len(out.chunks), ChunksFrom))
    BY <1>17 DEF ResponseFacts, ResponseBody
  <2>2. out.chunks \in Seq(Chunks) /\ buf \in Seq(Symbols)
    BY DEF ResponseTypes, Replies
  <2>3. PICK e \in Int : e = out.chunks[Len(out.chunks)].data[2]
    BY <2>1, <2>2, ChunkFields
  <2>4. e = it - 1
    <3>1. ChunksEnd = e + 2
      BY <2>1, <2>3 DEF ChunksEnd
    <3>2. QED
      BY <2>1, <3>1 DEF ResponseTypes
  <2>5. 1 <= e /\ e + 1 <= Len(buf) /\ buf[e] = "CR" /\ buf[e + 1] = "LF"
    BY <1>17, <2>1, <2>4 DEF ResponseTypes
  <2>6. PICK cs, from : cs = out.chunks /\ from = ChunksFrom
    OBVIOUS
  <2>7. ChunksRun(buf, cs, from, Len(cs))
    BY <2>1, <2>2, <2>3, <2>5, <2>6, ChunkCloses
  <2>8. ChunksRun(buf, out.chunks, ChunksFrom, Len(out.chunks))
    BY <2>6, <2>7
  <2>10. StatusLine' /\ ResponseHeaders'
    BY <1>17 DEF ResponseFacts, StatusLine, ResponseHeaders, InStatus, ReplyStart
  <2>11. ResponseBody'
    BY <1>17, <2>1, <2>8 DEF ResponseTypes, ResponseFacts, ResponseBody, InChunks
  <2>12. QED
    BY <2>10, <2>11 DEF ResponseFacts
<1>30. QED
  BY ResponseNone, SameText, <1>1, <1>2, <1>3, <1>4, <1>5, <1>6, <1>7, <1>8, <1>9, <1>10, <1>11,
     <1>12, <1>13, <1>14, <1>15, <1>16, <1>17, <1>20, <1>21, <1>22, <1>23, <1>24, <1>25

\* A row that remembers its position keeps the facts.
LEMMA ResponseMarkStep ==
  ASSUME ResponseTypes, ResponseFacts, NEW r \in Rs!Rules, r.do = "mark", r.from = state,
         it <= Len(buf), buf[it] \in r.on,
         state' = r.to, it' = it + 1, buf' = buf, out' = out, loc' = [loc EXCEPT !.prev = it]
  PROVE  ResponseFacts'
<1>0. /\ ChunksEnd' = ChunksEnd /\ ReplyEnd' = ReplyEnd
      /\ ReplyFirst' = ReplyFirst /\ ChunksFrom' = ChunksFrom
      /\ ReplyEnd \in Int /\ ReplyFirst \in Int /\ ChunksFrom \in Int /\ ChunksEnd \in Int
      /\ out.version[2] \in Int /\ out.codestr[2] \in Int /\ out.status[2] \in Int
  BY ReplyEnds DEF ChunksEnd, ReplyEnd, ReplyFirst, ChunksFrom
<1>1. /\ loc'.prev = it /\ loc'.name = loc.name /\ loc'.chunk = loc.chunk /\ loc.name[2] \in Int
      /\ it \in Int
  BY DEF ResponseTypes, ReplyLocals, Views
<1> USE <1>0, <1>1 DEF ResponseFacts, StatusLine, ResponseHeaders, ResponseBody, InStatus,
                InChunks, ReplyStart
<1>2. CASE state = "HttpEnd" /\ state' = "VersionStart"
  BY <1>2
<1>3. CASE state = "VersionEnd" /\ state' = "StatusCodeStart"
  BY <1>3
<1>4. CASE state = "StatusCodeEnd" /\ state' = "StatusMsgStart"
  BY <1>4
<1>5. CASE state = "StatusCodeEnd" /\ state' = "StatusMsg"
  BY <1>5
<1>6. CASE state = "StatusMsgEnd_rn" /\ state' = "HeaderName"
  BY <1>6
<1>9. CASE state = "Header_rn" /\ state' = "HeaderName"
  BY <1>9
<1>10. CASE state = "NewChunkStart" /\ state' = "ChunkDataSize" /\ buf[it] \in HexDigit
  <2>1. \A i \in loc'.prev .. it' - 1 : buf'[i] \in HexDigit
    BY <1>10
  <2>2. loc'.prev < it' /\ loc'.prev = ChunksEnd'
    BY <1>10
  <2>3. StatusLine' /\ ResponseHeaders'
    BY <1>10
  <2>4. ResponseBody'
    BY <1>10, <2>1, <2>2
  <2>5. QED
    BY <2>3, <2>4
<1> HIDE <1>0, <1>1 DEF ResponseFacts, StatusLine, ResponseHeaders, ResponseBody, InStatus,
             InChunks,
            ReplyStart
<1>7. ASSUME state \in {"HeaderNameEnd", "HeaderNameValueSpace"}, state' = "HeaderValueStart"
      PROVE  ResponseFacts'
  <2>1. loc.name[2] = it - 1 \/ loc.name[2] = it - 2
    BY <1>7 DEF ResponseFacts, ResponseHeaders
  <2>2. loc'.prev - loc'.name[2] \in {1, 2} /\ loc'.prev < it'
    BY <1>1, <2>1
  <2>3. ResponseHeaders'
    BY <1>0, <1>1, <1>7, <2>2 DEF ResponseFacts, ResponseHeaders, InStatus, ReplyStart
  <2>4. StatusLine' /\ ResponseBody'
    BY <1>0, <1>7 DEF ResponseFacts, StatusLine, ResponseBody, InStatus, InChunks
  <2>5. QED
    BY <2>3, <2>4 DEF ResponseFacts
<1>11. QED
  BY ResponseMarks, SameText, <1>2, <1>3, <1>4, <1>5, <1>6, <1>7, <1>9, <1>10

\* The steps that take a view: of the status line, of a header, of the content.
LEMMA ResponseLineStep ==
  ASSUME ResponseTypes, ResponseFacts, it <= Len(buf), it' = it + 1, buf' = buf, loc' = loc,
         out' \in Replies, out'.headers = out.headers, out'.chunks = out.chunks,
         out'.content = out.content,
         \/ /\ state = "VersionStart" /\ state' = "VersionEnd" /\ out'.version = <<loc.prev, it>>
         \/ /\ state = "StatusCodeStart" /\ state' = "StatusCodeEnd"
            /\ out'.version = out.version /\ out'.codestr = <<loc.prev, it>>
         \/ /\ state = "StatusMsg" /\ state' = "StatusMsgEnd"
            /\ out'.version = out.version /\ out'.codestr = out.codestr
            /\ out'.status = <<loc.prev, it>>
  PROVE  ResponseFacts'
<1>1. /\ it \in Int /\ loc.prev \in Int /\ out.version[2] \in Int /\ out.codestr[2] \in Int
      /\ out'.status[2] \in Int
  <2>1. out'.status \in Views
    BY DEF Replies
  <2>2. QED
    BY <2>1, ReplyEnds DEF ResponseTypes, Views
<1>2. out.headers = <<>> /\ out.chunks = <<>> /\ out.content = Empty
  BY DEF ResponseFacts, ResponseHeaders, ResponseBody, InStatus, InChunks
<1>3. StatusLine'
  <2>1. <<loc.prev, it>>[1] = loc.prev /\ <<loc.prev, it>>[2] = it /\ it = it' - 1
    BY <1>1
  <2>2. CASE state = "VersionStart"
    BY <1>1, <2>1, <2>2 DEF ResponseFacts, StatusLine, InStatus
  <2>3. CASE state = "StatusCodeStart"
    BY <1>1, <2>1, <2>3 DEF ResponseFacts, StatusLine, InStatus
  <2>4. CASE state = "StatusMsg"
    <3>1. /\ state' = "StatusMsgEnd" /\ out'.version = out.version /\ out'.codestr = out.codestr
          /\ out'.status[1] = loc.prev /\ out'.status[2] = it' - 1
      BY <2>1, <2>4
    <3>2. /\ out.version[1] = 6 /\ out.codestr[1] = out.version[2] + 1
          /\ loc.prev = out.codestr[2] + 1
      BY <1>1, <2>4 DEF ResponseFacts, StatusLine
    <3>3. QED
      BY <3>1, <3>2 DEF StatusLine
  <2>5. QED
    BY <2>2, <2>3, <2>4
<1>4. HeadersRun(buf, <<>>, ReplyFirst', Len(<<>>)) /\ ReplyFirst' >= out'.status[2] + 2
  BY <1>1, <1>2 DEF HeadersRun, ReplyFirst
<1>5. ResponseHeaders'
  BY <1>2, <1>4 DEF ResponseHeaders, InStatus
<1>6. ChunksRun(buf, <<>>, ChunksFrom', Len(<<>>))
  BY DEF ChunksRun
<1>7. ResponseBody'
  BY <1>2, <1>6 DEF ResponseBody, InChunks
<1>8. QED
  BY <1>3, <1>5, <1>7 DEF ResponseFacts

\* The end of a header's name.
LEMMA ResponseNameStep ==
  ASSUME ResponseTypes, ResponseFacts, it <= Len(buf), it' = it + 1, buf' = buf, out' = out,
         state = "HeaderName", state' = "HeaderNameEnd",
         loc' = [loc EXCEPT !.name = <<loc.prev, it>>]
  PROVE  ResponseFacts'
<1>0. /\ ChunksEnd' = ChunksEnd /\ ReplyEnd' = ReplyEnd
      /\ ReplyFirst' = ReplyFirst /\ ChunksFrom' = ChunksFrom
  BY DEF ChunksEnd, ReplyEnd, ReplyFirst, ChunksFrom
<1>1. /\ loc'.prev = loc.prev /\ loc'.name = <<loc.prev, it>> /\ loc'.chunk = loc.chunk
      /\ it \in Int /\ loc.prev \in Int
  BY DEF ResponseTypes, ReplyLocals
<1>2. QED
  BY <1>0, <1>1 DEF ResponseFacts, StatusLine, ResponseHeaders, ResponseBody, InStatus, InChunks,
     ReplyStart

\* The end of a header's value: one more header, whose line break is to come.
LEMMA ResponseValueStep ==
  ASSUME ResponseTypes, ResponseFacts, it <= Len(buf), it' = it + 1, buf' = buf, buf[it] = "CR",
         state = "HeaderValueStart", state' = "Header_r", loc'.prev = loc.prev,
         out'.headers = Append(out.headers, [name |-> loc.name, value |-> <<loc.prev, it>>]),
         out'.version = out.version, out'.codestr = out.codestr, out'.status = out.status,
         out'.content = out.content, out'.chunks = out.chunks
  PROVE  ResponseFacts'
<1>1. /\ it \in Int /\ loc.prev \in Int /\ loc.prev >= 1 /\ loc.name \in Views
      /\ out.headers \in Seq(Headers)
      /\ out.status[2] \in Int
  BY DEF ResponseTypes, Replies, ReplyLocals, Views
<1>2. /\ loc.name[1] < loc.name[2] /\ ReplyStart(loc.name[1])
      /\ loc.prev - loc.name[2] \in {1, 2} /\ loc.prev < it
      /\ HeadersRun(buf, out.headers, ReplyFirst, Len(out.headers))
      /\ ReplyFirst >= out.status[2] + 2
  BY DEF ResponseFacts, ResponseHeaders
<1>3. PICK h : h = [name |-> loc.name, value |-> <<loc.prev, it>>]
  OBVIOUS
<1>4. /\ h \in Headers /\ h.name = loc.name /\ h.value[1] = loc.prev /\ h.value[2] = it
      /\ h.name[1] \in Int
  BY <1>1, <1>3 DEF Headers, Views
<1>5. PICK from2 : from2 = ReplyFirst'
  OBVIOUS
<1>6. PICK hs \in Seq(Headers), from \in {ReplyFirst} : hs = out.headers /\ from = ReplyFirst
  BY <1>1
<1>7. PICK new : new = Append(hs, h) /\ out'.headers = new
  BY <1>3, <1>6
<1>8. PICK n \in Nat : n = Len(hs)
  BY LenProperties
<1>9. /\ new \in Seq(Headers) /\ Len(new) = n + 1 /\ new # <<>> /\ new[n + 1] = h
      /\ (hs # <<>> => new[1] = hs[1] /\ new[n] = hs[n])
      /\ (hs = <<>> <=> n = 0)
  <2>1. n # 0 => 1 \in 1 .. n /\ n \in 1 .. n
    OBVIOUS
  <2>2. h \in Headers
    BY <1>4
  <2>3. /\ Append(hs, h) \in Seq(Headers) /\ Len(Append(hs, h)) = n + 1
        /\ Append(hs, h) # <<>> /\ Append(hs, h)[n + 1] = h
        /\ \A i \in 1 .. n : Append(hs, h)[i] = hs[i]
        /\ (hs = <<>> <=> n = 0)
    BY <1>8, <2>2, HeaderAppends
  <2>4. QED
    BY <1>7, <2>1, <2>3
<1>10. hs # <<>> => from2 = from
  BY <1>5, <1>6, <1>7, <1>9 DEF ReplyFirst
<1>11. HeadersRun(buf, new, from2, n)
  <2>1. HeadersRun(buf, hs, from, Len(hs))
    BY <1>2, <1>6
  <2>2. HeadersRun(buf, Append(hs, h), from2, Len(hs))
    BY <1>4, <1>10, <2>1, HeaderRunGoesOn
  <2>3. QED
    BY <1>7, <1>8, <2>2
<1>12. hs = <<>> => from2 = h.name[1] /\ h.name[1] >= out.status[2] + 2
  BY <1>2, <1>4, <1>5, <1>6, <1>7, <1>9 DEF ReplyFirst, ReplyStart
<1>13. hs # <<>> => h.name[1] = hs[n].value[2] + 2
  BY <1>2, <1>4, <1>6, <1>8 DEF ReplyStart, ReplyEnd
<1>14. HeaderOpen(buf, new, from2)
  <2>1. /\ new[Len(new)] = h /\ h.name[1] < h.name[2] /\ h.value[1] < h.value[2]
        /\ h.value[1] - h.name[2] \in {1, 2} /\ buf[h.value[2]] = "CR"
    BY <1>2, <1>4, <1>9
  <2>2. CASE n = 0
    <3>1. Len(new) = 1 /\ h.name[1] = from2
      BY <1>9, <1>12, <2>2
    <3>2. QED
      BY <2>1, <3>1 DEF HeaderOpen
  <2>3. CASE n # 0
    <3>1. Len(new) # 1 /\ new[Len(new) - 1] = hs[n] /\ h.name[1] = hs[n].value[2] + 2
      BY <1>9, <1>13, <2>3
    <3>2. QED
      BY <2>1, <3>1 DEF HeaderOpen
  <2>4. QED
    BY <2>2, <2>3
<1>15. ReplyEnd' = it' + 1 /\ it' > 1
  <2>1. ReplyEnd' = h.value[2] + 2
    BY <1>7, <1>9 DEF ReplyEnd
  <2>2. QED
    BY <1>1, <1>2, <1>4, <2>1
<1>22. from2 >= out.status[2] + 2
  BY <1>2, <1>6, <1>10, <1>12
<1>16. ResponseHeaders'
  <2>1. Len(new) - 1 = n
    BY <1>9
  <2>2. QED
    BY <1>5, <1>7, <1>9, <1>11, <1>14, <1>15, <1>22, <2>1 DEF ResponseHeaders, InStatus
<1>17. StatusLine'
  BY DEF ResponseFacts, StatusLine, InStatus
<1>18. out.chunks = <<>> /\ out.content = Empty
  BY DEF ResponseFacts, ResponseBody, InChunks
<1>19. ChunksRun(buf, <<>>, ChunksFrom', Len(<<>>))
  BY DEF ChunksRun
<1>20. ResponseBody'
  BY <1>18, <1>19 DEF ResponseBody, InChunks
<1>21. QED
  BY <1>16, <1>17, <1>20 DEF ResponseFacts

\* The body begins behind the empty line.
LEMMA ResponseContentStep ==
  ASSUME ResponseTypes, ResponseFacts, it <= Len(buf), it' = it + 1, buf' = buf, loc' = loc,
         state = "DataStart", state' = "Completed",
         out' = [out EXCEPT !.content = <<it, it + loc.length>>]
  PROVE  ResponseFacts'
<1>1. /\ out'.headers = out.headers /\ out'.chunks = out.chunks /\ out'.status = out.status
      /\ out'.version = out.version /\ out'.codestr = out.codestr /\ out'.content[1] = it
  BY DEF ResponseTypes, Replies
<1>2. /\ ChunksEnd' = ChunksEnd /\ ReplyEnd' = ReplyEnd
      /\ ReplyFirst' = ReplyFirst /\ ChunksFrom' = ChunksFrom
  BY <1>1 DEF ChunksEnd, ReplyEnd, ReplyFirst, ChunksFrom
<1>3. StatusLine' /\ ResponseHeaders'
  BY <1>1, <1>2 DEF ResponseFacts, StatusLine, ResponseHeaders, InStatus
<1>4. ResponseBody'
  BY <1>1, <1>2 DEF ResponseFacts, ResponseBody, InChunks
<1>5. QED
  BY <1>3, <1>4 DEF ResponseFacts

\* The empty line behind the headers.
LEMMA ResponseBodyStarts ==
  ASSUME ResponseTypes, ResponseFacts, it' = it + 1, buf' = buf, loc' = loc, out' = out,
         state = "Header_rnr", state' \in {"NewChunkStart", "DataStart"}
  PROVE  ResponseFacts'
<1>1. /\ ChunksEnd' = ChunksEnd /\ ReplyEnd' = ReplyEnd
      /\ ReplyFirst' = ReplyFirst /\ ChunksFrom' = ChunksFrom
  BY DEF ChunksEnd, ReplyEnd, ReplyFirst, ChunksFrom
<1>2. ReplyEnd + 1 = it
  BY DEF ResponseFacts, ResponseHeaders
<1>3. ChunksEnd = ReplyEnd + 2 /\ it' = ReplyEnd + 2
  <2>1. out.chunks = <<>>
    BY DEF ResponseFacts, ResponseBody, InChunks
  <2>2. it' = ReplyEnd + 2
    BY <1>2, ReplyEnds
  <2>3. QED
    BY <2>1, <2>2 DEF ChunksEnd, ChunksFrom
<1>4. StatusLine' /\ ResponseHeaders'
  BY <1>1 DEF ResponseFacts, StatusLine, ResponseHeaders, InStatus
<1>5. ResponseBody'
  BY <1>1, <1>3 DEF ResponseFacts, ResponseBody, InChunks
<1>6. QED
  BY <1>4, <1>5 DEF ResponseFacts

\* The size of a chunk is not below zero: its text is of digits.
LEMMA ChunkSizeIs ==
  ASSUME ResponseTypes, ResponseFacts, state = "ChunkDataSize"
  PROVE  Number(Text(buf, <<loc.prev, it>>), HexDigit, 16) \in Nat
<1>1. /\ loc.prev \in Int /\ it \in Int /\ 1 <= loc.prev /\ loc.prev <= it /\ it <= Len(buf) + 1
      /\ buf \in Seq(Symbols) /\ Len(buf) \in Nat
  BY LenProperties DEF ResponseTypes
<1>2. \A i \in loc.prev .. it - 1 : buf[i] \in HexDigit
  BY DEF ResponseFacts, ResponseBody
<1>3. PICK p \in Int, q \in Int : p = loc.prev /\ q = it
  BY <1>1
<1>4. PICK t : t = Text(buf, <<p, q>>)
  OBVIOUS
<1>5. t \in Seq(Symbols) /\ Len(t) = q - p /\ \A i \in 1 .. q - p : t[i] = buf[p + i - 1]
  <2>1. 1 <= p /\ p <= q /\ q <= Len(buf) + 1 /\ buf \in Seq(Symbols)
    BY <1>1, <1>3
  <2>2. QED
    BY <1>4, <2>1, TextIs
<1>6. ASSUME NEW i \in 1 .. Len(t) PROVE t[i] \in HexDigit
  <2>1. i \in 1 .. q - p
    BY <1>5
  <2>2. t[i] = buf[p + i - 1] /\ p + i - 1 \in p .. q - 1
    BY <1>3, <1>5, <2>1
  <2>3. QED
    BY <1>2, <1>3, <2>2
<1>7. HexDigit \subseteq HexDigit /\ 16 \in Nat
  OBVIOUS
<1>8. Number(t, HexDigit, 16) \in Int /\ Number(t, HexDigit, 16) >= 0
  BY <1>5, <1>6, <1>7, NumberIs
<1>9. QED
  BY <1>3, <1>4, <1>8

\* The end of a chunk's size.
LEMMA ResponseSizeStep ==
  ASSUME ResponseTypes, ResponseFacts, it' = it + 1, buf' = buf, out' = out, buf[it] = "CR",
         state = "ChunkDataSize", state' \in {"ZeroChunkSize_r", "ChunkDataSize_r"},
         loc'.chunk >= 0
  PROVE  ResponseFacts'
<1>1. /\ ChunksEnd' = ChunksEnd /\ ReplyEnd' = ReplyEnd
      /\ ReplyFirst' = ReplyFirst /\ ChunksFrom' = ChunksFrom
  BY DEF ChunksEnd, ReplyEnd, ReplyFirst, ChunksFrom
<1>2. ChunksEnd < it
  BY DEF ResponseFacts, ResponseBody
<1>3. it' > ChunksEnd + 1 /\ it' > 1 /\ buf'[it' - 1] = "CR"
  <2>1. it' - 1 = it /\ it' > ChunksEnd + 1 /\ it' > 1
    BY <1>2, ReplyEnds DEF ResponseTypes
  <2>2. QED
    BY <2>1
<1>4. StatusLine' /\ ResponseHeaders'
  BY <1>1 DEF ResponseFacts, StatusLine, ResponseHeaders, InStatus
<1>5. ResponseBody'
  BY <1>1, <1>3 DEF ResponseFacts, ResponseBody, InChunks
<1>6. QED
  BY <1>4, <1>5 DEF ResponseFacts

\* A whole chunk: its data begins behind the line break and is as long as the size says.
LEMMA ResponseChunkStep ==
  ASSUME ResponseTypes, ResponseFacts, buf' = buf, loc' = loc, it <= Len(buf), it' = it + loc.chunk,
         state = "ChunkDataSize_rn", state' = "ChunkDataEnd",
         out' = [out EXCEPT !.chunks =
                   Append(@, [size |-> loc.chunk, data |-> <<it, it + loc.chunk>>])]
  PROVE  ResponseFacts'
<1>1. /\ out'.headers = out.headers /\ out'.content = out.content /\ out'.status = out.status
      /\ out'.version = out.version /\ out'.codestr = out.codestr
      /\ out'.chunks = Append(out.chunks, [size |-> loc.chunk, data |-> <<it, it + loc.chunk>>])
  BY DEF ResponseTypes, Replies
<1>2. ReplyEnd' = ReplyEnd /\ ReplyFirst' = ReplyFirst /\ ChunksFrom' = ChunksFrom
  BY <1>1 DEF ReplyEnd, ReplyFirst, ChunksFrom
<1>3. /\ it > ChunksEnd + 2 /\ it > 2 /\ buf[it - 2] = "CR" /\ buf[it - 1] = "LF" /\ loc.chunk >= 0
      /\ ChunksRun(buf, out.chunks, ChunksFrom, Len(out.chunks)) /\ out.content = Empty
  BY DEF ResponseFacts, ResponseBody
<1>4. /\ it \in Int /\ loc.chunk \in Int /\ out.chunks \in Seq(Chunks) /\ buf \in Seq(Symbols)
      /\ ChunksEnd \in Int /\ ChunksFrom \in Int /\ Len(buf) \in Nat /\ it >= 1
  BY ReplyEnds, LenProperties DEF ResponseTypes, Replies, ReplyLocals
<1>5. PICK e \in Int : e = it + loc.chunk
  BY <1>4
<1>6. PICK c : c = [size |-> loc.chunk, data |-> <<it, e>>]
  OBVIOUS
<1>7. c \in Chunks /\ c.data[1] = it /\ c.data[2] = e /\ c.size = loc.chunk
  BY <1>4, <1>6 DEF Chunks, Views
<1>8. PICK cs \in Seq(Chunks), from \in {ChunksFrom} : cs = out.chunks /\ from = ChunksFrom
  BY <1>4
<1>9. PICK new : new = Append(cs, c) /\ out'.chunks = new
  BY <1>1, <1>5, <1>6, <1>8
<1>18. PICK n \in Nat : n = Len(cs)
  BY LenProperties
<1>10. /\ new # <<>> /\ Len(new) = n + 1 /\ new[n + 1] = c
       /\ ChunksRun(buf, new, from, n)
       /\ ChunkFrom(new, n + 1, from) = IF cs = <<>> THEN from ELSE cs[n].data[2] + 2
  <2>1. ChunksRun(buf, cs, from, Len(cs))
    BY <1>3, <1>8
  <2>2. ChunksRun(buf, Append(cs, c), from, Len(cs))
    BY <1>7, <2>1, ChunkRunGoesOn
  <2>3. /\ new # <<>> /\ Len(new) = n + 1 /\ new[n + 1] = c
        /\ \A i \in 1 .. n : new[i] = cs[i]
        /\ (cs = <<>> <=> n = 0)
    BY <1>7, <1>9, <1>18, ChunkAppends
  <2>4. ChunkFrom(new, n + 1, from) = IF cs = <<>> THEN from ELSE cs[n].data[2] + 2
    <3>1. n # 0 => n \in 1 .. n /\ n + 1 # 1 /\ (n + 1) - 1 = n
      OBVIOUS
    <3>2. QED
      BY <2>3, <3>1 DEF ChunkFrom
  <2>5. QED
    BY <1>9, <1>18, <2>2, <2>3, <2>4
<1>11. ChunkFrom(new, n + 1, from) = ChunksEnd
  BY <1>8, <1>10, <1>18 DEF ChunksEnd
<1>12. Text(buf, <<it - 2, it>>) = CRLF
  <2>2. PICK p \in Int : p = it - 2
    BY <1>4
  <2>3. 1 <= p
    BY <1>3, <1>4, <2>2
  <2>4. Text(buf, <<p, p + 2>>) = CRLF
    <3>1. p + 1 = it - 1 /\ p + 1 <= Len(buf)
      BY <1>4, <2>2
    <3>2. buf[p] = "CR" /\ buf[p + 1] = "LF"
      BY <1>3, <2>2, <3>1
    <3>3. QED
      BY <1>4, <2>3, <3>1, <3>2, BreakIs
  <2>5. p + 2 = it
    BY <1>4, <2>2
  <2>6. QED
    BY <2>2, <2>4, <2>5
<1>13. ChunkOpen(buf, c, ChunksEnd)
  BY <1>3, <1>4, <1>5, <1>7, <1>12 DEF ChunkOpen
<1>14. ChunksEnd' = it' + 2
  <2>1. ChunksEnd' = e + 2
    BY <1>7, <1>9, <1>10 DEF ChunksEnd
  <2>2. QED
    BY <1>5, <2>1
<1>15. StatusLine' /\ ResponseHeaders'
  BY <1>1, <1>2 DEF ResponseFacts, StatusLine, ResponseHeaders, InStatus
<1>16. ResponseBody'
  <2>1. Len(new) - 1 = n
    BY <1>10
  <2>2. QED
    BY <1>1, <1>2, <1>3, <1>8, <1>9, <1>10, <1>11, <1>13, <1>14, <2>1 DEF ResponseBody, InChunks
<1>17. QED
  BY <1>15, <1>16 DEF ResponseFacts

\* The number in the text before the position, whatever the text.
LEMMA ViewNumber ==
  ASSUME NEW b \in Seq(Symbols), NEW p \in Int, NEW q \in Int, 1 <= p, p <= q, q <= Len(b) + 1,
         NEW digits, digits \subseteq HexDigit, NEW base \in Nat
  PROVE  Number(Text(b, <<p, q>>), digits, base) \in Int
<1>1. PICK t \in Seq(Symbols) : t = Text(b, <<p, q>>)
  BY TextIs
<1>2. QED
  BY <1>1, NumberIs

\* A row of the table keeps the types.
LEMMA ResponseTypesFollow ==
  ASSUME ResponseTypes, it <= Len(buf), NEW r \in Rs!Rules, Rs!Do(r.do), it' = it + 1, buf' = buf
  PROVE  ResponseTypes'
<1>1. /\ buf \in Seq(Symbols) /\ out \in Replies /\ loc \in ReplyLocals /\ it \in Int /\ 1 <= it
      /\ loc.prev \in Int /\ 1 <= loc.prev /\ loc.prev <= it /\ Len(buf) \in Nat
  BY LenProperties DEF ResponseTypes, ReplyLocals
<1>2. it' \in 1 .. Len(buf') + 1 /\ it \in 1 .. it' /\ loc.prev \in 1 .. it'
  BY <1>1
<1>3. PICK v : v = <<loc.prev, it>>
  OBVIOUS
<1>4. v \in Views /\ Rs!View = v
  BY <1>1, <1>3 DEF Views, Rs!View
<1>5. Number(Text(buf, v), Digit, 10) \in Int
  <2>1. PICK p \in Int, q \in Int : p = loc.prev /\ q = it
    BY <1>1
  <2>2. 10 \in Nat /\ Digit \subseteq HexDigit
    BY DEF HexDigit
  <2>3. Number(Text(buf, <<p, q>>), Digit, 10) \in Int
    BY <1>1, <2>1, <2>2, ViewNumber
  <2>4. QED
    BY <1>3, <2>1, <2>3
<1>6. Number(Text(buf, v), Rs!Digit, 10) \in Int /\ Rs!Number(Rs!Text(buf, v), Rs!Digit, 10) \in Int
  BY <1>5, SameText, SameNumber
<1> HIDE <1>3
<1>7. SUFFICES out' \in Replies /\ loc' \in ReplyLocals /\ loc'.prev \in {loc.prev, it}
  BY <1>1, <1>2 DEF ResponseTypes
<1>8. CASE r.do = "none"
  BY <1>1, <1>8 DEF Rs!Do
<1>9. CASE r.do = "mark"
  BY <1>1, <1>9 DEF Rs!Do, ReplyLocals
<1>10. CASE r.do = "version"
  BY <1>1, <1>4, <1>10 DEF Rs!Do, Replies
<1>11. CASE r.do = "status"
  BY <1>1, <1>4, <1>11 DEF Rs!Do, Replies
<1>12. CASE r.do = "codestr"
  BY <1>1, <1>4, <1>6, <1>12 DEF Rs!Do, Replies
<1>13. CASE r.do = "name"
  BY <1>1, <1>4, <1>13 DEF Rs!Do, ReplyLocals
<1>14. CASE r.do = "content"
  <2>1. <<it, it + loc.length>> \in Views
    BY <1>1 DEF Views, ReplyLocals
  <2>2. QED
    BY <1>1, <1>14, <2>1 DEF Rs!Do, Replies
<1>15. CASE r.do = "value"
  <2>1. PICK hs : hs = Append(out.headers, [name |-> loc.name, value |-> v])
    OBVIOUS
  <2>2. hs \in Seq(Headers)
    <3>1. [name |-> loc.name, value |-> v] \in Headers /\ out.headers \in Seq(Headers)
      BY <1>1, <1>4 DEF Headers, Replies, ReplyLocals
    <3>2. QED
      BY <2>1, <3>1, AppendProperties
  <2>3. PICK taken \in Replies : taken = [out EXCEPT !.headers = hs]
    BY <1>1, <2>2 DEF Replies
  <2>4. \/ out' = [taken EXCEPT !.chunked = TRUE] /\ loc' = loc
        \/ /\ out' = taken
           /\ loc' = [loc EXCEPT !.length = Rs!Number(Rs!Text(buf, v), Rs!Digit, 10)] \/ loc' = loc
    BY <1>4, <1>15, <2>1, <2>3 DEF Rs!Do, Rs!TakeValue
  <2>5. QED
    BY <1>1, <1>6, <2>3, <2>4 DEF Replies, ReplyLocals
<1>16. QED
  BY ResponseViews, <1>8, <1>9, <1>10, <1>11, <1>12, <1>13, <1>14, <1>15

\* A row of the table keeps the invariant.
LEMMA ResponseFollow ==
  ASSUME ResponseTypes, ResponseFacts, Rs!Follow
  PROVE  ResponseTypes' /\ ResponseFacts'
<1>1. PICK r \in Rs!Rules : r.from = state /\ buf[it] \in r.on /\ Rs!Do(r.do) /\ state' = r.to
  BY DEF Rs!Follow, Rs!Cur
<1>2. it <= Len(buf) /\ it' = it + 1 /\ buf' = buf
  BY DEF Rs!Follow, Rs!Reading
<1>3. ResponseTypes'
  BY <1>1, <1>2, ResponseTypesFollow
<1>4. Rs!View = <<loc.prev, it>>
  BY DEF Rs!View
<1>5. out \in Replies /\ loc \in ReplyLocals /\ out' \in Replies
  BY <1>3 DEF ResponseTypes
<1>6. CASE r.do = "none"
  <2>1. out' = out /\ loc' = loc
    BY <1>1, <1>6 DEF Rs!Do
  <2>2. QED
    BY <1>1, <1>2, <1>3, <1>6, <2>1, ResponseNoneStep
<1>7. CASE r.do = "mark"
  <2>1. out' = out /\ loc' = [loc EXCEPT !.prev = it]
    BY <1>1, <1>7 DEF Rs!Do
  <2>2. QED
    BY <1>1, <1>2, <1>3, <1>7, <2>1, ResponseMarkStep
<1>8. CASE r.do \in {"version", "codestr", "status"}
  <2>1. /\ out'.headers = out.headers /\ out'.chunks = out.chunks /\ out'.content = out.content
        /\ loc' = loc
    BY <1>1, <1>5, <1>8 DEF Rs!Do, Replies
  <2>2. \/ /\ state = "VersionStart" /\ state' = "VersionEnd" /\ out'.version = <<loc.prev, it>>
        \/ /\ state = "StatusCodeStart" /\ state' = "StatusCodeEnd"
           /\ out'.version = out.version /\ out'.codestr = <<loc.prev, it>>
        \/ /\ state = "StatusMsg" /\ state' = "StatusMsgEnd"
           /\ out'.version = out.version /\ out'.codestr = out.codestr
           /\ out'.status = <<loc.prev, it>>
    BY <1>1, <1>4, <1>5, <1>8, ResponseViews DEF Rs!Do, Replies
  <2>3. QED
    BY <1>2, <1>3, <1>5, <2>1, <2>2, ResponseLineStep
<1>9. CASE r.do = "name"
  <2>1. /\ out' = out /\ loc' = [loc EXCEPT !.name = <<loc.prev, it>>]
        /\ state = "HeaderName" /\ state' = "HeaderNameEnd"
    BY <1>1, <1>4, <1>9, ResponseViews DEF Rs!Do
  <2>2. QED
    BY <1>2, <1>3, <2>1, ResponseNameStep
<1>10. CASE r.do = "value"
  <2>1. state = "HeaderValueStart" /\ state' = "Header_r" /\ buf[it] = "CR"
    BY <1>1, <1>10, ResponseViews
  <2>2. PICK hs : hs = Append(out.headers, [name |-> loc.name, value |-> <<loc.prev, it>>])
    OBVIOUS
  <2>3. PICK taken : taken = [out EXCEPT !.headers = hs]
    OBVIOUS
  <2>4. /\ out' = [taken EXCEPT !.chunked = TRUE] \/ out' = taken
        /\ loc' = loc \/ \E n : loc' = [loc EXCEPT !.length = n]
    BY <1>1, <1>4, <1>10, <2>2, <2>3 DEF Rs!Do, Rs!TakeValue
  <2>5. /\ out'.headers = hs /\ out'.version = out.version /\ out'.codestr = out.codestr
        /\ out'.status = out.status /\ out'.content = out.content /\ out'.chunks = out.chunks
        /\ loc'.prev = loc.prev
    BY <1>5, <2>3, <2>4 DEF Replies, ReplyLocals
  <2>6. QED
    BY <1>2, <1>3, <2>1, <2>2, <2>5, ResponseValueStep
<1>11. CASE r.do = "content"
  <2>1. /\ out' = [out EXCEPT !.content = <<it, it + loc.length>>] /\ loc' = loc
        /\ state = "DataStart" /\ state' = "Completed"
    BY <1>1, <1>11, ResponseViews DEF Rs!Do
  <2>2. QED
    BY <1>2, <1>3, <2>1, ResponseContentStep
<1>12. QED
  BY ResponseViews, <1>6, <1>7, <1>8, <1>9, <1>10, <1>11

\* A step of the response parser keeps its invariant.
LEMMA ResponseNext ==
  ASSUME ResponseInv, Rs!Next
  PROVE  ResponseInv'
<1>1. ResponseTypes /\ ~Failed /\ ResponseFacts
  BY SameText DEF ResponseInv, Failed, Rs!Next, Rs!Read, Rs!Follow, Rs!HeadersEnd, Rs!ChunkSize,
     Rs!ChunkData, Rs!Reject, Rs!EndOfText, Rs!Reading, Verdicts
<1>2. CASE Rs!Follow
  BY <1>1, <1>2, ResponseFollow DEF ResponseInv
<1>3. CASE Rs!HeadersEnd
  <2>1. /\ it' = it + 1 /\ buf' = buf /\ loc' = loc /\ out' = out /\ it <= Len(buf)
        /\ state = "Header_rnr" /\ state' \in {"NewChunkStart", "DataStart"}
    BY <1>3 DEF Rs!HeadersEnd, Rs!Reading
  <2>2. ResponseTypes'
    BY <1>1, <2>1, LenProperties DEF ResponseTypes
  <2>3. QED
    BY <1>1, <2>1, <2>2, ResponseBodyStarts DEF ResponseInv
<1>4. CASE Rs!ChunkSize
  <2>1. PICK n : n = Rs!Number(Rs!Text(buf, Rs!View), Rs!HexDigit, 16)
    OBVIOUS
  <2>2. /\ it' = it + 1 /\ buf' = buf /\ out' = out /\ it <= Len(buf) /\ buf[it] = "CR"
        /\ state = "ChunkDataSize" /\ state' \in {"ZeroChunkSize_r", "ChunkDataSize_r"}
        /\ loc' = [loc EXCEPT !.chunk = n]
    BY <1>4, <2>1 DEF Rs!ChunkSize, Rs!Reading, Rs!Cur
  <2>3. n \in Nat
    BY <1>1, <2>1, <2>2, ChunkSizeIs, SameText, SameNumber DEF Rs!View
  <2>4. loc' \in ReplyLocals /\ loc'.chunk = n /\ loc'.prev = loc.prev
    BY <1>1, <2>2, <2>3 DEF ResponseTypes, ReplyLocals
  <2>5. ResponseTypes'
    BY <1>1, <2>2, <2>4, LenProperties DEF ResponseTypes
  <2>6. loc'.chunk >= 0
    BY <2>3, <2>4
  <2>7. QED
    BY <1>1, <2>2, <2>5, <2>6, ResponseSizeStep DEF ResponseInv
<1>5. CASE Rs!ChunkData
  <2>1. /\ buf' = buf /\ loc' = loc /\ it <= Len(buf) /\ it' = it + loc.chunk
        /\ state = "ChunkDataSize_rn" /\ state' = "ChunkDataEnd"
        /\ out' = [out EXCEPT !.chunks =
                     Append(@, [size |-> loc.chunk, data |-> <<it, it + loc.chunk>>])]
        /\ Len(buf) + 1 - it > loc.chunk
    BY <1>5 DEF Rs!ChunkData, Rs!Reading, Rs!HoldsChunk
  <2>2. loc.chunk >= 0 /\ loc.chunk \in Int
    BY <1>1, <2>1 DEF ResponseFacts, ResponseBody, ResponseTypes, ReplyLocals
  <2>3. out' \in Replies
    <3>1. [size |-> loc.chunk, data |-> <<it, it + loc.chunk>>] \in Chunks
      BY <1>1, <2>2 DEF ResponseTypes, Chunks, Views
    <3>2. PICK cs : cs = Append(out.chunks, [size |-> loc.chunk, data |-> <<it, it + loc.chunk>>])
      OBVIOUS
    <3>3. cs \in Seq(Chunks) /\ out \in Replies
      BY <1>1, <3>1, <3>2, AppendProperties DEF ResponseTypes, Replies
    <3>4. out' = [out EXCEPT !.chunks = cs]
      BY <2>1, <3>2
    <3>5. QED
      BY <3>3, <3>4 DEF Replies
  <2>4. ResponseTypes'
    <3>1. Len(buf) \in Nat
      BY <1>1, LenProperties DEF ResponseTypes
    <3>2. QED
      BY <1>1, <2>1, <2>2, <2>3, <3>1 DEF ResponseTypes
  <2>5. QED
    BY <1>1, <2>1, <2>4, ResponseChunkStep DEF ResponseInv
<1>6. CASE Rs!Reject \/ Rs!EndOfText
  BY <1>1, <1>6 DEF ResponseInv, ResponseTypes, Failed, Rs!Reject, Rs!EndOfText
<1>7. QED
  BY <1>2, <1>3, <1>4, <1>5, <1>6 DEF Rs!Next, Rs!Read

\* A parser that is to begin satisfies the invariant.
LEMMA ResponseBegin ==
  ASSUME buf \in Seq(Symbols), Rs!Begin
  PROVE  ResponseInv
<1>1. Len(buf) \in Nat
  BY LenProperties
<1>2. /\ it = 1 /\ state = "StatusStart"
      /\ loc = [prev |-> 1, name |-> Empty, length |-> 0, chunk |-> 0]
      /\ out = [version |-> Empty, codestr |-> Empty, code |-> 0, status |-> Empty,
                headers |-> <<>>, content |-> Empty, chunked |-> FALSE, chunks |-> <<>>]
  BY SameText DEF Rs!Begin, Rs!NewResponse
<1>3. Empty \in Views /\ <<>> \in Seq(Headers) /\ <<>> \in Seq(Chunks)
  BY EmptySeq DEF Empty, Views
<1>4. out \in Replies /\ loc \in ReplyLocals
  BY <1>2, <1>3 DEF Replies, ReplyLocals
<1>5. ResponseTypes
  BY <1>1, <1>2, <1>4 DEF ResponseTypes
<1>6. /\ HeadersRun(buf, <<>>, ReplyFirst, Len(<<>>)) /\ ChunksRun(buf, <<>>, ChunksFrom, Len(<<>>))
      /\ ReplyFirst >= out.status[2] + 2
  BY <1>2 DEF HeadersRun, ChunksRun, ReplyFirst, Empty
<1>7. ResponseFacts
  BY <1>2, <1>6 DEF ResponseFacts, StatusLine, ResponseHeaders, ResponseBody, InStatus, InChunks
<1>8. QED
  BY <1>5, <1>7 DEF ResponseInv

\* The content that an accepted response has is as long as its Content-Length.
ContentFacts ==
  state = "Completed" /\ out.content # Empty => out.content[2] = out.content[1] + loc.length

\* A step of the response parser keeps this.
LEMMA ContentNext ==
  ASSUME ResponseInv, Rs!Next
  PROVE  ContentFacts'
<1>1. ResponseTypes /\ ~Failed /\ ResponseFacts /\ state # "Completed"
  BY SameText DEF ResponseInv, Failed, Rs!Next, Rs!Read, Rs!Follow, Rs!HeadersEnd, Rs!ChunkSize,
     Rs!ChunkData, Rs!Reject, Rs!EndOfText, Rs!Reading, Verdicts
<1>2. out \in Replies /\ loc \in ReplyLocals /\ it \in Int /\ out.content = Empty
  BY <1>1 DEF ResponseTypes, ResponseFacts, ResponseBody
<1>3. CASE Rs!Follow
  <2>1. PICK r \in Rs!Rules : r.from = state /\ Rs!Do(r.do) /\ state' = r.to
    BY <1>3 DEF Rs!Follow
  <2>2. SUFFICES ASSUME state' = "Completed" PROVE ContentFacts'
    BY DEF ContentFacts
  <2>3. r.do \in {"none", "content"}
    <3>1. \A s \in Rs!Rules : s.to = "Completed" => s.do \in {"none", "content"}
      BY DEF Rs!Rules, Rs!Rule
    <3>2. QED
      BY <2>1, <2>2, <3>1
  <2>4. CASE r.do = "none"
    <3>1. out' = out
      BY <2>1, <2>4 DEF Rs!Do
    <3>2. QED
      BY <1>2, <3>1 DEF ContentFacts
  <2>5. CASE r.do = "content"
    <3>1. out' = [out EXCEPT !.content = <<it, it + loc.length>>] /\ loc' = loc
      BY <2>1, <2>5 DEF Rs!Do
    <3>2. out'.content[1] = it /\ out'.content[2] = it + loc.length
      BY <1>2, <3>1 DEF Replies
    <3>3. QED
      BY <3>1, <3>2 DEF ContentFacts
  <2>6. QED
    BY <2>3, <2>4, <2>5
<1>4. CASE Rs!HeadersEnd \/ Rs!ChunkSize \/ Rs!ChunkData \/ Rs!Reject \/ Rs!EndOfText
  <2>1. state' # "Completed"
    BY <1>4 DEF Rs!HeadersEnd, Rs!ChunkSize, Rs!ChunkData, Rs!Reject, Rs!EndOfText
  <2>2. QED
    BY <2>1 DEF ContentFacts
<1>5. QED
  BY <1>3, <1>4 DEF Rs!Next, Rs!Read

\* The invariant says of an accepted response that its views tile the text.
LEMMA ResponseInvTiles ==
  ASSUME ResponseInv, ContentFacts, state = "Completed"
  PROVE  ResponseTiles
<1>1. ResponseTypes /\ ResponseFacts
  BY DEF ResponseInv, Failed
<1>2. PICK first : first = ReplyFirst
  OBVIOUS
<1>3. HeadersEnd(out.headers, first) = ReplyEnd
  BY <1>2 DEF HeadersEnd, ReplyEnd, ReplyFirst, Last
<1>4. HeadersTile(out.headers, first)
  <2>1. HeadersRun(buf, out.headers, first, Len(out.headers))
    BY <1>1, <1>2 DEF ResponseFacts, ResponseHeaders
  <2>2. DOMAIN out.headers = 1 .. Len(out.headers)
    <3>1. out.headers \in Seq(Headers)
      BY <1>1 DEF ResponseTypes, Replies
    <3>2. QED
      BY <3>1, LenProperties
  <2>3. QED
    BY <2>1, <2>2 DEF HeadersRun, HeaderIs, HeadersTile, HeaderTiles, T
<1>5. ChunksTile(out.chunks, ReplyEnd + 2)
  <2>1. ChunksRun(buf, out.chunks, ReplyEnd + 2, Len(out.chunks))
    BY <1>1 DEF ResponseFacts, ResponseBody, ChunksFrom
  <2>2. DOMAIN out.chunks = 1 .. Len(out.chunks)
    <3>1. out.chunks \in Seq(Chunks)
      BY <1>1 DEF ResponseTypes, Replies
    <3>2. QED
      BY <3>1, LenProperties
  <2>3. QED
    BY <2>1, <2>2 DEF ChunksRun, ChunkIs, ChunkOpen, ChunkFrom, ChunksTile, ChunkTiles, T
<1>6. /\ out.version[1] = 6 /\ out.codestr[1] = out.version[2] + 1
      /\ out.status[1] = out.codestr[2] + 1 /\ ReplyFirst >= out.status[2] + 2
      /\ (out.content # Empty =>
            out.content[1] = ReplyEnd + 2 /\ out.content[2] = out.content[1] + loc.length)
  BY <1>1 DEF ResponseFacts, StatusLine, ResponseHeaders, ResponseBody, InStatus, ContentFacts
<1>7. QED
  BY <1>2, <1>3, <1>4, <1>5, <1>6 DEF ResponseTiles, ReplyFirst

\* The header whose name is read, and not its value.
NameOpen(headers, from) ==
  LET h == headers[Len(headers)]
      start == IF Len(headers) = 1 THEN from ELSE headers[Len(headers) - 1].value[2] + 2
  IN  h.name[1] = start /\ h.name[1] < h.name[2]

\* The parts of a multipart body; `width` is the length of the boundary.
Parts == [info : Views, data : Views]

PartOpen(b, p, from, boundary) ==
  /\ p.info[1] = from + 4 + Len(Text(b, boundary))
  /\ Text(b, <<p.info[2], p.info[2] + 4>>) = CRLF \o CRLF

PartIs(b, p, from, boundary) ==
  /\ PartOpen(b, p, from, boundary)
  /\ p.data[1] = p.info[2] + 4
  /\ Text(b, <<p.data[2] + 4, p.data[2] + 4 + Len(Text(b, boundary))>>) = Text(b, boundary)

PartFrom(parts, i, from) == IF i = 1 THEN from ELSE parts[i - 1].data[2] + 2

PartsRun(b, parts, from, boundary, n) ==
  \A i \in 1 .. n : PartIs(b, parts[i], PartFrom(parts, i, from), boundary)

Orders ==
  [method : Views, uri : Views, version : Views, headers : Seq(Headers), content : Views,
   contentSize : Int, multipart : BOOLEAN, boundary : Views, parts : Seq(Parts)]

OrderLocals == [prev : Int, remaining : Int]

RequestTypes ==
  /\ buf \in Seq(Symbols) /\ Len(buf) < Wrap
  /\ out \in Orders
  /\ loc \in OrderLocals
  /\ it \in 1 .. Len(buf) + 1
  /\ loc.prev \in 1 .. it

InMethod == {"MethodUnstart", "MethodStart", "MethodEnd", "UriStart"}
InLine == InMethod \union {"UriEnd", "HttpStart", "HttpEnd", "VersionStart"}

\* The line a request begins with.
RequestLine ==
  /\ state = "MethodUnstart" => it = 1
  /\ state \in {"MethodUnstart", "MethodStart"} => loc.prev = 1
  /\ state \notin {"MethodUnstart", "MethodStart"} => out.method[1] = 1
  /\ state = "MethodEnd" => out.method[2] = it - 1
  /\ state = "UriStart" => loc.prev = out.method[2] + 1
  /\ state \notin InMethod => out.uri[1] = out.method[2] + 1
  /\ state = "UriEnd" => out.uri[2] = it - 1
  /\ state = "HttpStart" => loc.prev = out.uri[2] + 1
  /\ state = "HttpEnd" => it = out.uri[2] + 6
  /\ state = "VersionStart" => loc.prev = out.uri[2] + 6
  /\ state \notin InLine => out.version[1] = out.uri[2] + 6
  /\ state = "VersionEnd_r" => out.version[2] = it - 1
  /\ state = "VersionEnd_rn" => out.version[2] = it - 2

OrderFirst == out.version[2] + 2
OrderEnd == IF out.headers = <<>> THEN OrderFirst ELSE out.headers[Len(out.headers)].value[2] + 2

InName == {"HeaderNameEnd", "HeaderNameValueSpace", "HeaderValueStart"}
LastName == out.headers[Len(out.headers)].name[2]

RequestHeaders ==
  /\ state \in InLine \union {"VersionEnd_r", "VersionEnd_rn"} => out.headers = <<>>
  /\ state = "HeaderStart" => loc.prev = OrderEnd /\ loc.prev < it
  /\ state = "VersionEnd_rn" => it = OrderEnd
  /\ state \in InName => out.headers # <<>> /\ NameOpen(out.headers, OrderFirst)
  /\ state = "HeaderNameEnd" => LastName = it - 1
  /\ state = "HeaderNameValueSpace" => LastName = it - 2
  /\ state = "HeaderValueStart" => loc.prev - LastName \in {1, 2} /\ loc.prev < it
  /\ state = "Header_r" =>
       out.headers # <<>> /\ OrderEnd = it + 1 /\ it > 1 /\ HeaderOpen(buf, out.headers, OrderFirst)
  /\ state \in InName \union {"Header_r"} =>
       HeadersRun(buf, out.headers, OrderFirst, Len(out.headers) - 1)
  /\ state \notin InName \union {"Header_r"} =>
       HeadersRun(buf, out.headers, OrderFirst, Len(out.headers))
  /\ state = "Header_rn" => it = OrderEnd
  /\ state = "Header_rnr" => it = OrderEnd + 1
  /\ state = "Header_rnrn" => it = OrderEnd + 2

InParts == {"MultipartDataStart", "MultipartDataStart_", "BoundaryMatchStart", "BoundaryMatch_r",
            "BoundaryMatch_rn", "PartInfoStart", "PartInfo_r", "PartInfo_rn", "PartInfo_rnr",
            "PartInfo_rnrn", "PartBodyStart", "LastBoundaryMatch"}
Body == OrderEnd + 2

\* The body is as long as the size says; without a size it never ends.
RequestContent ==
  /\ state # "Completed" => out.content = Empty
  /\ state = "Completed" =>
       (out.content # Empty =>
          /\ out.content[1] = Body /\ out.content[2] = out.content[1] + out.contentSize
          /\ out.content[2] <= Len(buf) + 1)
  /\ state \notin InParts \union {"PostDataStart", "Completed"} =>
       loc.remaining = out.contentSize /\ loc.remaining \in 0 .. Wrap - 1
  /\ state = "PostDataStart" =>
       /\ loc.prev = Body /\ loc.prev < it
       /\ loc.remaining \in 1 .. Wrap - 1
       /\ loc.remaining = (IF out.contentSize = 0 THEN Wrap ELSE out.contentSize) - (it - loc.prev)

Width == Len(Text(buf, out.boundary))
PartsEnd == IF out.parts = <<>> THEN Body ELSE out.parts[Len(out.parts)].data[2] + 2
LastInfo == out.parts[Len(out.parts)].info[2]
LastFrom == PartFrom(out.parts, Len(out.parts), Body)
InPart == {"PartInfo_rnr", "PartInfo_rnrn", "PartBodyStart"}

RequestParts ==
  /\ state \in InParts => out.multipart
  /\ out.multipart => 1 <= out.boundary[1] /\ out.boundary[1] <= out.boundary[2]
                      /\ out.boundary[2] <= Len(buf) + 1
  /\ state \notin (InParts \ {"MultipartDataStart", "MultipartDataStart_", "BoundaryMatchStart"})
                  \union {"Completed"} => out.parts = <<>>
  /\ state = "MultipartDataStart" => it = Body + 1
  /\ state = "MultipartDataStart_" => it = Body + 2
  /\ state = "BoundaryMatchStart" => loc.prev = Body + 2
  /\ state = "BoundaryMatch_r" => it = PartsEnd + 3 + Width
  /\ state = "BoundaryMatch_rn" => it = PartsEnd + 4 + Width
  /\ state \in {"PartInfoStart", "PartInfo_r", "PartInfo_rn"} => loc.prev = PartsEnd + 4 + Width
  /\ state = "PartInfo_r" => it > 1 /\ buf[it - 1] = "CR"
  /\ state = "PartInfo_rn" => it > 2 /\ buf[it - 2] = "CR" /\ buf[it - 1] = "LF"
  /\ state = "PartInfo_rnr" =>
       /\ it > 3 /\ buf[it - 3] = "CR" /\ buf[it - 2] = "LF" /\ buf[it - 1] = "CR"
       /\ LastInfo = it - 3 /\ out.parts[Len(out.parts)].info[1] = LastFrom + 4 + Width
  /\ state = "PartInfo_rnrn" => it = LastInfo + 4
  /\ state = "PartBodyStart" => loc.prev = LastInfo + 4
  /\ state \in {"PartInfo_rnrn", "PartBodyStart"} =>
       PartOpen(buf, out.parts[Len(out.parts)], LastFrom, out.boundary)
  /\ state \in InPart =>
       out.parts # <<>> /\ PartsRun(buf, out.parts, Body, out.boundary, Len(out.parts) - 1)
  /\ state \notin InPart => PartsRun(buf, out.parts, Body, out.boundary, Len(out.parts))

RequestFacts == RequestLine /\ RequestHeaders /\ RequestContent /\ RequestParts
RequestInv == RequestTypes /\ (~Failed => RequestFacts)

\* The rows of the request parser that only move on.
LEMMA RequestNone ==
  ASSUME NEW r \in Rq!Rules, r.do = "none"
  PROVE  \/ r.from = "MethodUnstart" /\ r.to = "MethodStart"
         \/ r.from = "VersionEnd_r" /\ r.to = "VersionEnd_rn"
         \/ r.from = "VersionEnd_rn" /\ r.to = "VersionEnd_rnr"
         \/ r.from = "VersionEnd_rnr" /\ r.to = "Completed"
         \/ r.from = "HeaderNameEnd" /\ r.to = "HeaderNameValueSpace"
         \/ r.from = "Header_r" /\ r.to = "Header_rn" /\ r.on = {"LF"}
         \/ r.from = "Header_rn" /\ r.to = "Header_rnr"
         \/ r.from = "MultipartDataStart" /\ r.to = "MultipartDataStart_"
         \/ r.from = "BoundaryMatch_r" /\ r.to = "BoundaryMatch_rn"
         \/ r.from = "PartInfoStart" /\ r.to = "PartInfo_r" /\ r.on = {"CR"}
         \/ r.from = "PartInfo_r" /\ r.to = "PartInfo_rn" /\ r.on = {"LF"}
         \/ r.from = "PartInfo_rn" /\ r.to = "PartInfoStart"
         \/ r.from = "PartInfo_rnr" /\ r.to = "PartInfo_rnrn" /\ r.on = {"LF"}
         \/ r.from = "LastBoundaryMatch" /\ r.to = "Completed"
         \/ /\ r.from \in {"MethodStart", "UriStart", "HttpStart", "VersionStart", "HeaderStart",
                           "HeaderValueStart", "BoundaryMatchStart", "PartInfoStart",
                           "PartBodyStart"}
            /\ r.to = r.from
  BY DEF Rq!Rules, Rq!Rule

\* The rows that remember where a piece begins.
LEMMA RequestMarks ==
  ASSUME NEW r \in Rq!Rules, r.do = "mark"
  PROVE  \/ r.from = "MethodEnd" /\ r.to = "UriStart"
         \/ r.from = "UriEnd" /\ r.to = "HttpStart"
         \/ r.from = "HttpEnd" /\ r.to = "VersionStart"
         \/ r.from \in {"VersionEnd_rn", "Header_rn"} /\ r.to = "HeaderStart"
         \/ r.from \in {"HeaderNameEnd", "HeaderNameValueSpace"} /\ r.to = "HeaderValueStart"
         \/ r.from = "MultipartDataStart_" /\ r.to = "BoundaryMatchStart"
         \/ r.from = "BoundaryMatch_rn" /\ r.to = "PartInfoStart"
         \/ r.from = "PartInfo_rnrn" /\ r.to = "PartBodyStart"
  BY DEF Rq!Rules, Rq!Rule

\* The rows that take the view of a piece.
LEMMA RequestViews ==
  ASSUME NEW r \in Rq!Rules, r.do \notin {"none", "mark"}
  PROVE  \/ r.do = "method" /\ r.from = "MethodStart" /\ r.to = "MethodEnd"
         \/ r.do = "uri" /\ r.from = "UriStart" /\ r.to = "UriEnd"
         \/ r.do = "version" /\ r.from = "VersionStart" /\ r.to = "VersionEnd_r"
         \/ r.do = "name" /\ r.from = "HeaderStart" /\ r.to = "HeaderNameEnd"
         \/ r.do = "value" /\ r.from = "HeaderValueStart" /\ r.to = "Header_r" /\ r.on = {"CR"}
         \/ r.do = "info" /\ r.from = "PartInfo_rn" /\ r.to = "PartInfo_rnr" /\ r.on = {"CR"}
  BY DEF Rq!Rules, Rq!Rule

\* The ends of the last part are numbers.
LEMMA PartFields ==
  ASSUME NEW ps \in Seq(Parts), ps # <<>>
  PROVE  /\ Len(ps) \in Nat /\ Len(ps) # 0 /\ ps[Len(ps)] \in Parts
         /\ ps[Len(ps)].info[2] \in Int /\ ps[Len(ps)].data[2] \in Int
         /\ ps[Len(ps)].info[1] \in Int
<1>1. Len(ps) \in Nat /\ Len(ps) # 0
  BY LenProperties, EmptySeq
<1>2. ps[Len(ps)] \in Parts
  BY <1>1, ElementOfSeq
<1>3. QED
  BY <1>1, <1>2 DEF Parts, Views

\* The ends of the views of a request are numbers.
LEMMA OrderEnds ==
  ASSUME RequestTypes
  PROVE  /\ OrderFirst \in Int /\ OrderEnd \in Int /\ Body \in Int /\ PartsEnd \in Int
         /\ (out.headers # <<>> => LastName \in Int) /\ (out.parts # <<>> => LastInfo \in Int)
         /\ out.method[2] \in Int /\ out.uri[2] \in Int /\ out.version[2] \in Int
         /\ out.contentSize \in Int /\ loc.prev \in Int /\ loc.remaining \in Int
<1>1. /\ out.headers \in Seq(Headers) /\ out.parts \in Seq(Parts) /\ out.contentSize \in Int
      /\ out.method[2] \in Int /\ out.uri[2] \in Int /\ out.version[2] \in Int
      /\ loc.prev \in Int /\ loc.remaining \in Int
  BY DEF RequestTypes, Orders, OrderLocals, Views
<1>2. OrderFirst \in Int /\ OrderEnd \in Int /\ Body \in Int
  <2>1. OrderFirst \in Int
    BY <1>1 DEF OrderFirst
  <2>2. PICK hs \in Seq(Headers) : hs = out.headers
    BY <1>1
  <2>3. hs # <<>> => hs[Len(hs)].value[2] \in Int
    BY HeaderFields
  <2>4. OrderEnd \in Int
    BY <2>1, <2>2, <2>3 DEF OrderEnd
  <2>5. QED
    BY <2>1, <2>4 DEF Body
<1>3. PartsEnd \in Int /\ (out.parts # <<>> => LastInfo \in Int)
  BY <1>1, <1>2, PartFields DEF PartsEnd, LastInfo
<1>4. out.headers # <<>> => LastName \in Int
  <2>1. SUFFICES ASSUME out.headers # <<>> PROVE LastName \in Int
    OBVIOUS
  <2>2. out.headers[Len(out.headers)] \in Headers
    BY <1>1, <2>1, LenProperties, EmptySeq, ElementOfSeq
  <2>3. QED
    BY <2>2 DEF LastName, Headers, Views
<1>5. QED
  BY <1>1, <1>2, <1>3, <1>4

\* The boundary is a view into the text, and its width a natural number.
LEMMA WidthIs ==
  ASSUME RequestTypes, RequestParts, out.multipart
  PROVE  Width \in Nat /\ Width = out.boundary[2] - out.boundary[1]
<1>0. out.boundary \in Int \X Int
  BY DEF RequestTypes, Orders, Views
<1>1. PICK p \in Int, q \in Int : out.boundary = <<p, q>>
  BY <1>0
<1>2. 1 <= p /\ p <= q /\ q <= Len(buf) + 1 /\ buf \in Seq(Symbols)
  BY <1>1 DEF RequestParts, RequestTypes
<1>3. Len(Text(buf, <<p, q>>)) = q - p
  BY <1>2, TextIs
<1>4. QED
  BY <1>1, <1>2, <1>3 DEF Width

\* Steps that leave the request as it is do not move the ends of its views.
LEMMA OrderUnmoved ==
  ASSUME RequestTypes, out' = out, buf' = buf
  PROVE  /\ OrderFirst' = OrderFirst /\ OrderEnd' = OrderEnd /\ Body' = Body /\ Width' = Width
         /\ PartsEnd' = PartsEnd /\ LastName' = LastName /\ LastInfo' = LastInfo
         /\ LastFrom' = LastFrom
  BY DEF OrderFirst, OrderEnd, Body, PartsEnd, LastName, LastInfo, LastFrom, Width

\* A line break and an empty line, symbol by symbol.
LEMMA FourIs ==
  ASSUME NEW b \in Seq(Symbols), NEW p \in Int, 1 <= p, p + 3 <= Len(b),
         b[p] = "CR", b[p + 1] = "LF", b[p + 2] = "CR", b[p + 3] = "LF"
  PROVE  Text(b, <<p, p + 4>>) = CRLF \o CRLF
<1>0. Len(b) \in Nat
  BY LenProperties
<1>1. PICK q \in Int : q = p + 4
  OBVIOUS
<1>2. PICK t \in Seq(Symbols) : t = Text(b, <<p, q>>)
  BY <1>0, <1>1, TextIs
<1>3. 1 <= p /\ p <= q /\ q <= Len(b) + 1
  BY <1>0, <1>1
<1>4. Len(t) = q - p /\ \A i \in 1 .. q - p : t[i] = b[p + i - 1]
  BY <1>2, <1>3, TextIs
<1>5. Len(t) = 4 /\ t[1] = "CR" /\ t[2] = "LF" /\ t[3] = "CR" /\ t[4] = "LF"
  BY <1>1, <1>4
<1>6. t = <<"CR", "LF", "CR", "LF">>
  BY <1>5
<1>7. CRLF \o CRLF = <<"CR", "LF", "CR", "LF">>
  <2>0. "CR" \in Symbols /\ "LF" \in Symbols
    BY DEF Symbols, Control
  <2>1. PICK c \in Seq(Symbols) : c = <<"CR", "LF">> /\ Len(c) = 2 /\ c[1] = "CR" /\ c[2] = "LF"
    <3>1. <<"CR", "LF">> \in Seq(Symbols)
      BY <2>0
    <3>2. Len(<<"CR", "LF">>) = 2 /\ <<"CR", "LF">>[1] = "CR" /\ <<"CR", "LF">>[2] = "LF"
      OBVIOUS
    <3>3. QED
      BY <3>1, <3>2
  <2>2. PICK d : d = c \o c
    OBVIOUS
  <2>3. d \in Seq(Symbols) /\ Len(d) = 4
    BY <2>1, <2>2, ConcatProperties
  <2>4. d[1] = "CR" /\ d[2] = "LF" /\ d[3] = "CR" /\ d[4] = "LF"
    BY <2>1, <2>2, ConcatProperties
  <2>5. d = <<"CR", "LF", "CR", "LF">>
    BY <2>3, <2>4
  <2>6. QED
    BY <2>1, <2>2, <2>5 DEF CRLF
<1>8. QED
  BY <1>1, <1>2, <1>6, <1>7

\* A row that only moves on keeps the facts.
LEMMA RequestNoneStep ==
  ASSUME RequestTypes, RequestFacts, NEW r \in Rq!Rules, r.do = "none", r.from = state,
         it <= Len(buf), buf[it] \in r.on,
         state' = r.to, it' = it + 1, buf' = buf, out' = out, loc' = loc
  PROVE  RequestFacts'
<1>0. /\ OrderFirst' = OrderFirst /\ OrderEnd' = OrderEnd /\ Body' = Body /\ Width' = Width
      /\ PartsEnd' = PartsEnd /\ LastName' = LastName
      /\ LastInfo' = LastInfo /\ LastFrom' = LastFrom
  BY OrderUnmoved
<1>1. /\ OrderFirst \in Int /\ OrderEnd \in Int /\ Body \in Int /\ PartsEnd \in Int
      /\ (out.headers # <<>> => LastName \in Int) /\ (out.parts # <<>> => LastInfo \in Int)
      /\ out.method[2] \in Int /\ out.uri[2] \in Int /\ out.version[2] \in Int
      /\ loc.prev \in Int
  BY OrderEnds
<1>2. it \in Int /\ it >= 1 /\ loc.prev <= it
  BY DEF RequestTypes
<1>3. out.multipart => Width \in Nat
  BY WidthIs DEF RequestFacts
<1> USE <1>0, <1>1, <1>2, <1>3 DEF RequestFacts, RequestLine, RequestHeaders,
        RequestContent, RequestParts, InMethod, InLine, InName, InParts, InPart
<1>10. CASE state = "MethodUnstart" /\ state' = "MethodStart"
  BY <1>10
<1>11. CASE state = "VersionEnd_r" /\ state' = "VersionEnd_rn"
  BY <1>11 DEF OrderEnd, OrderFirst
<1>12. CASE state = "VersionEnd_rn" /\ state' = "VersionEnd_rnr"
  BY <1>12
<1>13. CASE state = "VersionEnd_rnr" /\ state' = "Completed"
  BY <1>13
<1>14. CASE state = "HeaderNameEnd" /\ state' = "HeaderNameValueSpace"
  BY <1>14
<1>15. CASE state = "Header_rn" /\ state' = "Header_rnr"
  BY <1>15
<1>16. CASE state = "MultipartDataStart" /\ state' = "MultipartDataStart_"
  BY <1>16
<1>17. CASE state = "BoundaryMatch_r" /\ state' = "BoundaryMatch_rn"
  BY <1>17
<1>18. CASE state = "PartInfo_rn" /\ state' = "PartInfoStart"
  BY <1>18
<1>19. CASE state = "LastBoundaryMatch" /\ state' = "Completed"
  BY <1>19
<1>20. CASE state = "MethodStart" /\ state' = state
  BY <1>20
<1>21. CASE state = "UriStart" /\ state' = state
  BY <1>21
<1>22. CASE state = "HttpStart" /\ state' = state
  BY <1>22
<1>23. CASE state = "VersionStart" /\ state' = state
  BY <1>23
<1>24. CASE state = "HeaderStart" /\ state' = state
  BY <1>24
<1>25. CASE state = "HeaderValueStart" /\ state' = state
  BY <1>25
<1>26. CASE state = "BoundaryMatchStart" /\ state' = state
  BY <1>26
<1>27. CASE state = "PartInfoStart" /\ state' = state
  BY <1>27
<1>28. CASE state = "PartBodyStart" /\ state' = state
  BY <1>28
<1> HIDE DEF RequestFacts, RequestLine, RequestHeaders, RequestContent, RequestParts
<1>29. CASE state = "PartInfoStart" /\ state' = "PartInfo_r" /\ buf[it] = "CR"
  <2>1. it' > 1 /\ buf'[it' - 1] = "CR"
    <3>1. it' - 1 = it
      OBVIOUS
    <3>2. QED
      BY <1>29, <3>1
  <2>2. RequestLine' /\ RequestHeaders' /\ RequestContent'
    BY <1>29 DEF RequestFacts, RequestLine, RequestHeaders, RequestContent
  <2>3. RequestParts'
    BY <1>29, <2>1 DEF RequestFacts, RequestParts
  <2>4. QED
    BY <2>2, <2>3 DEF RequestFacts
<1>30. CASE state = "PartInfo_r" /\ state' = "PartInfo_rn" /\ buf[it] = "LF"
  <2>1. it > 1 /\ buf[it - 1] = "CR"
    BY <1>30 DEF RequestFacts, RequestParts
  <2>2. it' > 2 /\ buf'[it' - 2] = "CR" /\ buf'[it' - 1] = "LF"
    <3>1. it' - 1 = it /\ it' - 2 = it - 1
      OBVIOUS
    <3>2. QED
      BY <1>30, <2>1, <3>1
  <2>3. RequestLine' /\ RequestHeaders' /\ RequestContent'
    BY <1>30 DEF RequestFacts, RequestLine, RequestHeaders, RequestContent
  <2>4. RequestParts'
    BY <1>30, <2>2 DEF RequestFacts, RequestParts
  <2>5. QED
    BY <2>3, <2>4 DEF RequestFacts
<1>31. CASE state = "PartInfo_rnr" /\ state' = "PartInfo_rnrn" /\ buf[it] = "LF"
  <2>1. /\ it > 3 /\ buf[it - 3] = "CR" /\ buf[it - 2] = "LF" /\ buf[it - 1] = "CR"
        /\ LastInfo = it - 3 /\ out.parts[Len(out.parts)].info[1] = LastFrom + 4 + Width
    BY <1>31 DEF RequestFacts, RequestParts
  <2>2. PICK p \in Int : p = it - 3
    OBVIOUS
  <2>3. /\ 1 <= p /\ p + 3 <= Len(buf) /\ buf[p] = "CR" /\ buf[p + 1] = "LF" /\ buf[p + 2] = "CR"
        /\ buf[p + 3] = "LF"
    <3>1. p + 1 = it - 2 /\ p + 2 = it - 1 /\ p + 3 = it
      BY <2>2
    <3>2. QED
      BY <1>31, <2>1, <2>2, <3>1
  <2>4. Text(buf, <<p, p + 4>>) = CRLF \o CRLF
    BY <2>3, FourIs DEF RequestTypes
  <2>5. PartOpen(buf, out.parts[Len(out.parts)], LastFrom, out.boundary)
    BY <2>1, <2>2, <2>4 DEF PartOpen, LastInfo, Width
  <2>6. PartOpen(buf, out.parts[Len(out.parts)], LastFrom, out.boundary)'
    BY <2>5 DEF PartOpen, LastFrom
  <2>7. it' = LastInfo + 4
    BY <2>1
  <2>8. RequestLine' /\ RequestHeaders' /\ RequestContent'
    BY <1>31 DEF RequestFacts, RequestLine, RequestHeaders, RequestContent
  <2>9. RequestParts'
    BY <1>31, <2>6, <2>7 DEF RequestFacts, RequestParts
  <2>10. QED
    BY <2>8, <2>9 DEF RequestFacts
<1>32. CASE state = "Header_r" /\ state' = "Header_rn" /\ buf[it] = "LF"
  <2>1. /\ out.headers # <<>> /\ OrderEnd = it + 1 /\ it > 1
        /\ HeadersRun(buf, out.headers, OrderFirst, Len(out.headers) - 1)
        /\ HeaderOpen(buf, out.headers, OrderFirst)
    BY <1>32 DEF RequestFacts, RequestHeaders
  <2>2. out.headers \in Seq(Headers) /\ buf \in Seq(Symbols)
    BY DEF RequestTypes, Orders
  <2>3. PICK e \in Int : e = out.headers[Len(out.headers)].value[2]
    BY <2>1, <2>2, HeaderFields
  <2>4. e = it - 1
    <3>1. OrderEnd = e + 2
      BY <2>1, <2>3 DEF OrderEnd
    <3>2. QED
      BY <2>1, <3>1 DEF RequestTypes
  <2>5. 1 <= e /\ e + 1 <= Len(buf) /\ buf[e + 1] = "LF"
    BY <1>32, <2>1, <2>4 DEF RequestTypes
  <2>6. PICK hs, from : hs = out.headers /\ from = OrderFirst
    OBVIOUS
  <2>7. HeadersRun(buf, hs, from, Len(hs))
    BY <2>1, <2>2, <2>3, <2>5, <2>6, HeaderCloses
  <2>8. HeadersRun(buf, out.headers, OrderFirst, Len(out.headers))'
    BY <2>6, <2>7 DEF HeadersRun
  <2>9. RequestLine' /\ RequestContent' /\ RequestParts'
    BY <1>32 DEF RequestFacts, RequestLine, RequestContent, RequestParts
  <2>10. RequestHeaders'
    BY <1>32, <2>1, <2>8 DEF RequestFacts, RequestHeaders
  <2>11. QED
    BY <2>9, <2>10 DEF RequestFacts
<1>40. QED
  <2> HIDE <1>0, <1>1, <1>2, <1>3 DEF InMethod, InLine, InName, InParts, InPart
  <2>1. QED
    BY RequestNone, <1>10, <1>11, <1>12, <1>13, <1>14, <1>15, <1>16, <1>17, <1>18, <1>19, <1>20,
       <1>21, <1>22, <1>23, <1>24, <1>25, <1>26, <1>27, <1>28, <1>29, <1>30, <1>31, <1>32

\* A row that remembers its position keeps the facts.
LEMMA RequestMarkStep ==
  ASSUME RequestTypes, RequestFacts, NEW r \in Rq!Rules, r.do = "mark", r.from = state,
         it <= Len(buf), state' = r.to, it' = it + 1, buf' = buf, out' = out,
         loc' = [loc EXCEPT !.prev = it]
  PROVE  RequestFacts'
<1>0. /\ OrderFirst' = OrderFirst /\ OrderEnd' = OrderEnd /\ Body' = Body /\ Width' = Width
      /\ PartsEnd' = PartsEnd /\ LastName' = LastName
      /\ LastInfo' = LastInfo /\ LastFrom' = LastFrom
  BY OrderUnmoved
<1>1. /\ OrderFirst \in Int /\ OrderEnd \in Int /\ Body \in Int /\ PartsEnd \in Int
      /\ (out.headers # <<>> => LastName \in Int) /\ (out.parts # <<>> => LastInfo \in Int)
      /\ out.method[2] \in Int /\ out.uri[2] \in Int /\ out.version[2] \in Int
      /\ loc.prev \in Int
  BY OrderEnds
<1>2. it \in Int /\ it >= 1 /\ loc.prev <= it
  BY DEF RequestTypes
<1>3. out.multipart => Width \in Nat
  BY WidthIs DEF RequestFacts
<1>4. loc'.prev = it /\ loc'.remaining = loc.remaining /\ it' - 1 = it
  BY <1>2 DEF RequestTypes, OrderLocals
<1> USE <1>0, <1>1, <1>2, <1>3, <1>4 DEF RequestFacts, RequestLine, RequestHeaders,
        RequestContent, RequestParts, InMethod, InLine, InName, InParts, InPart
<1>10. CASE state = "MethodEnd" /\ state' = "UriStart"
  BY <1>10
<1>11. CASE state = "UriEnd" /\ state' = "HttpStart"
  BY <1>11
<1>12. CASE state = "HttpEnd" /\ state' = "VersionStart"
  BY <1>12
<1>13. CASE state = "VersionEnd_rn" /\ state' = "HeaderStart"
  BY <1>13
<1>14. CASE state = "Header_rn" /\ state' = "HeaderStart"
  BY <1>14
<1>15. CASE state = "HeaderNameEnd" /\ state' = "HeaderValueStart"
  <2>1. RequestLine'
    BY <1>15
  <2>2. RequestHeaders'
    <3>1. /\ out.headers # <<>> /\ NameOpen(out.headers, OrderFirst)
          /\ HeadersRun(buf, out.headers, OrderFirst, Len(out.headers) - 1)
          /\ LastName = it - 1
      BY <1>15
    <3>2. it \in Int /\ it' = it + 1 /\ loc'.prev = it /\ LastName' = LastName
      OBVIOUS
    <3> HIDE <1>0, <1>1, <1>2, <1>3, <1>4 DEF RequestFacts, RequestLine, RequestContent,
             RequestParts, RequestHeaders, InMethod, InLine, InName, InParts, InPart
    <3>3. PICK name \in Int : name = it - 1 /\ name = LastName'
      BY <3>1, <3>2
    <3>4. loc'.prev - name \in {1, 2} /\ loc'.prev < it'
      BY <3>2, <3>3
    <3>5. loc'.prev - LastName' \in {1, 2} /\ loc'.prev < it'
      BY <3>3, <3>4
    <3>6. QED
      BY <1>0, <1>15, <3>1, <3>5 DEF RequestHeaders, InLine, InMethod, InName
  <2>3. RequestContent'
    BY <1>15
  <2>4. RequestParts'
    BY <1>15
  <2>5. QED
    BY <2>1, <2>2, <2>3, <2>4
<1>16. CASE state = "HeaderNameValueSpace" /\ state' = "HeaderValueStart"
  <2>1. RequestLine'
    BY <1>16
  <2>2. RequestHeaders'
    <3>1. /\ out.headers # <<>> /\ NameOpen(out.headers, OrderFirst)
          /\ HeadersRun(buf, out.headers, OrderFirst, Len(out.headers) - 1)
          /\ LastName = it - 2
      BY <1>16
    <3>2. it \in Int /\ it' = it + 1 /\ loc'.prev = it /\ LastName' = LastName
      OBVIOUS
    <3> HIDE <1>0, <1>1, <1>2, <1>3, <1>4 DEF RequestFacts, RequestLine, RequestContent,
             RequestParts, RequestHeaders, InMethod, InLine, InName, InParts, InPart
    <3>3. PICK name \in Int : name = it - 2 /\ name = LastName'
      BY <3>1, <3>2
    <3>4. loc'.prev - name \in {1, 2} /\ loc'.prev < it'
      BY <3>2, <3>3
    <3>5. loc'.prev - LastName' \in {1, 2} /\ loc'.prev < it'
      BY <3>3, <3>4
    <3>6. QED
      BY <1>0, <1>16, <3>1, <3>5 DEF RequestHeaders, InLine, InMethod, InName
  <2>3. RequestContent'
    BY <1>16
  <2>4. RequestParts'
    BY <1>16
  <2>5. QED
    BY <2>1, <2>2, <2>3, <2>4
<1>17. CASE state = "MultipartDataStart_" /\ state' = "BoundaryMatchStart"
  BY <1>17
<1>18. CASE state = "BoundaryMatch_rn" /\ state' = "PartInfoStart"
  BY <1>18
<1>19. CASE state = "PartInfo_rnrn" /\ state' = "PartBodyStart"
  BY <1>19
<1>20. QED
  <2> HIDE <1>0, <1>1, <1>2, <1>3, <1>4 DEF RequestFacts, RequestLine, RequestHeaders,
           RequestContent, RequestParts, InMethod, InLine, InName, InParts, InPart
  <2>1. QED
    BY RequestMarks, <1>10, <1>11, <1>12, <1>13, <1>14, <1>15, <1>16, <1>17, <1>18, <1>19

\* The view of a piece of the request line begins where the piece before it ended.
LEMMA RequestLineStep ==
  ASSUME RequestTypes, RequestFacts, it <= Len(buf), it' = it + 1, buf' = buf, loc' = loc,
         out' \in Orders, NEW v, v[1] = loc.prev, v[2] = it,
         \/ /\ state = "MethodStart" /\ state' = "MethodEnd" /\ out' = [out EXCEPT !.method = v]
         \/ /\ state = "UriStart" /\ state' = "UriEnd" /\ out' = [out EXCEPT !.uri = v]
         \/ /\ state = "VersionStart" /\ state' = "VersionEnd_r"
            /\ out' = [out EXCEPT !.version = v]
  PROVE  RequestFacts'
<1>1. /\ out \in Orders /\ loc \in OrderLocals /\ it \in Int /\ loc.prev \in Int
      /\ out.method[2] \in Int /\ out.uri[2] \in Int
  BY OrderEnds DEF RequestTypes
<1>2. /\ out'.headers = out.headers /\ out'.parts = out.parts /\ out'.content = out.content
      /\ out'.contentSize = out.contentSize /\ out'.multipart = out.multipart
      /\ out'.boundary = out.boundary
  BY <1>1 DEF Orders
<1>3. out.headers = <<>> /\ out.parts = <<>> /\ out.content = Empty
  BY DEF RequestFacts, RequestHeaders, RequestContent, RequestParts, InLine, InMethod, InParts
<1>4. RequestLine'
  <2>1. it = it' - 1
    BY <1>1
  <2>2. CASE state = "MethodStart"
    <3>1. /\ state' = "MethodEnd" /\ out'.method[1] = loc.prev /\ out'.method[2] = it
      BY <1>1, <2>2 DEF Orders
    <3>2. loc.prev = 1
      BY <2>2 DEF RequestFacts, RequestLine
    <3>3. QED
      BY <2>1, <3>1, <3>2 DEF RequestLine, InMethod, InLine
  <2>3. CASE state = "UriStart"
    <3>1. /\ state' = "UriEnd" /\ out'.method = out.method /\ out'.uri[1] = loc.prev
          /\ out'.uri[2] = it
      BY <1>1, <2>3 DEF Orders
    <3>2. loc.prev = out.method[2] + 1 /\ out.method[1] = 1
      BY <2>3 DEF RequestFacts, RequestLine
    <3>3. QED
      BY <2>1, <3>1, <3>2 DEF RequestLine, InMethod, InLine
  <2>4. CASE state = "VersionStart"
    <3>1. /\ state' = "VersionEnd_r" /\ out'.method = out.method /\ out'.uri = out.uri
          /\ out'.version[1] = loc.prev /\ out'.version[2] = it
      BY <1>1, <2>4 DEF Orders
    <3>2. /\ loc.prev = out.uri[2] + 6 /\ out.method[1] = 1
          /\ out.uri[1] = out.method[2] + 1
      BY <2>4 DEF RequestFacts, RequestLine, InMethod
    <3>3. QED
      BY <2>1, <3>1, <3>2 DEF RequestLine, InMethod, InLine
  <2>5. QED
    BY <2>2, <2>3, <2>4
<1>5. HeadersRun(buf, <<>>, OrderFirst', Len(<<>>))
  BY DEF HeadersRun
<1>6. RequestHeaders'
  BY <1>2, <1>3, <1>5 DEF RequestHeaders, InLine, InMethod, InName
<1>7. RequestContent'
  BY <1>2 DEF RequestFacts, RequestContent, InParts
<1>8. PartsRun(buf, <<>>, Body', out.boundary, Len(<<>>))
  BY DEF PartsRun
<1>9. RequestParts'
  BY <1>2, <1>3, <1>8 DEF RequestFacts, RequestParts, InParts, InPart
<1>10. QED
  BY <1>4, <1>6, <1>7, <1>9 DEF RequestFacts

\* No part is out of place among none.
LEMMA NoParts ==
  ASSUME NEW b, NEW from, NEW boundary
  PROVE  PartsRun(b, <<>>, from, boundary, Len(<<>>))
  BY DEF PartsRun

\* The end of a header's name.
LEMMA RequestNameStep ==
  ASSUME RequestTypes, RequestFacts, it <= Len(buf), it' = it + 1, buf' = buf, loc' = loc,
         state = "HeaderStart", state' = "HeaderNameEnd",
         out' = [out EXCEPT !.headers = Append(@, [name |-> <<loc.prev, it>>, value |-> Empty])]
  PROVE  RequestFacts'
<1>1. /\ out \in Orders /\ it \in Int /\ loc.prev \in Int /\ out.headers \in Seq(Headers)
      /\ out.parts = <<>>
  BY DEF RequestTypes, Orders, RequestFacts, RequestParts, InParts
<1>2. /\ loc.prev = OrderEnd /\ loc.prev < it
      /\ HeadersRun(buf, out.headers, OrderFirst, Len(out.headers))
  BY DEF RequestFacts, RequestHeaders, InName
<1>3. PICK h : h = [name |-> <<loc.prev, it>>, value |-> Empty]
  OBVIOUS
<1>4. h \in Headers /\ h.name[1] = loc.prev /\ h.name[2] = it
  BY <1>1, <1>3 DEF Headers, Views, Empty
<1>5. PICK hs \in Seq(Headers), from \in {OrderFirst} : hs = out.headers /\ from = OrderFirst
  BY <1>1
<1>6. PICK new : new = Append(hs, h) /\ out'.headers = new
  BY <1>1, <1>3, <1>5 DEF Orders
<1>7. /\ out'.version = out.version /\ out'.method = out.method /\ out'.uri = out.uri
      /\ out'.content = out.content /\ out'.contentSize = out.contentSize
      /\ out'.multipart = out.multipart /\ out'.boundary = out.boundary /\ out'.parts = <<>>
  BY <1>1 DEF Orders
<1>8. PICK n \in Nat : n = Len(hs)
  BY LenProperties
<1>9. /\ Len(new) = n + 1 /\ new # <<>> /\ new[n + 1] = h
      /\ (n # 0 => new[n] = hs[n]) /\ (hs = <<>> <=> n = 0)
  <2>1. n # 0 => n \in 1 .. n
    OBVIOUS
  <2>2. h \in Headers
    BY <1>4
  <2>3. /\ Len(Append(hs, h)) = n + 1
        /\ Append(hs, h) # <<>> /\ Append(hs, h)[n + 1] = h
        /\ \A i \in 1 .. n : Append(hs, h)[i] = hs[i]
        /\ (hs = <<>> <=> n = 0)
    BY <1>8, <2>2, HeaderAppends
  <2>4. QED
    BY <1>6, <2>1, <2>3
<1>10. HeadersRun(buf, new, from, n)
  <2>1. HeadersRun(buf, hs, from, Len(hs)) /\ h \in Headers
    BY <1>2, <1>4, <1>5
  <2>2. HeadersRun(buf, Append(hs, h), from, Len(hs))
    BY <2>1, HeaderRunGoesOn
  <2>3. QED
    BY <1>6, <1>8, <2>2
<1>11. NameOpen(new, from)
  <2>1. new[Len(new)] = h /\ h.name[1] < h.name[2]
    BY <1>2, <1>4, <1>9
  <2>2. CASE n = 0
    <3>1. Len(new) = 1 /\ h.name[1] = from
      BY <1>2, <1>4, <1>5, <1>9, <2>2 DEF OrderEnd
    <3>2. QED
      BY <2>1, <3>1 DEF NameOpen
  <2>3. CASE n # 0
    <3>1. Len(new) # 1 /\ new[Len(new) - 1] = hs[n] /\ h.name[1] = hs[n].value[2] + 2
      BY <1>2, <1>4, <1>5, <1>8, <1>9, <2>3 DEF OrderEnd
    <3>2. QED
      BY <2>1, <3>1 DEF NameOpen
  <2>4. QED
    BY <2>2, <2>3
<1>12. OrderFirst' = from /\ LastName' = it' - 1 /\ Len(new) - 1 = n /\ buf' = buf
  <2>1. OrderFirst' = from
    BY <1>5, <1>7 DEF OrderFirst
  <2>2. LastName' = it
    BY <1>4, <1>6, <1>9 DEF LastName
  <2>3. QED
    BY <1>1, <1>9, <2>1, <2>2
<1>13. RequestLine'
  BY <1>7 DEF RequestFacts, RequestLine, InLine, InMethod
<1>14. RequestHeaders'
  BY <1>6, <1>9, <1>10, <1>11, <1>12 DEF RequestHeaders, InLine, InMethod, InName
<1>15. RequestContent'
  BY <1>7 DEF RequestFacts, RequestContent, InParts
<1>16. RequestParts'
  BY <1>7, NoParts DEF RequestFacts, RequestParts, InParts, InPart
<1>17. QED
  BY <1>13, <1>14, <1>15, <1>16 DEF RequestFacts

\* The header that is last with its value.
LEMMA ValueTaken ==
  ASSUME NEW hs \in Seq(Headers), hs # <<>>, NEW v \in Views, NEW n \in Nat, n = Len(hs)
  PROVE  /\ [hs EXCEPT ![n].value = v] \in Seq(Headers) /\ Len([hs EXCEPT ![n].value = v]) = n
         /\ [hs EXCEPT ![n].value = v] # <<>>
         /\ [hs EXCEPT ![n].value = v][n].name = hs[n].name
         /\ [hs EXCEPT ![n].value = v][n].value = v
         /\ \A i \in 1 .. n - 1 : [hs EXCEPT ![n].value = v][i] = hs[i]
<1>1. n # 0 /\ n \in 1 .. n
  BY EmptySeq
<1>2. PICK h : h = [hs[n] EXCEPT !.value = v]
  OBVIOUS
<1>3. hs[n] \in Headers
  BY <1>1, ElementOfSeq
<1>4. h \in Headers /\ h.name = hs[n].name /\ h.value = v
  BY <1>2, <1>3 DEF Headers
<1>5. PICK new : new = [hs EXCEPT ![n] = h]
  OBVIOUS
<1>6. new \in Seq(Headers) /\ Len(new) = n /\ new[n] = h /\ \A i \in 1 .. n - 1 : new[i] = hs[i]
  <2>1. new \in Seq(Headers) /\ Len(new) = n
    BY <1>1, <1>4, <1>5, ExceptSeq
  <2>2. DOMAIN hs = 1 .. n
    BY LenProperties
  <2>3. QED
    BY <1>1, <1>5, <2>1, <2>2
<1>7. new = [hs EXCEPT ![n].value = v]
  BY <1>2, <1>5
<1>8. new # <<>>
  BY <1>1, <1>6
<1>9. QED
  BY <1>4, <1>6, <1>7, <1>8

\* A header's value: the last header is open until its line feed.
LEMMA ValueRun ==
  ASSUME NEW b, NEW hs \in Seq(Headers), hs # <<>>, NEW v \in Views, NEW n \in Nat, n = Len(hs),
         NEW from, HeadersRun(b, hs, from, n - 1), NameOpen(hs, from),
         v[1] - hs[n].name[2] \in {1, 2}, v[1] < v[2], b[v[2]] = "CR",
         NEW new, new = [hs EXCEPT ![n].value = v]
  PROVE  HeadersRun(b, new, from, n - 1) /\ HeaderOpen(b, new, from)
<1>1. /\ Len(new) = n /\ new[n].name = hs[n].name /\ new[n].value = v
      /\ \A i \in 1 .. n - 1 : new[i] = hs[i]
  BY ValueTaken
<1>2. n # 0
  BY EmptySeq
<1>3. HeadersRun(b, new, from, n - 1)
  <2>1. SUFFICES ASSUME NEW i \in 1 .. n - 1
        PROVE  HeaderIs(b, new[i], IF i = 1 THEN from ELSE new[i - 1].value[2] + 2)
    BY DEF HeadersRun
  <2>2. HeaderIs(b, hs[i], IF i = 1 THEN from ELSE hs[i - 1].value[2] + 2)
    BY DEF HeadersRun
  <2>3. new[i] = hs[i] /\ (i # 1 => new[i - 1] = hs[i - 1])
    <3>1. i # 1 => i - 1 \in 1 .. n - 1
      OBVIOUS
    <3>2. QED
      BY <1>1, <3>1
  <2>4. QED
    BY <2>2, <2>3
<1>4. HeaderOpen(b, new, from)
  <2>1. n # 1 => new[n - 1] = hs[n - 1]
    <3>1. n # 1 => n - 1 \in 1 .. n - 1
      BY <1>2
    <3>2. QED
      BY <1>1, <3>1
  <2>2. QED
    BY <1>1, <2>1 DEF HeaderOpen, NameOpen
<1>5. QED
  BY <1>3, <1>4

\* The end of a header's value: one more header, whose line break is to come.
LEMMA RequestValueStep ==
  ASSUME RequestTypes, RequestFacts, it <= Len(buf), it' = it + 1, buf' = buf, buf[it] = "CR",
         state = "HeaderValueStart", state' = "Header_r", loc'.prev = loc.prev,
         NEW v \in Views, v[1] = loc.prev, v[2] = it,
         NEW n \in Nat, n = Len(out.headers), out'.headers = [out.headers EXCEPT ![n].value = v],
         out'.version = out.version, out'.method = out.method, out'.uri = out.uri,
         out'.content = out.content, out'.parts = out.parts,
         loc'.remaining = out'.contentSize, loc'.remaining \in 0 .. Wrap - 1,
         out'.multipart => /\ 1 <= out'.boundary[1] /\ out'.boundary[1] <= out'.boundary[2]
                           /\ out'.boundary[2] <= Len(buf) + 1
  PROVE  RequestFacts'
<1>1. /\ it \in Int /\ loc.prev \in Int /\ out.headers \in Seq(Headers) /\ it >= 1
      /\ out.parts = <<>> /\ loc.prev >= 1
  BY DEF RequestTypes, Orders, RequestFacts, RequestParts, InParts, OrderLocals
<1>2. /\ out.headers # <<>> /\ NameOpen(out.headers, OrderFirst)
      /\ loc.prev - LastName \in {1, 2} /\ loc.prev < it
      /\ HeadersRun(buf, out.headers, OrderFirst, Len(out.headers) - 1)
  BY DEF RequestFacts, RequestHeaders, InName
<1>3. PICK new : new = out'.headers
  OBVIOUS
<1>4. PICK hs \in Seq(Headers), from \in {OrderFirst} : hs = out.headers /\ from = OrderFirst
  BY <1>1
<1>5. HeadersRun(buf, new, from, n - 1) /\ HeaderOpen(buf, new, from)
  <2>1. /\ hs # <<>> /\ n = Len(hs) /\ HeadersRun(buf, hs, from, n - 1) /\ NameOpen(hs, from)
        /\ v[1] - hs[n].name[2] \in {1, 2} /\ v[1] < v[2] /\ buf[v[2]] = "CR"
        /\ new = [hs EXCEPT ![n].value = v]
    BY <1>2, <1>3, <1>4 DEF LastName
  <2>2. QED
    BY <2>1, ValueRun
<1>6. Len(new) = n /\ new # <<>> /\ new[n].value = v
  <2>1. hs # <<>> /\ n = Len(hs) /\ new = [hs EXCEPT ![n].value = v]
    BY <1>2, <1>3, <1>4
  <2>2. QED
    BY <2>1, ValueTaken
<1>7. OrderFirst' = from /\ OrderEnd' = it' + 1 /\ it' > 1 /\ buf' = buf
  <2>1. OrderFirst' = from
    BY <1>4 DEF OrderFirst
  <2>2. OrderEnd' = it + 2
    BY <1>3, <1>6 DEF OrderEnd
  <2>3. QED
    BY <1>1, <2>1, <2>2
<1>8. RequestLine'
  BY DEF RequestFacts, RequestLine, InLine, InMethod
<1>9. RequestHeaders'
  BY <1>3, <1>5, <1>6, <1>7 DEF RequestHeaders, InLine, InMethod, InName
<1>10. RequestContent'
  BY DEF RequestFacts, RequestContent, InParts
<1>11. RequestParts'
  BY <1>1, NoParts DEF RequestFacts, RequestParts, InParts, InPart
<1>12. QED
  BY <1>8, <1>9, <1>10, <1>11 DEF RequestFacts

\* What a sequence of parts with one more is.
LEMMA PartAppends ==
  ASSUME NEW ps \in Seq(Parts), NEW p \in Parts, NEW n \in Nat, n = Len(ps)
  PROVE  /\ Append(ps, p) \in Seq(Parts) /\ Len(Append(ps, p)) = n + 1
         /\ Append(ps, p) # <<>> /\ Append(ps, p)[n + 1] = p
         /\ \A i \in 1 .. n : Append(ps, p)[i] = ps[i]
         /\ (ps = <<>> <=> n = 0)
<1>1. PICK new : new = Append(ps, p)
  OBVIOUS
<1>2. /\ new \in Seq(Parts) /\ Len(new) = n + 1 /\ new[n + 1] = p
      /\ \A i \in 1 .. n : new[i] = ps[i]
  BY <1>1, AppendProperties
<1>3. ps = <<>> <=> n = 0
  BY EmptySeq
<1>4. new # <<>>
  BY <1>2, EmptySeq
<1>5. QED
  BY <1>1, <1>2, <1>3, <1>4

\* Parts lie where they lay when those behind them change.
LEMMA PartRunGoesOn ==
  ASSUME NEW b, NEW ps, NEW new, NEW from, NEW boundary, NEW n \in Nat,
         PartsRun(b, ps, from, boundary, n), \A i \in 1 .. n : new[i] = ps[i]
  PROVE  PartsRun(b, new, from, boundary, n)
<1>1. ASSUME NEW i \in 1 .. n PROVE PartIs(b, new[i], PartFrom(new, i, from), boundary)
  <2>1. PartIs(b, ps[i], PartFrom(ps, i, from), boundary)
    BY DEF PartsRun
  <2>2. new[i] = ps[i] /\ (i # 1 => i - 1 \in 1 .. n)
    OBVIOUS
  <2>3. PartFrom(new, i, from) = PartFrom(ps, i, from)
    BY <2>2 DEF PartFrom
  <2>4. QED
    BY <2>1, <2>2, <2>3
<1>2. QED
  BY <1>1 DEF PartsRun

\* The empty line behind a part's information.
LEMMA RequestInfoStep ==
  ASSUME RequestTypes, RequestFacts, it <= Len(buf), it' = it + 1, buf' = buf, loc' = loc,
         buf[it] = "CR", state = "PartInfo_rn", state' = "PartInfo_rnr",
         out' = [out EXCEPT !.parts = Append(@, [info |-> <<loc.prev, it - 2>>, data |-> Empty])]
  PROVE  RequestFacts'
<1>1. /\ out \in Orders /\ it \in Int /\ loc.prev \in Int /\ out.parts \in Seq(Parts)
      /\ out.multipart /\ Width \in Nat /\ PartsEnd \in Int
  BY OrderEnds, WidthIs DEF RequestTypes, Orders, RequestFacts, RequestParts, InParts
<1>2. /\ loc.prev = PartsEnd + 4 + Width /\ it > 2 /\ buf[it - 2] = "CR" /\ buf[it - 1] = "LF"
      /\ PartsRun(buf, out.parts, Body, out.boundary, Len(out.parts))
  BY DEF RequestFacts, RequestParts, InPart
<1>3. PICK p : p = [info |-> <<loc.prev, it - 2>>, data |-> Empty]
  OBVIOUS
<1>4. p \in Parts /\ p.info[1] = loc.prev /\ p.info[2] = it - 2
  BY <1>1, <1>3 DEF Parts, Views, Empty
<1>5. PICK ps \in Seq(Parts), from \in {Body} : ps = out.parts /\ from = Body
  BY <1>1
<1>6. PICK new : new = Append(ps, p) /\ out'.parts = new
  BY <1>1, <1>3, <1>5 DEF Orders
<1>7. /\ out'.version = out.version /\ out'.method = out.method /\ out'.uri = out.uri
      /\ out'.content = out.content /\ out'.contentSize = out.contentSize
      /\ out'.multipart = out.multipart /\ out'.boundary = out.boundary
      /\ out'.headers = out.headers
  BY <1>1 DEF Orders
<1>8. PICK n \in Nat : n = Len(ps)
  BY LenProperties
<1>9. /\ Len(new) = n + 1 /\ new # <<>> /\ new[n + 1] = p
      /\ (\A i \in 1 .. n : new[i] = ps[i])
      /\ (n # 0 => new[n] = ps[n]) /\ (ps = <<>> <=> n = 0)
  <2>1. n # 0 => n \in 1 .. n
    OBVIOUS
  <2>2. p \in Parts
    BY <1>4
  <2>3. /\ Len(Append(ps, p)) = n + 1
        /\ Append(ps, p) # <<>> /\ Append(ps, p)[n + 1] = p
        /\ \A i \in 1 .. n : Append(ps, p)[i] = ps[i]
        /\ (ps = <<>> <=> n = 0)
    BY <1>8, <2>2, PartAppends
  <2>4. QED
    BY <1>6, <2>1, <2>3
<1>10. PartsRun(buf, new, from, out.boundary, n)
  <2>1. PartsRun(buf, ps, from, out.boundary, n)
    BY <1>2, <1>5, <1>8
  <2>2. QED
    BY <1>9, <2>1, PartRunGoesOn
<1>11. /\ OrderFirst' = OrderFirst /\ OrderEnd' = OrderEnd /\ Body' = from /\ Width' = Width
       /\ LastName' = LastName /\ buf' = buf
  BY <1>5, <1>7 DEF OrderFirst, OrderEnd, Body, Width, LastName
<1>12. LastFrom' = PartsEnd
  <2>1. LastFrom' = PartFrom(new, n + 1, from)
    BY <1>6, <1>9, <1>11 DEF LastFrom
  <2>2. CASE n = 0
    BY <1>5, <1>9, <2>1, <2>2 DEF PartFrom, PartsEnd
  <2>3. CASE n # 0
    <3>1. n + 1 # 1 /\ (n + 1) - 1 = n
      BY <2>3
    <3>2. PartsEnd = ps[n].data[2] + 2
      BY <1>5, <1>8, <1>9, <2>3 DEF PartsEnd
    <3>3. QED
      BY <1>9, <2>1, <2>3, <3>1, <3>2 DEF PartFrom
  <2>4. QED
    BY <2>2, <2>3
<1>13. /\ it' > 3 /\ buf'[it' - 3] = "CR" /\ buf'[it' - 2] = "LF" /\ buf'[it' - 1] = "CR"
       /\ LastInfo' = it' - 3 /\ out'.parts[Len(out'.parts)].info[1] = LastFrom' + 4 + Width'
  <2>1. it' - 1 = it /\ it' - 2 = it - 1 /\ it' - 3 = it - 2
    <3>1. PICK i \in Int : i = it /\ it' = i + 1
      BY <1>1
    <3>2. (i + 1) - 1 = i /\ (i + 1) - 2 = i - 1 /\ (i + 1) - 3 = i - 2
      OBVIOUS
    <3>3. QED
      BY <3>1, <3>2
  <2>2. LastInfo' = it - 2 /\ out'.parts[Len(out'.parts)] = p
    BY <1>4, <1>6, <1>9 DEF LastInfo
  <2>3. out'.parts[Len(out'.parts)].info[1] = LastFrom' + 4 + Width'
    BY <1>2, <1>4, <1>11, <1>12, <2>2
  <2>4. LastInfo' = it' - 3 /\ it' > 3
    BY <1>1, <1>2, <2>1, <2>2
  <2>5. QED
    BY <1>2, <2>1, <2>3, <2>4
<1>14. RequestLine'
  BY <1>7 DEF RequestFacts, RequestLine, InLine, InMethod
<1>15. RequestHeaders'
  BY <1>7, <1>11 DEF RequestFacts, RequestHeaders, InLine, InMethod, InName
<1>16. RequestContent'
  BY <1>7 DEF RequestFacts, RequestContent, InParts
<1>17. RequestParts'
  <2>1. Len(new) - 1 = n
    BY <1>9
  <2>2. PartsRun(buf, out.parts, Body, out.boundary, Len(out.parts) - 1)'
    BY <1>6, <1>7, <1>10, <1>11, <2>1
  <2>3. out'.multipart /\ 1 <= out'.boundary[1] /\ out'.boundary[1] <= out'.boundary[2]
        /\ out'.boundary[2] <= Len(buf') + 1 /\ out'.parts # <<>>
    BY <1>1, <1>6, <1>7, <1>9 DEF RequestFacts, RequestParts
  <2>4. QED
    BY <1>13, <2>2, <2>3 DEF RequestParts, InParts, InPart
<1>18. QED
  BY <1>14, <1>15, <1>16, <1>17 DEF RequestFacts

\* Counting down modulo w.
LEMMA CountDown ==
  ASSUME NEW w \in Nat, w > 0
  PROVE  /\ \A k \in 0 .. w - 1 : k % w = k
         /\ (-1) % w = w - 1 /\ \A k \in Int : k % w \in 0 .. w - 1
  OBVIOUS

\* A view's text is as long as the view.
LEMMA ViewLength ==
  ASSUME NEW b \in Seq(Symbols), NEW p \in Int, NEW q \in Int, 1 <= p, p <= q, q <= Len(b) + 1,
         NEW t, Text(b, <<p, q>>) = t
  PROVE  Len(t) = q - p
  BY TextIs

\* The word before a request's version.
LEMMA RequestHttpStep ==
  ASSUME RequestTypes, RequestFacts, it <= Len(buf), it' = it + 1, buf' = buf, loc' = loc,
         out' = out, state = "HttpStart", state' = "HttpEnd",
         Text(buf, <<loc.prev, it>>) = <<"H", "T", "T", "P">>
  PROVE  RequestFacts'
<1>1. /\ loc.prev \in Int /\ it \in Int /\ 1 <= loc.prev /\ loc.prev <= it /\ it <= Len(buf) + 1
      /\ buf \in Seq(Symbols) /\ Len(buf) \in Nat /\ out.uri[2] \in Int
  <2>1. buf \in Seq(Symbols) /\ it \in 1 .. Len(buf) + 1 /\ loc.prev \in 1 .. it
    BY DEF RequestTypes
  <2>2. Len(buf) \in Nat
    BY <2>1, LenProperties
  <2>3. out.uri[2] \in Int
    BY OrderEnds
  <2>4. QED
    BY <2>1, <2>2, <2>3
<1>2. PICK p \in Int, q \in Int : p = loc.prev /\ q = it
  BY <1>1
<1>3. it - loc.prev = 4
  <2>1. Text(buf, <<p, q>>) = <<"H", "T", "T", "P">> /\ 1 <= p /\ p <= q /\ q <= Len(buf) + 1
    BY <1>1, <1>2
  <2>2. Len(<<"H", "T", "T", "P">>) = q - p
    BY <1>1, <2>1, ViewLength
  <2>3. QED
    BY <1>2, <2>2
<1>4. it' = out.uri[2] + 6
  <2>1. PICK u \in Int : u = out.uri[2]
    BY <1>1
  <2>2. loc.prev = u + 1
    BY <2>1 DEF RequestFacts, RequestLine
  <2>3. PICK i \in Int : i = it /\ it' = i + 1
    BY <1>1
  <2>4. i = u + 5
    BY <1>2, <1>3, <2>2, <2>3
  <2>5. QED
    BY <2>1, <2>3, <2>4
<1>5. /\ OrderFirst' = OrderFirst /\ OrderEnd' = OrderEnd /\ Body' = Body /\ Width' = Width
      /\ PartsEnd' = PartsEnd /\ LastName' = LastName
      /\ LastInfo' = LastInfo /\ LastFrom' = LastFrom
  BY OrderUnmoved
<1>6. RequestLine'
  BY <1>4 DEF RequestFacts, RequestLine, InLine, InMethod
<1>7. RequestHeaders'
  BY <1>5 DEF RequestFacts, RequestHeaders, InLine, InMethod, InName
<1>8. RequestContent' /\ RequestParts'
  BY <1>5 DEF RequestFacts, RequestContent, RequestParts, InParts, InPart
<1>9. QED
  BY <1>6, <1>7, <1>8 DEF RequestFacts

\* The empty line behind the headers.
LEMMA RequestEndStep ==
  ASSUME RequestTypes, RequestFacts, it' = it + 1, buf' = buf, loc' = loc, out' = out,
         state = "Header_rnr", state' \in {"Completed", "Header_rnrn"}
  PROVE  RequestFacts'
<1>1. it \in Int /\ OrderEnd \in Int
  BY OrderEnds DEF RequestTypes
<1>2. /\ OrderFirst' = OrderFirst /\ OrderEnd' = OrderEnd /\ Body' = Body /\ Width' = Width
      /\ PartsEnd' = PartsEnd /\ LastName' = LastName
      /\ LastInfo' = LastInfo /\ LastFrom' = LastFrom
  BY OrderUnmoved
<1>3. RequestLine' /\ RequestHeaders'
  BY <1>1, <1>2 DEF RequestFacts, RequestLine, RequestHeaders, InLine, InMethod, InName
<1>4. RequestContent' /\ RequestParts'
  BY <1>1, <1>2 DEF RequestFacts, RequestContent, RequestParts, InParts, InPart
<1>5. QED
  BY <1>3, <1>4 DEF RequestFacts

\* The first character behind the headers, where no body begins that is counted.
LEMMA RequestBodyStep ==
  ASSUME RequestTypes, RequestFacts, it' = it + 1, buf' = buf, out' = out, state = "Header_rnrn",
         \/ state' = "Completed"
         \/ state' = "MultipartDataStart" /\ out.multipart
  PROVE  RequestFacts'
<1>1. it \in Int /\ OrderEnd \in Int
  BY OrderEnds DEF RequestTypes
<1>2. /\ OrderFirst' = OrderFirst /\ OrderEnd' = OrderEnd /\ Body' = Body /\ Width' = Width
      /\ PartsEnd' = PartsEnd /\ LastName' = LastName
      /\ LastInfo' = LastInfo /\ LastFrom' = LastFrom
  BY OrderUnmoved
<1>3. it = Body /\ it' = Body' + 1
  BY <1>1, <1>2 DEF Body, RequestFacts, RequestHeaders
<1>4. RequestLine' /\ RequestHeaders'
  BY <1>1, <1>2 DEF RequestFacts, RequestLine, RequestHeaders, InLine, InMethod, InName
<1>5. RequestContent' /\ RequestParts'
  BY <1>1, <1>2, <1>3 DEF RequestFacts, RequestContent, RequestParts, InParts, InPart
<1>6. QED
  BY <1>4, <1>5 DEF RequestFacts

\* A body that is counted, one character at a time.
LEMMA RequestCountStep ==
  ASSUME RequestTypes, RequestFacts, it <= Len(buf), it' = it + 1, buf' = buf,
         Wrap \in Nat, NEW first \in Int, NEW left \in Int, first <= it,
         \/ state = "Header_rnrn" /\ first = it /\ left = (loc.remaining - 1) % Wrap
         \/ state = "PostDataStart" /\ first = loc.prev /\ left = (loc.remaining - 1) % Wrap,
         loc' \in OrderLocals, loc'.prev = first, loc'.remaining = left,
         \/ /\ left = 0 /\ state' = "Completed"
            /\ out' = [out EXCEPT !.content = <<first, it + 1>>]
         \/ left # 0 /\ state' = "PostDataStart" /\ out' = out
  PROVE  RequestFacts'
<1>1. /\ it \in Int /\ OrderEnd \in Int /\ out \in Orders /\ Len(buf) < Wrap /\ it >= 1
      /\ Len(buf) \in Nat /\ out.contentSize \in Int /\ loc.remaining \in Int /\ loc.prev \in Int
  BY OrderEnds, LenProperties DEF RequestTypes
<1>2. PICK total \in Int : total = IF out.contentSize = 0 THEN Wrap ELSE out.contentSize
  BY <1>1
<1>13. Wrap > 0
  BY <1>1
<1>14. (\A k \in 0 .. Wrap - 1 : k % Wrap = k) /\ (-1) % Wrap = Wrap - 1
  BY <1>13, CountDown
<1>3. /\ first = Body /\ left = total - (it' - first) /\ left \in 0 .. Wrap - 1
  <2>1. CASE state = "Header_rnrn" /\ first = it
    <3>1. it = Body
      BY <2>1 DEF RequestFacts, RequestHeaders, Body
    <3>2. loc.remaining = out.contentSize /\ loc.remaining \in 0 .. Wrap - 1
      BY <2>1 DEF RequestFacts, RequestContent, InParts
    <3>3. left = total - 1 /\ left \in 0 .. Wrap - 1
      <4>1. CASE out.contentSize = 0
        <5>1. loc.remaining - 1 = -1
          BY <3>2, <4>1
        <5>2. left = Wrap - 1
          BY <1>14, <2>1, <5>1
        <5>3. QED
          BY <1>2, <1>13, <4>1, <5>2
      <4>2. CASE out.contentSize # 0
        <5>1. PICK k \in 0 .. Wrap - 1 : k = loc.remaining - 1
          BY <3>2, <4>2
        <5>2. left = k
          BY <1>14, <2>1, <5>1
        <5>3. QED
          BY <1>1, <1>2, <3>2, <4>2, <5>1, <5>2
      <4>3. QED
        BY <4>1, <4>2
    <3>4. QED
      BY <1>1, <1>2, <2>1, <3>1, <3>3
  <2>2. CASE state = "PostDataStart" /\ first = loc.prev
    <3>1. /\ loc.prev = Body /\ loc.remaining \in 1 .. Wrap - 1
          /\ loc.remaining = total - (it - loc.prev)
      BY <1>2, <2>2 DEF RequestFacts, RequestContent
    <3>2. PICK k \in 0 .. Wrap - 1 : k = loc.remaining - 1
      BY <3>1
    <3>3. left = k
      BY <1>14, <2>2, <3>2
    <3>4. left = total - (it' - first)
      BY <1>1, <2>2, <3>1, <3>2, <3>3
    <3>5. QED
      BY <2>2, <3>1, <3>2, <3>3, <3>4
  <2>3. QED
    BY <2>1, <2>2
<1>4. first >= 1
  BY <1>1 DEF RequestTypes
<1>5. /\ out'.version = out.version /\ out'.method = out.method /\ out'.uri = out.uri
      /\ out'.contentSize = out.contentSize /\ out'.multipart = out.multipart
      /\ out'.boundary = out.boundary /\ out'.headers = out.headers /\ out'.parts = out.parts
  BY <1>1 DEF Orders
<1>6. out.parts = <<>> /\ out.content = Empty
  BY DEF RequestFacts, RequestContent, RequestParts, InParts
<1>7. /\ OrderFirst' = OrderFirst /\ OrderEnd' = OrderEnd /\ Body' = Body /\ buf' = buf
  BY <1>5 DEF OrderFirst, OrderEnd, Body
<1>8. RequestLine'
  BY <1>5 DEF RequestFacts, RequestLine, InLine, InMethod
<1>9. RequestHeaders'
  BY <1>5, <1>7 DEF RequestFacts, RequestHeaders, InLine, InMethod, InName
<1>10. RequestParts'
  BY <1>5, <1>6, NoParts DEF RequestFacts, RequestParts, InParts, InPart
<1>11. RequestContent'
  <2>0. PICK i \in Int, len \in Nat, size \in Int :
          i = it /\ it' = i + 1 /\ len = Len(buf) /\ i <= len /\ size = out.contentSize
    BY <1>1
  <2>1. CASE left = 0
    <3>1. out'.content[1] = first /\ out'.content[2] = it'
      <4>0. <<first, it + 1>>[1] = first /\ <<first, it + 1>>[2] = it + 1
        OBVIOUS
      <4>1. PICK v : v = <<first, it + 1>> /\ v[1] = first /\ v[2] = it + 1
        BY <4>0
      <4>2. out' = [out EXCEPT !.content = v]
        BY <2>1, <4>1
      <4>3. out'.content = v
        BY <1>1, <4>2 DEF Orders
      <4>4. QED
        BY <2>0, <4>1, <4>3
    <3>2. total = (i + 1) - first
      BY <1>3, <2>0, <2>1
    <3>3. out.contentSize # 0
      <4>1. len < Wrap /\ first >= 1
        BY <1>1, <1>4, <2>0
      <4>2. total # Wrap
        BY <2>0, <3>2, <4>1
      <4>3. QED
        BY <1>2, <4>2
    <3>4. total = size /\ size = out'.contentSize
      BY <1>2, <1>5, <2>0, <3>3
    <3>6. i + 1 = first + size /\ i + 1 <= len + 1
      BY <2>0, <3>2, <3>4
    <3>7. it' = first + out'.contentSize /\ it' <= Len(buf') + 1
      BY <1>7, <2>0, <3>4, <3>6
    <3>5. QED
      BY <1>3, <1>7, <2>1, <3>1, <3>7 DEF RequestContent, InParts
  <2>2. CASE left # 0
    <3>1. /\ loc'.prev = Body' /\ loc'.prev < it' /\ loc'.remaining \in 1 .. Wrap - 1
          /\ loc'.remaining =
               (IF out'.contentSize = 0 THEN Wrap ELSE out'.contentSize) - (it' - loc'.prev)
      <4>1. loc'.prev = Body' /\ loc'.prev = first /\ first < i + 1
        BY <1>3, <1>7, <2>0
      <4>2. loc'.remaining = left /\ left \in 1 .. Wrap - 1 /\ left = total - ((i + 1) - first)
        BY <1>3, <2>0, <2>2
      <4>3. total = IF out'.contentSize = 0 THEN Wrap ELSE out'.contentSize
        BY <1>2, <1>5, <2>2
      <4>4. QED
        BY <2>0, <4>1, <4>2, <4>3
    <3>2. QED
      BY <1>6, <2>2, <3>1 DEF RequestContent, InParts
  <2>3. QED
    BY <2>1, <2>2
<1>12. QED
  BY <1>8, <1>9, <1>10, <1>11 DEF RequestFacts

\* The end of the first boundary.
LEMMA RequestBoundaryStep ==
  ASSUME RequestTypes, RequestFacts, it <= Len(buf), it' = it + 1, buf' = buf, loc' = loc,
         out' = out, state = "BoundaryMatchStart", state' = "BoundaryMatch_r",
         Text(buf, <<loc.prev, it>>) = Text(buf, out.boundary)
  PROVE  RequestFacts'
<1>1. /\ loc.prev \in Int /\ it \in Int /\ 1 <= loc.prev /\ loc.prev <= it /\ it <= Len(buf) + 1
      /\ buf \in Seq(Symbols) /\ Len(buf) \in Nat /\ Body \in Int
  BY LenProperties, OrderEnds DEF RequestTypes
<1>2. PICK p \in Int, q \in Int : p = loc.prev /\ q = it
  BY <1>1
<1>3. it - loc.prev = Width
  <2>1. PICK t : t = Text(buf, out.boundary)
    OBVIOUS
  <2>2. Text(buf, <<p, q>>) = t /\ 1 <= p /\ p <= q /\ q <= Len(buf) + 1
    BY <1>1, <1>2, <2>1
  <2>3. Len(t) = q - p
    BY <1>1, <2>2, ViewLength
  <2>4. QED
    BY <1>2, <2>1, <2>3 DEF Width
<1>4. out.parts = <<>> /\ loc.prev = Body + 2 /\ out.multipart
  BY DEF RequestFacts, RequestParts, InParts
<1>5. /\ OrderFirst' = OrderFirst /\ OrderEnd' = OrderEnd /\ Body' = Body /\ Width' = Width
      /\ PartsEnd' = PartsEnd /\ LastName' = LastName
      /\ LastInfo' = LastInfo /\ LastFrom' = LastFrom
  BY OrderUnmoved
<1>6. PartsEnd = Body
  BY <1>4 DEF PartsEnd
<1>7. it' = PartsEnd + 3 + Width
  BY <1>1, <1>3, <1>4, <1>6
<1>8. RequestLine' /\ RequestHeaders'
  BY <1>5 DEF RequestFacts, RequestLine, RequestHeaders, InLine, InMethod, InName
<1>9. RequestContent'
  BY <1>5 DEF RequestFacts, RequestContent, InParts
<1>10. RequestParts'
  BY <1>5, <1>7 DEF RequestFacts, RequestParts, InParts, InPart
<1>11. QED
  BY <1>8, <1>9, <1>10 DEF RequestFacts

\* The part that is last with its data.
LEMMA DataTaken ==
  ASSUME NEW ps \in Seq(Parts), ps # <<>>, NEW v \in Views, NEW n \in Nat, n = Len(ps)
  PROVE  /\ [ps EXCEPT ![n].data = v] \in Seq(Parts) /\ Len([ps EXCEPT ![n].data = v]) = n
         /\ [ps EXCEPT ![n].data = v] # <<>>
         /\ [ps EXCEPT ![n].data = v][n].info = ps[n].info
         /\ [ps EXCEPT ![n].data = v][n].data = v
         /\ \A i \in 1 .. n - 1 : [ps EXCEPT ![n].data = v][i] = ps[i]
<1>1. n # 0 /\ n \in 1 .. n
  BY EmptySeq
<1>2. PICK p : p = [ps[n] EXCEPT !.data = v]
  OBVIOUS
<1>3. ps[n] \in Parts
  BY <1>1, ElementOfSeq
<1>4. p \in Parts /\ p.info = ps[n].info /\ p.data = v
  BY <1>2, <1>3 DEF Parts
<1>5. PICK new : new = [ps EXCEPT ![n] = p]
  OBVIOUS
<1>6. new \in Seq(Parts) /\ Len(new) = n /\ new[n] = p /\ \A i \in 1 .. n - 1 : new[i] = ps[i]
  <2>1. new \in Seq(Parts) /\ Len(new) = n
    BY <1>1, <1>4, <1>5, ExceptSeq
  <2>2. DOMAIN ps = 1 .. n
    BY LenProperties
  <2>3. QED
    BY <1>1, <1>5, <2>1, <2>2
<1>7. new = [ps EXCEPT ![n].data = v]
  BY <1>2, <1>5
<1>8. new # <<>>
  BY <1>1, <1>6
<1>9. QED
  BY <1>4, <1>6, <1>7, <1>8

\* A part's data: the boundary is found behind it.
LEMMA DataRun ==
  ASSUME NEW b, NEW ps \in Seq(Parts), ps # <<>>, NEW v \in Views, NEW n \in Nat, n = Len(ps),
         NEW from, NEW boundary, PartsRun(b, ps, from, boundary, n - 1),
         PartOpen(b, ps[n], PartFrom(ps, n, from), boundary), v[1] = ps[n].info[2] + 4,
         Text(b, <<v[2] + 4, v[2] + 4 + Len(Text(b, boundary))>>) = Text(b, boundary),
         NEW new, new = [ps EXCEPT ![n].data = v]
  PROVE  PartsRun(b, new, from, boundary, n)
<1>1. /\ Len(new) = n /\ new[n].info = ps[n].info /\ new[n].data = v
      /\ \A i \in 1 .. n - 1 : new[i] = ps[i]
  BY DataTaken
<1>2. n # 0
  BY EmptySeq
<1>3. PartsRun(b, new, from, boundary, n - 1)
  <2>1. PICK m \in Nat : m = n - 1
    BY <1>2
  <2>2. PICK q : q = new
    OBVIOUS
  <2>3. PartsRun(b, ps, from, boundary, m)
    BY <2>1
  <2>4. \A i \in 1 .. m : q[i] = ps[i]
    BY <1>1, <2>1, <2>2
  <2>5. PartsRun(b, q, from, boundary, m)
    BY <2>3, <2>4, PartRunGoesOn
  <2>6. QED
    BY <2>1, <2>2, <2>5
<1>4. PartIs(b, new[n], PartFrom(new, n, from), boundary)
  <2>1. PartFrom(new, n, from) = PartFrom(ps, n, from)
    <3>1. n # 1 => n - 1 \in 1 .. n - 1
      BY <1>2
    <3>2. QED
      BY <1>1, <3>1 DEF PartFrom
  <2>2. PartOpen(b, new[n], PartFrom(new, n, from), boundary)
    BY <1>1, <2>1 DEF PartOpen
  <2>3. QED
    BY <1>1, <2>2 DEF PartIs
<1>5. \A i \in 1 .. n : i = n \/ i \in 1 .. n - 1
  OBVIOUS
<1>6. QED
  BY <1>3, <1>4, <1>5 DEF PartsRun

\* A boundary behind a part's data.
LEMMA RequestPartStep ==
  ASSUME RequestTypes, RequestFacts, it <= Len(buf), it' = it + 1, buf' = buf, loc' = loc,
         state = "PartBodyStart", NEW end \in Int, NEW n \in Nat, n = Len(out.parts),
         Text(buf, <<end + 4, end + 4 + Width>>) = Text(buf, out.boundary),
         out' = [out EXCEPT !.parts[n].data = <<loc.prev, end>>],
         \/ state' = "BoundaryMatch_r" /\ it = end + 4 + Width
         \/ state' = "LastBoundaryMatch"
  PROVE  RequestFacts'
<1>1. /\ out \in Orders /\ it \in Int /\ loc.prev \in Int /\ out.parts \in Seq(Parts)
      /\ out.multipart /\ Width \in Nat
  BY OrderEnds, WidthIs DEF RequestTypes, Orders, RequestFacts, RequestParts, InParts
<1>2. /\ loc.prev = LastInfo + 4 /\ out.parts # <<>>
      /\ PartOpen(buf, out.parts[Len(out.parts)], LastFrom, out.boundary)
      /\ PartsRun(buf, out.parts, Body, out.boundary, Len(out.parts) - 1)
  BY DEF RequestFacts, RequestParts, InPart
<1>3. PICK v : v = <<loc.prev, end>>
  OBVIOUS
<1>4. v \in Views /\ v[1] = loc.prev /\ v[2] = end
  BY <1>1, <1>3 DEF Views
<1>5. PICK ps \in Seq(Parts), from \in {Body} : ps = out.parts /\ from = Body
  BY <1>1
<1>6. PICK new : new = [ps EXCEPT ![n].data = v] /\ out'.parts = new
  BY <1>1, <1>3, <1>5 DEF Orders
<1>7. /\ out'.version = out.version /\ out'.method = out.method /\ out'.uri = out.uri
      /\ out'.content = out.content /\ out'.contentSize = out.contentSize
      /\ out'.multipart = out.multipart /\ out'.boundary = out.boundary
      /\ out'.headers = out.headers
  BY <1>1 DEF Orders
<1>8. n = Len(ps) /\ ps # <<>> /\ PartOpen(buf, ps[n], PartFrom(ps, n, from), out.boundary)
      /\ PartsRun(buf, ps, from, out.boundary, n - 1) /\ v[1] = ps[n].info[2] + 4
  BY <1>2, <1>4, <1>5 DEF LastFrom, LastInfo
<1>9. PartsRun(buf, new, from, out.boundary, n)
  <2>1. Text(buf, <<v[2] + 4, v[2] + 4 + Len(Text(buf, out.boundary))>>) = Text(buf, out.boundary)
    BY <1>4 DEF Width
  <2>2. QED
    BY <1>4, <1>6, <1>8, <2>1, DataRun
<1>10. Len(new) = n /\ new # <<>> /\ new[n].data = v
  BY <1>4, <1>6, <1>8, DataTaken
<1>11. /\ OrderFirst' = OrderFirst /\ OrderEnd' = OrderEnd /\ Body' = from /\ Width' = Width
       /\ LastName' = LastName /\ buf' = buf
  BY <1>5, <1>7 DEF OrderFirst, OrderEnd, Body, Width, LastName
<1>12. PartsEnd' = end + 2
  BY <1>4, <1>6, <1>10 DEF PartsEnd
<1>13. state' = "BoundaryMatch_r" => it' = PartsEnd' + 3 + Width'
  BY <1>1, <1>11, <1>12
<1>14. RequestLine'
  BY <1>7 DEF RequestFacts, RequestLine, InLine, InMethod
<1>15. RequestHeaders'
  BY <1>7, <1>11 DEF RequestFacts, RequestHeaders, InLine, InMethod, InName
<1>16. RequestContent'
  BY <1>7 DEF RequestFacts, RequestContent, InParts
<1>17. RequestParts'
  <2>1. PartsRun(buf, out.parts, Body, out.boundary, Len(out.parts))'
    BY <1>6, <1>7, <1>9, <1>10, <1>11
  <2>2. /\ out'.multipart /\ 1 <= out'.boundary[1] /\ out'.boundary[1] <= out'.boundary[2]
        /\ out'.boundary[2] <= Len(buf') + 1
    BY <1>1, <1>7, <1>11 DEF RequestFacts, RequestParts
  <2>3. QED
    BY <1>13, <2>1, <2>2 DEF RequestParts, InParts, InPart
<1>18. QED
  BY <1>14, <1>15, <1>16, <1>17 DEF RequestFacts

\* A line break in a part's data.
LEMMA RequestDataStep ==
  ASSUME RequestTypes, RequestFacts, it' = it + 1, buf' = buf, loc' = loc, out' = out,
         state = "PartBodyStart", state' = state
  PROVE  RequestFacts'
<1>1. /\ OrderFirst' = OrderFirst /\ OrderEnd' = OrderEnd /\ Body' = Body /\ Width' = Width
      /\ PartsEnd' = PartsEnd /\ LastName' = LastName
      /\ LastInfo' = LastInfo /\ LastFrom' = LastFrom
  BY OrderUnmoved
<1>2. RequestLine' /\ RequestHeaders'
  BY <1>1 DEF RequestFacts, RequestLine, RequestHeaders, InLine, InMethod, InName
<1>3. RequestContent' /\ RequestParts'
  BY <1>1 DEF RequestFacts, RequestContent, RequestParts, InParts, InPart
<1>4. QED
  BY <1>2, <1>3 DEF RequestFacts

\* The request parser has operators of HttpText of its own: they are the same.
LEMMA SameRequestText ==
  /\ Rq!Digit = Digit /\ Rq!Empty = Empty /\ Rq!Verdicts = Verdicts
  /\ \A b, v : Rq!Text(b, v) = Text(b, v)
  BY DEF Rq!HexDigit, HexDigit, Rq!Digit, Digit, Rq!Empty, Empty, Rq!Text, Text, Rq!Verdicts,
         Verdicts

\* Its atoi is the same too.
LEMMA SameRequestNumber == \A t, d, b : Rq!Number(t, d, b) = Number(t, d, b)
<1>1. \A S : Rq!Min(S) = Min(S)
  BY DEF Rq!Min, Min
<1>2. \A t, on : Rq!Leading(t, on) = Leading(t, on)
  BY <1>1 DEF Rq!Leading, Leading, Rq!SelectInSeq, SelectInSeq
<1>3. \A s, t : Rq!IsPrefix(s, t) = IsPrefix(s, t)
  BY DEF Rq!IsPrefix, IsPrefix
<1>4. Rq!Value = Value
  BY DEF Rq!Value, Value, Rq!HexDigit, HexDigit, Rq!Digit, Digit
<1>5. \A d, b, v : Rq!Positional(d, b, v) = Positional(d, b, v)
  BY DEF Rq!Positional, Positional
<1>6. QED
  BY <1>2, <1>3, <1>4, <1>5 DEF Rq!Number, Number

\* Where the word of a multipart type is in a value, if it is there.
LEMMA TagIs ==
  ASSUME NEW t \in Seq(Symbols)
  PROVE  Rq!SelectInSeq(t, LAMBDA c : c = "multipart-boundary") \in 0 .. Len(t)
<1>1. Len(t) \in Nat
  BY LenProperties
<1> DEFINE I == {i \in 1 .. Len(t) : t[i] = "multipart-boundary"}
<1>2. CASE I = {}
  BY <1>1, <1>2 DEF Rq!SelectInSeq
<1>3. CASE I # {}
  <2>1. PICK m : m = Rq!Min(I)
    OBVIOUS
  <2>2. PICK k \in I : \A j \in I : k <= j
    <3>1. I \subseteq Nat
      BY <1>1
    <3> HIDE DEF I
    <3>2. QED
      BY <1>3, <3>1, LeastElement
  <2>3. m \in I
    BY <2>1, <2>2 DEF Rq!Min
  <2>4. Rq!SelectInSeq(t, LAMBDA c : c = "multipart-boundary") = m
    BY <1>3, <2>1 DEF Rq!SelectInSeq
  <2>5. QED
    BY <1>1, <2>3, <2>4
<1>4. QED
  BY <1>2, <1>3

\* What the end of a header's value does to the request.
LEMMA ValueDoes ==
  ASSUME RequestTypes, RequestFacts, Wrap \in Nat, it <= Len(buf), state = "HeaderValueStart",
         Rq!TakeValue, NEW n \in Nat, n = Len(out.headers), NEW v \in Views, v = <<loc.prev, it>>
  PROVE  /\ out' \in Orders /\ loc' \in OrderLocals /\ loc'.prev = loc.prev
         /\ out'.headers = [out.headers EXCEPT ![n].value = v]
         /\ out'.version = out.version /\ out'.method = out.method /\ out'.uri = out.uri
         /\ out'.content = out.content /\ out'.parts = out.parts
         /\ loc'.remaining = out'.contentSize /\ loc'.remaining \in 0 .. Wrap - 1
         /\ out'.multipart => /\ 1 <= out'.boundary[1] /\ out'.boundary[1] <= out'.boundary[2]
                              /\ out'.boundary[2] <= Len(buf) + 1
         /\ \/ out'.multipart = out.multipart /\ out'.boundary = out.boundary
            \/ out'.boundary[2] = it
<1>1. /\ out \in Orders /\ loc \in OrderLocals /\ it \in Int /\ loc.prev \in Int /\ 1 <= loc.prev
      /\ loc.prev <= it /\ Len(buf) \in Nat /\ Len(buf) < Wrap /\ out.headers \in Seq(Headers)
      /\ buf \in Seq(Symbols)
  BY LenProperties DEF RequestTypes, Orders, OrderLocals
<1>2. /\ out.headers # <<>> /\ loc.remaining = out.contentSize /\ loc.remaining \in 0 .. Wrap - 1
      /\ out.multipart => /\ 1 <= out.boundary[1] /\ out.boundary[1] <= out.boundary[2]
                          /\ out.boundary[2] <= Len(buf) + 1
  BY DEF RequestFacts, RequestHeaders, RequestContent, RequestParts, InName, InParts
<1>3. PICK new \in Seq(Headers) : new = [out.headers EXCEPT ![n].value = v]
  <2>1. PICK hs \in Seq(Headers) : hs = out.headers
    BY <1>1
  <2>2. [hs EXCEPT ![n].value = v] \in Seq(Headers)
    BY <1>2, <2>1, ValueTaken
  <2>3. QED
    BY <2>1, <2>2
<1>4. PICK value \in Seq(Symbols) : value = Text(buf, v) /\ Len(value) = it - loc.prev
  <2>1. PICK p \in Int, q \in Int : p = loc.prev /\ q = it
    BY <1>1
  <2>2. 1 <= p /\ p <= q /\ q <= Len(buf) + 1
    BY <1>1, <2>1
  <2>3. Text(buf, <<p, q>>) \in Seq(Symbols) /\ Len(Text(buf, <<p, q>>)) = q - p
    BY <1>1, <2>2, TextIs
  <2>4. QED
    BY <2>1, <2>3
<1>5. PICK tag : tag = Rq!SelectInSeq(value, LAMBDA c : c = "multipart-boundary")
  OBVIOUS
<1>6. tag \in Int /\ 0 <= tag /\ tag <= it - loc.prev
  <2>1. tag \in 0 .. Len(value)
    BY <1>5, TagIs
  <2>2. QED
    BY <1>1, <1>4, <2>1
<1>7. PICK size : size = Number(value, Digit, 10) % Wrap
  OBVIOUS
<1>8. size \in 0 .. Wrap - 1
  <2>1. 10 \in Nat /\ Digit \subseteq HexDigit
    BY DEF HexDigit
  <2>2. Number(value, Digit, 10) \in Int
    BY <2>1, NumberIs
  <2>3. Wrap > 0
    BY <1>1
  <2>4. QED
    BY <1>7, <2>2, <2>3, CountDown
<1>9. PICK taken : taken = [out EXCEPT !.headers = new]
  OBVIOUS
<1>10. taken \in Orders
  BY <1>1, <1>3, <1>9 DEF Orders
<1>11. \/ /\ out' = [taken EXCEPT !.multipart = TRUE, !.boundary = <<loc.prev + tag, it>>]
          /\ loc' = loc
       \/ out' = [taken EXCEPT !.contentSize = size] /\ loc' = [loc EXCEPT !.remaining = size]
       \/ out' = taken /\ loc' = loc
  <2>1. Rq!View = v /\ Rq!Text(buf, v) = value
    BY <1>4, SameRequestText DEF Rq!View
  <2>2. [out EXCEPT !.headers[Len(out.headers)].value = v] = taken
    BY <1>3, <1>9
  <2>3. Rq!Number(value, Rq!Digit, 10) % Wrap = size
    BY <1>7, SameRequestText, SameRequestNumber
  <2>4. QED
    BY <1>5, <2>1, <2>2, <2>3 DEF Rq!TakeValue
<1>12. /\ taken.headers = new /\ taken.version = out.version /\ taken.method = out.method
       /\ taken.uri = out.uri /\ taken.content = out.content /\ taken.parts = out.parts
       /\ taken.contentSize = out.contentSize /\ taken.multipart = out.multipart
       /\ taken.boundary = out.boundary
  BY <1>1, <1>9 DEF Orders
<1> HIDE <1>9
<1>13. CASE out' = [taken EXCEPT !.multipart = TRUE, !.boundary = <<loc.prev + tag, it>>]
             /\ loc' = loc
  <2>0. PICK first \in Int : first = loc.prev + tag
    BY <1>1, <1>6
  <2>1. PICK w \in Views : w = <<first, it>>
    BY <1>1 DEF Views
  <2>2. /\ out' \in Orders /\ out'.headers = new /\ out'.version = taken.version
        /\ out'.method = taken.method /\ out'.uri = taken.uri /\ out'.content = taken.content
        /\ out'.parts = taken.parts /\ out'.contentSize = taken.contentSize /\ out'.boundary = w
    BY <1>10, <1>12, <1>13, <2>0, <2>1 DEF Orders
  <2>3. 1 <= w[1] /\ w[1] <= w[2] /\ w[2] <= Len(buf) + 1 /\ w[2] = it
    BY <1>1, <1>6, <2>0, <2>1
  <2>4. QED
    BY <1>1, <1>2, <1>3, <1>12, <1>13, <2>2, <2>3
<1>14. CASE out' = [taken EXCEPT !.contentSize = size] /\ loc' = [loc EXCEPT !.remaining = size]
  <2>1. size \in Int
    BY <1>1, <1>8
  <2>2. /\ out' \in Orders /\ out'.headers = new /\ out'.version = taken.version
        /\ out'.method = taken.method /\ out'.uri = taken.uri /\ out'.content = taken.content
        /\ out'.parts = taken.parts /\ out'.contentSize = size
        /\ out'.multipart = taken.multipart /\ out'.boundary = taken.boundary
    BY <1>10, <1>12, <1>14, <2>1 DEF Orders
  <2>3. loc' \in OrderLocals /\ loc'.prev = loc.prev /\ loc'.remaining = size
    BY <1>1, <1>14, <2>1 DEF OrderLocals
  <2>4. QED
    BY <1>2, <1>3, <1>8, <1>12, <2>2, <2>3
<1>15. CASE out' = taken /\ loc' = loc
  BY <1>1, <1>2, <1>3, <1>10, <1>12, <1>15
<1>16. QED
  BY <1>11, <1>13, <1>14, <1>15

\* A row that does nothing to the header's values keeps the types.
LEMMA RequestTypesFollow ==
  ASSUME RequestTypes, it <= Len(buf), NEW r \in Rq!Rules, r.do # "value", Rq!Do(r.do),
         it' = it + 1, buf' = buf
  PROVE  RequestTypes'
<1>1. /\ buf \in Seq(Symbols) /\ out \in Orders /\ loc \in OrderLocals /\ it \in Int /\ 1 <= it
      /\ loc.prev \in Int /\ 1 <= loc.prev /\ loc.prev <= it /\ Len(buf) \in Nat
      /\ Len(buf) < Wrap
  BY LenProperties DEF RequestTypes, OrderLocals
<1>2. it' \in 1 .. Len(buf') + 1 /\ it \in 1 .. it' /\ loc.prev \in 1 .. it'
  BY <1>1
<1>3. PICK v : v = <<loc.prev, it>>
  OBVIOUS
<1>4. v \in Views /\ Rq!View = v
  BY <1>1, <1>3 DEF Views, Rq!View
<1> HIDE <1>3
<1>5. SUFFICES out' \in Orders /\ loc' \in OrderLocals /\ loc'.prev \in {loc.prev, it}
  BY <1>1, <1>2 DEF RequestTypes
<1>6. CASE r.do = "none"
  BY <1>1, <1>6 DEF Rq!Do
<1>7. CASE r.do = "mark"
  BY <1>1, <1>7 DEF Rq!Do, OrderLocals
<1>8. CASE r.do = "method"
  BY <1>1, <1>4, <1>8 DEF Rq!Do, Orders
<1>9. CASE r.do = "uri"
  BY <1>1, <1>4, <1>9 DEF Rq!Do, Orders
<1>10. CASE r.do = "version"
  BY <1>1, <1>4, <1>10 DEF Rq!Do, Orders
<1>11. CASE r.do = "name"
  <2>1. PICK hs : hs = Append(out.headers, [name |-> v, value |-> Empty])
    OBVIOUS
  <2>2. hs \in Seq(Headers)
    <3>1. [name |-> v, value |-> Empty] \in Headers /\ out.headers \in Seq(Headers)
      BY <1>1, <1>4 DEF Headers, Orders, Views, Empty
    <3>2. QED
      BY <2>1, <3>1, AppendProperties
  <2>3. out' = [out EXCEPT !.headers = hs] /\ loc' = loc
    BY <1>4, <1>11, <2>1, SameRequestText DEF Rq!Do
  <2>4. QED
    BY <1>1, <2>2, <2>3 DEF Orders
<1>12. CASE r.do = "info"
  <2>1. PICK ps : ps = Append(out.parts, [info |-> <<loc.prev, it - 2>>, data |-> Empty])
    OBVIOUS
  <2>2. ps \in Seq(Parts)
    <3>1. out.parts \in Seq(Parts)
      BY <1>1 DEF Orders
    <3>2. PICK end \in Int : end = it - 2
      BY <1>1
    <3>3. [info |-> <<loc.prev, end>>, data |-> Empty] \in Parts
      BY <1>1 DEF Parts, Views, Empty
    <3>4. QED
      BY <2>1, <3>1, <3>2, <3>3, AppendProperties
  <2>3. out' = [out EXCEPT !.parts = ps] /\ loc' = loc
    BY <1>12, <2>1, SameRequestText DEF Rq!Do
  <2>4. QED
    BY <1>1, <2>2, <2>3 DEF Orders
<1>13. QED
  BY RequestViews, <1>6, <1>7, <1>8, <1>9, <1>10, <1>11, <1>12

\* A row of the table keeps the invariant.
LEMMA RequestFollow ==
  ASSUME RequestTypes, RequestFacts, Wrap \in Nat, Rq!Follow
  PROVE  RequestTypes' /\ RequestFacts'
<1>1. PICK r \in Rq!Rules : r.from = state /\ buf[it] \in r.on /\ Rq!Do(r.do) /\ state' = r.to
  BY DEF Rq!Follow, Rq!Cur
<1>2. it <= Len(buf) /\ it' = it + 1 /\ buf' = buf
  BY DEF Rq!Follow, Rq!Reading
<1>3. r.do # "value" => RequestTypes'
  BY <1>1, <1>2, RequestTypesFollow
<1>4. Rq!View = <<loc.prev, it>>
  BY DEF Rq!View
<1>5. out \in Orders /\ loc \in OrderLocals /\ loc.prev \in Int /\ it \in Int
  BY DEF RequestTypes, OrderLocals
<1>6. CASE r.do = "none"
  <2>1. out' = out /\ loc' = loc
    BY <1>1, <1>6 DEF Rq!Do
  <2>2. QED
    BY <1>1, <1>2, <1>3, <1>6, <2>1, RequestNoneStep
<1>7. CASE r.do = "mark"
  <2>1. out' = out /\ loc' = [loc EXCEPT !.prev = it]
    BY <1>1, <1>7 DEF Rq!Do
  <2>2. QED
    BY <1>1, <1>2, <1>3, <1>7, <2>1, RequestMarkStep
<1>8. CASE r.do \in {"method", "uri", "version"}
  <2>0. <<loc.prev, it>>[1] = loc.prev /\ <<loc.prev, it>>[2] = it
    OBVIOUS
  <2>1. PICK v : v = <<loc.prev, it>> /\ v[1] = loc.prev /\ v[2] = it
    BY <2>0
  <2>2. out' = [out EXCEPT ![r.do] = v] /\ loc' = loc
    BY <1>1, <1>4, <1>8, <2>1 DEF Rq!Do
  <2>3. \/ /\ state = "MethodStart" /\ state' = "MethodEnd" /\ out' = [out EXCEPT !.method = v]
        \/ /\ state = "UriStart" /\ state' = "UriEnd" /\ out' = [out EXCEPT !.uri = v]
        \/ /\ state = "VersionStart" /\ state' = "VersionEnd_r"
           /\ out' = [out EXCEPT !.version = v]
    BY <1>1, <1>8, <2>2, RequestViews
  <2>4. RequestTypes' /\ out' \in Orders
    BY <1>3, <1>8 DEF RequestTypes
  <2>5. QED
    BY <1>2, <2>1, <2>2, <2>3, <2>4, RequestLineStep
<1>9. CASE r.do = "name"
  <2>1. /\ out' = [out EXCEPT !.headers = Append(@, [name |-> <<loc.prev, it>>, value |-> Empty])]
        /\ loc' = loc /\ state = "HeaderStart" /\ state' = "HeaderNameEnd"
    BY <1>1, <1>4, <1>9, RequestViews, SameRequestText DEF Rq!Do
  <2>2. QED
    BY <1>2, <1>3, <1>9, <2>1, RequestNameStep
<1>10. CASE r.do = "value"
  <2>1. state = "HeaderValueStart" /\ state' = "Header_r" /\ buf[it] = "CR" /\ Rq!TakeValue
    BY <1>1, <1>10, RequestViews DEF Rq!Do
  <2>0. <<loc.prev, it>>[1] = loc.prev /\ <<loc.prev, it>>[2] = it
    OBVIOUS
  <2>2. PICK v : v = <<loc.prev, it>> /\ v[1] = loc.prev /\ v[2] = it
    BY <2>0
  <2>3. v \in Views
    BY <1>5, <2>2 DEF Views
  <2>4. PICK n \in Nat : n = Len(out.headers)
    BY <1>5, LenProperties DEF Orders
  <2>5. /\ out' \in Orders /\ loc' \in OrderLocals /\ loc'.prev = loc.prev
        /\ out'.headers = [out.headers EXCEPT ![n].value = v]
        /\ out'.version = out.version /\ out'.method = out.method /\ out'.uri = out.uri
        /\ out'.content = out.content /\ out'.parts = out.parts
        /\ loc'.remaining = out'.contentSize /\ loc'.remaining \in 0 .. Wrap - 1
        /\ out'.multipart => /\ 1 <= out'.boundary[1] /\ out'.boundary[1] <= out'.boundary[2]
                             /\ out'.boundary[2] <= Len(buf) + 1
    BY <1>2, <2>1, <2>2, <2>3, <2>4, ValueDoes
  <2>6. RequestFacts'
    BY <1>2, <2>1, <2>2, <2>3, <2>4, <2>5, RequestValueStep
  <2>7. RequestTypes'
    <3>1. Len(buf) \in Nat /\ loc.prev \in 1 .. it /\ it \in 1 .. Len(buf) + 1
      BY LenProperties DEF RequestTypes
    <3>2. QED
      BY <1>2, <2>5, <3>1 DEF RequestTypes
  <2>8. QED
    BY <2>6, <2>7
<1>11. CASE r.do = "info"
  <2>1. /\ out' = [out EXCEPT !.parts = Append(@, [info |-> <<loc.prev, it - 2>>, data |-> Empty])]
        /\ loc' = loc /\ state = "PartInfo_rn" /\ state' = "PartInfo_rnr" /\ buf[it] = "CR"
    BY <1>1, <1>11, RequestViews, SameRequestText DEF Rq!Do
  <2>2. QED
    BY <1>2, <1>3, <1>11, <2>1, RequestInfoStep
<1>12. QED
  BY RequestViews, <1>6, <1>7, <1>8, <1>9, <1>10, <1>11

\* What the end of a part's data does to the types.
LEMMA PartTypes ==
  ASSUME RequestTypes, it <= Len(buf), it' = it + 1, buf' = buf, loc' = loc, out.parts # <<>>,
         NEW end \in Int, out' = [out EXCEPT !.parts[Len(out.parts)].data = <<loc.prev, end>>]
  PROVE  RequestTypes'
<1>1. /\ out \in Orders /\ out.parts \in Seq(Parts) /\ loc.prev \in Int /\ it \in Int
      /\ Len(buf) \in Nat
  BY LenProperties DEF RequestTypes, Orders
<1>2. PICK v \in Views : v = <<loc.prev, end>>
  BY <1>1 DEF Views
<1>3. PICK ps \in Seq(Parts) : ps = out.parts
  BY <1>1
<1>4. PICK n \in Nat : n = Len(ps)
  BY LenProperties
<1>5. PICK new \in Seq(Parts) : new = [ps EXCEPT ![n].data = v]
  BY <1>3, <1>4, DataTaken
<1>6. out' = [out EXCEPT !.parts = new]
  BY <1>2, <1>3, <1>4, <1>5
<1>7. out' \in Orders
  BY <1>1, <1>6 DEF Orders
<1>8. it' \in 1 .. Len(buf') + 1 /\ loc'.prev \in 1 .. it'
  <2>1. it \in 1 .. Len(buf) + 1 /\ loc.prev \in 1 .. it
    BY DEF RequestTypes
  <2>2. it + 1 \in 1 .. Len(buf) + 1 /\ loc.prev \in 1 .. it + 1
    BY <1>1, <2>1
  <2>3. QED
    BY <2>2
<1>9. QED
  BY <1>7, <1>8 DEF RequestTypes

\* A step of the request parser keeps its invariant.
LEMMA RequestNext ==
  ASSUME RequestInv, Wrap \in Nat, Rq!Next
  PROVE  RequestInv'
<1>1. RequestTypes /\ ~Failed /\ RequestFacts
  BY SameRequestText DEF RequestInv, Failed, Rq!Next, Rq!Read, Rq!Follow, Rq!HttpWord,
     Rq!HeadersEnd, Rq!BodyStarts, Rq!BodyGoesOn, Rq!FirstBoundary, Rq!PartBody, Rq!Reject,
     Rq!EndOfText, Rq!Reading, Verdicts
<1>2. /\ buf \in Seq(Symbols) /\ Len(buf) \in Nat /\ it \in Int /\ loc.prev \in Int
      /\ out \in Orders /\ loc \in OrderLocals /\ loc.remaining \in Int /\ Wrap > 0 /\ it >= 1
      /\ loc.prev >= 1 /\ loc.prev <= it
  BY <1>1, LenProperties DEF RequestTypes, OrderLocals
<1>3. it <= Len(buf) /\ it' = it + 1 /\ buf' = buf /\ out' = out /\ loc' = loc => RequestTypes'
  BY <1>1, <1>2 DEF RequestTypes
<1>4. CASE Rq!Follow
  BY <1>1, <1>4, RequestFollow DEF RequestInv
<1>5. CASE Rq!HttpWord
  <2>1. /\ it <= Len(buf) /\ it' = it + 1 /\ buf' = buf /\ loc' = loc /\ out' = out
        /\ state = "HttpStart" /\ state' = "HttpEnd"
        /\ Text(buf, <<loc.prev, it>>) = <<"H", "T", "T", "P">>
    BY <1>5, SameRequestText DEF Rq!HttpWord, Rq!IsHttpWord, Rq!Reading, Rq!View
  <2>2. QED
    BY <1>1, <1>3, <2>1, RequestHttpStep DEF RequestInv
<1>6. CASE Rq!HeadersEnd
  <2>1. /\ it <= Len(buf) /\ it' = it + 1 /\ buf' = buf /\ loc' = loc /\ out' = out
        /\ state = "Header_rnr" /\ state' \in {"Completed", "Header_rnrn"}
    BY <1>6 DEF Rq!HeadersEnd, Rq!Reading
  <2>2. QED
    BY <1>1, <1>3, <2>1, RequestEndStep DEF RequestInv
<1>7. ASSUME NEW first \in {it, loc.prev}, NEW left, left = (loc.remaining - 1) % Wrap,
             state \in {"Header_rnrn", "PostDataStart"},
             state = "Header_rnrn" => first = it, state = "PostDataStart" => first = loc.prev,
             it <= Len(buf), it' = it + 1, buf' = buf,
             loc' \in OrderLocals, loc'.prev = first, loc'.remaining = left,
             \/ /\ left = 0 /\ state' = "Completed"
                /\ out' = [out EXCEPT !.content = <<first, it + 1>>]
             \/ left # 0 /\ state' = "PostDataStart" /\ out' = out
      PROVE  RequestInv'
  <2>1. first \in Int /\ first <= it /\ first >= 1 /\ left \in Int
    <3>1. PICK k \in Int : k = loc.remaining - 1
      BY <1>2
    <3>2. k % Wrap \in 0 .. Wrap - 1
      BY <1>2, CountDown
    <3>3. QED
      BY <1>2, <1>7, <3>1, <3>2
  <2>2. RequestFacts'
    BY <1>1, <1>7, <2>1, RequestCountStep
  <2>3. out' \in Orders
    <3>1. <<first, it + 1>> \in Views
      BY <1>2, <2>1 DEF Views
    <3>2. QED
      BY <1>2, <1>7, <3>1 DEF Orders
  <2>4. RequestTypes'
    BY <1>1, <1>2, <1>7, <2>1, <2>3 DEF RequestTypes
  <2>5. QED
    BY <2>2, <2>4 DEF RequestInv
<1>8. CASE Rq!BodyStarts
  <2>1. /\ it <= Len(buf) /\ it' = it + 1 /\ buf' = buf /\ state = "Header_rnrn"
    BY <1>8 DEF Rq!BodyStarts, Rq!Reading
  <2>2. CASE out' = out /\ loc' = loc /\ state' = "Completed"
    BY <1>1, <1>3, <2>1, <2>2, RequestBodyStep DEF RequestInv
  <2>3. CASE /\ out' = out /\ loc' = [loc EXCEPT !.prev = it] /\ out.multipart
             /\ state' = "MultipartDataStart"
    <3>1. RequestTypes'
      BY <1>1, <1>2, <2>1, <2>3 DEF RequestTypes, OrderLocals
    <3>2. QED
      BY <1>1, <2>1, <2>3, <3>1, RequestBodyStep DEF RequestInv
  <2>4. CASE /\ loc' = [prev |-> it, remaining |-> (loc.remaining - 1) % Wrap]
             /\ \/ /\ loc'.remaining = 0 /\ state' = "Completed"
                   /\ out' = [out EXCEPT !.content = <<it, it + 1>>]
                \/ loc'.remaining # 0 /\ state' = "PostDataStart" /\ out' = out
    <3>1. PICK left \in Int : left = (loc.remaining - 1) % Wrap
      BY <1>2, CountDown
    <3>2. loc' \in OrderLocals /\ loc'.prev = it /\ loc'.remaining = left
      BY <1>2, <2>4, <3>1 DEF OrderLocals
    <3>3. QED
      BY <1>7, <2>1, <2>4, <3>1, <3>2
  <2>5. QED
    BY <1>8, <2>2, <2>3, <2>4 DEF Rq!BodyStarts
<1>9. CASE Rq!BodyGoesOn
  <2>1. /\ it <= Len(buf) /\ it' = it + 1 /\ buf' = buf /\ state = "PostDataStart"
        /\ loc' = [loc EXCEPT !.remaining = (@ - 1) % Wrap]
        /\ \/ /\ loc'.remaining = 0 /\ state' = "Completed"
              /\ out' = [out EXCEPT !.content = <<loc.prev, it + 1>>]
           \/ loc'.remaining # 0 /\ state' = "PostDataStart" /\ out' = out
    BY <1>9 DEF Rq!BodyGoesOn, Rq!Reading
  <2>2. PICK left \in Int : left = (loc.remaining - 1) % Wrap
    BY <1>2, CountDown
  <2>3. loc' \in OrderLocals /\ loc'.prev = loc.prev /\ loc'.remaining = left
    BY <1>2, <2>1, <2>2 DEF OrderLocals
  <2>4. QED
    BY <1>7, <2>1, <2>2, <2>3
<1>10. CASE Rq!FirstBoundary
  <2>1. /\ it <= Len(buf) /\ it' = it + 1 /\ buf' = buf /\ loc' = loc /\ out' = out
        /\ state = "BoundaryMatchStart" /\ state' = "BoundaryMatch_r"
        /\ Text(buf, <<loc.prev, it>>) = Text(buf, out.boundary)
    BY <1>10, SameRequestText DEF Rq!FirstBoundary, Rq!IsFirstBoundary, Rq!Reading, Rq!View
  <2>2. QED
    BY <1>1, <1>3, <2>1, RequestBoundaryStep DEF RequestInv
<1>11. CASE Rq!PartBody
  <2>1. /\ it <= Len(buf) /\ it' = it + 1 /\ buf' = buf /\ loc' = loc /\ state = "PartBodyStart"
    BY <1>11 DEF Rq!PartBody, Rq!Reading
  <2>2. PICK from \in Int : from = it - (out.boundary[2] - out.boundary[1])
    <3>1. out.boundary[1] \in Int /\ out.boundary[2] \in Int /\ it \in Int
      BY <1>2 DEF Orders, Views
    <3>2. it - (out.boundary[2] - out.boundary[1]) \in Int
      BY <3>1
    <3>3. QED
      BY <3>2
  <2>3. Width \in Nat /\ it = from + Width /\ out.parts # <<>>
    <3>1. out.multipart /\ out.parts # <<>>
      BY <1>1, <2>1 DEF RequestFacts, RequestParts, InParts, InPart
    <3>2. Width \in Nat /\ Width = out.boundary[2] - out.boundary[1]
      BY <1>1, <3>1, WidthIs DEF RequestFacts
    <3>3. QED
      BY <1>2, <2>2, <3>1, <3>2
  <2>4. ASSUME NEW end \in Int,
               Text(buf, <<end + 4, end + 4 + Width>>) = Text(buf, out.boundary),
               out' = [out EXCEPT !.parts[Len(out.parts)].data = <<loc.prev, end>>],
               \/ state' = "BoundaryMatch_r" /\ it = end + 4 + Width
               \/ state' = "LastBoundaryMatch"
        PROVE  RequestInv'
    <3>1. RequestTypes'
      BY <1>1, <2>1, <2>3, <2>4, PartTypes
    <3>2. PICK n \in Nat : n = Len(out.parts)
      BY <1>2, LenProperties DEF Orders
    <3>3. out' = [out EXCEPT !.parts[n].data = <<loc.prev, end>>]
      BY <2>4, <3>2
    <3>4. RequestFacts'
      BY <1>1, <2>1, <2>4, <3>2, <3>3, RequestPartStep
    <3>5. QED
      BY <3>1, <3>4 DEF RequestInv
  <2>5. CASE Rq!EndsPart(<<from, it>>, from - 4, "BoundaryMatch_r")
    <3>1. PICK end \in Int : end = from - 4
      OBVIOUS
    <3>2. end + 4 = from /\ end + 4 + Width = it
      BY <1>2, <2>3, <3>1
    <3>3. /\ Text(buf, <<end + 4, end + 4 + Width>>) = Text(buf, out.boundary)
          /\ out' = [out EXCEPT !.parts[Len(out.parts)].data = <<loc.prev, end>>]
          /\ state' = "BoundaryMatch_r"
      BY <2>5, <3>1, <3>2, SameRequestText DEF Rq!EndsPart
    <3>4. QED
      BY <2>4, <3>2, <3>3
  <2>6. CASE Rq!EndsPart(<<from - 2, it - 2>>, from - 6, "LastBoundaryMatch")
    <3>1. PICK end \in Int : end = from - 6
      OBVIOUS
    <3>2. end + 4 = from - 2 /\ end + 4 + Width = it - 2
      BY <1>2, <2>3, <3>1
    <3>3. /\ Text(buf, <<end + 4, end + 4 + Width>>) = Text(buf, out.boundary)
          /\ out' = [out EXCEPT !.parts[Len(out.parts)].data = <<loc.prev, end>>]
          /\ state' = "LastBoundaryMatch"
      BY <2>6, <3>1, <3>2, SameRequestText DEF Rq!EndsPart
    <3>4. QED
      BY <2>4, <3>3
  <2>7. CASE out' = out /\ state' = state
    BY <1>1, <1>3, <2>1, <2>7, RequestDataStep DEF RequestInv
  <2>8. QED
    BY <1>11, <2>2, <2>5, <2>6, <2>7 DEF Rq!PartBody
<1>12. CASE Rq!Reject \/ Rq!EndOfText
  BY <1>1, <1>12 DEF RequestInv, RequestTypes, Failed, Rq!Reject, Rq!EndOfText
<1>13. QED
  BY <1>4, <1>5, <1>6, <1>8, <1>9, <1>10, <1>11, <1>12 DEF Rq!Next, Rq!Read

\* A parser that is to begin satisfies the invariant.
LEMMA RequestBegin ==
  ASSUME buf \in Seq(Symbols), Len(buf) < Wrap, Wrap \in Nat, Rq!Begin
  PROVE  RequestInv
<1>1. Len(buf) \in Nat
  BY LenProperties
<1>2. /\ it = 1 /\ state = "MethodUnstart" /\ loc = [prev |-> 1, remaining |-> 0]
      /\ out = [method |-> Empty, uri |-> Empty, version |-> Empty, headers |-> <<>>,
                content |-> Empty, contentSize |-> 0, multipart |-> FALSE, boundary |-> Empty,
                parts |-> <<>>]
  BY SameRequestText DEF Rq!Begin, Rq!NewRequest
<1>3. Empty \in Views /\ <<>> \in Seq(Headers) /\ <<>> \in Seq(Parts)
  BY EmptySeq DEF Empty, Views
<1>4. out \in Orders /\ loc \in OrderLocals
  BY <1>2, <1>3 DEF Orders, OrderLocals
<1>5. RequestTypes
  BY <1>1, <1>2, <1>4 DEF RequestTypes
<1>6. HeadersRun(buf, <<>>, OrderFirst, Len(<<>>)) /\ 0 \in 0 .. Wrap - 1
  BY <1>1 DEF HeadersRun
<1>7. RequestLine /\ RequestHeaders
  BY <1>2, <1>6 DEF RequestLine, RequestHeaders, InLine, InMethod, InName
<1>8. RequestContent /\ RequestParts
  BY <1>2, <1>6, NoParts DEF RequestContent, RequestParts, InParts, InPart
<1>9. QED
  BY <1>5, <1>7, <1>8 DEF RequestInv, RequestFacts

(***************************************************************************)
(* Where the parser finds the end of a part's data: the boundary has no    *)
(* line feed and a line feed is before the data, so that the boundary that *)
(* is found begins in the data or behind it.                               *)
(***************************************************************************)
InData == {"BoundaryMatch_r", "BoundaryMatch_rn", "PartInfoStart", "PartInfo_r", "PartInfo_rn",
           "PartInfo_rnr", "PartInfo_rnrn", "PartBodyStart"}

NoFeed(b, p, q) == \A i \in p .. q - 1 : b[i] # "LF"

DataEnds(parts) == \A i \in 1 .. Len(parts) : parts[i].data[1] <= parts[i].data[2] + 4

MultipartFacts ==
  /\ out.multipart => out.boundary[2] + 1 <= it
  /\ out.multipart /\ state \notin Verdicts \union {"Header_r"} => out.boundary[2] + 2 <= it
  /\ state = "BoundaryMatchStart" => NoFeed(buf, loc.prev, it)
  /\ state \in InData => NoFeed(buf, out.boundary[1], out.boundary[2])
  /\ state = "PartInfo_rnrn" => it > 1 /\ buf[it - 1] = "LF"
  /\ state = "PartBodyStart" => loc.prev > 1 /\ loc.prev < it /\ buf[loc.prev - 1] = "LF"
  /\ DataEnds(out.parts)

\* Equal texts have a line feed both or neither.
LEMMA SameSpan ==
  ASSUME NEW b \in Seq(Symbols), NEW p \in Int, NEW q \in Int, NEW r \in Int, NEW s \in Int,
         1 <= p, p <= q, q <= Len(b) + 1, 1 <= r, r <= s, s <= Len(b) + 1,
         Text(b, <<p, q>>) = Text(b, <<r, s>>), NoFeed(b, p, q)
  PROVE  NoFeed(b, r, s)
<1>1. PICK t : t = Text(b, <<p, q>>)
  OBVIOUS
<1>2. Len(t) = q - p /\ \A i \in 1 .. q - p : t[i] = b[p + i - 1]
  BY <1>1, TextIs
<1>3. Len(t) = s - r /\ \A i \in 1 .. s - r : t[i] = b[r + i - 1]
  <2>1. t = Text(b, <<r, s>>)
    BY <1>1
  <2>2. QED
    BY <2>1, TextIs
<1>4. SUFFICES ASSUME NEW j \in r .. s - 1 PROVE b[j] # "LF"
  BY DEF NoFeed
<1>5. PICK i \in 1 .. s - r : j = r + i - 1
  <2>1. j - r + 1 \in 1 .. s - r /\ j = r + (j - r + 1) - 1
    OBVIOUS
  <2>2. QED
    BY <2>1
<1>6. b[j] = t[i]
  BY <1>3, <1>5
<1>7. i \in 1 .. q - p
  BY <1>2, <1>3, <1>5
<1>8. t[i] = b[p + i - 1] /\ p + i - 1 \in p .. q - 1
  BY <1>2, <1>7
<1>9. QED
  BY <1>6, <1>8 DEF NoFeed

\* The rows that matter to where a part's data ends.
LEMMA DataRows ==
  ASSUME NEW r \in Rq!Rules
  PROVE  /\ r.to = "BoundaryMatchStart" =>
              /\ "LF" \notin r.on
              /\ (r.from = "BoundaryMatchStart" /\ r.do = "none") \/ r.do = "mark"
         /\ r.to \in InData => r.from \in InData
         /\ r.to = "PartInfo_rnrn" => r.on = {"LF"}
         /\ r.to = "PartBodyStart" => \/ r.from = "PartInfo_rnrn" /\ r.do = "mark"
                                      \/ r.from = "PartBodyStart" /\ r.do = "none"
         /\ r.to = "Header_r" => r.do = "value"
         /\ r.do = "value" => r.to = "Header_r"
         /\ r.do = "info" => r.to \in InData
<1>1. r.to = "BoundaryMatchStart" => r.on = Rq!Printable
  BY DEF Rq!Rules, Rq!Rule
<1>2. "LF" \notin Rq!Printable
  BY DEF Rq!Printable, Rq!Control
<1>3. CASE r.do = "none"
  BY <1>1, <1>2, <1>3, RequestNone DEF InData
<1>4. CASE r.do = "mark"
  BY <1>1, <1>2, <1>4, RequestMarks DEF InData
<1>5. CASE r.do \notin {"none", "mark"}
  BY <1>1, <1>2, <1>5, RequestViews DEF InData
<1>6. QED
  BY <1>3, <1>4, <1>5

\* Steps that leave the boundary and the parts alone.
LEMMA MultipartStays ==
  ASSUME RequestTypes, MultipartFacts, buf' = buf, out'.multipart = out.multipart,
         out'.boundary = out.boundary, out'.parts = out.parts,
         it' = it + 1 \/ (it' = it /\ state' \in Verdicts),
         state' = "BoundaryMatchStart" =>
           /\ it' = it + 1 /\ buf[it] # "LF"
           /\ (state = "BoundaryMatchStart" /\ loc'.prev = loc.prev) \/ loc'.prev = it,
         state' \in InData => NoFeed(buf, out.boundary[1], out.boundary[2]),
         state' = "PartInfo_rnrn" => buf[it] = "LF",
         state' = "PartBodyStart" => \/ state = "PartInfo_rnrn" /\ loc'.prev = it
                                     \/ state = "PartBodyStart" /\ loc'.prev = loc.prev
  PROVE  MultipartFacts'
<1>1. /\ it \in Int /\ it >= 1 /\ loc.prev \in Int /\ out.boundary[1] \in Int
      /\ out.boundary[2] \in Int
  BY DEF RequestTypes, OrderLocals, Orders, Views
<1>2. state' \in {"BoundaryMatchStart", "PartInfo_rnrn", "PartBodyStart"} => it' = it + 1
  BY DEF Verdicts
<1>3. /\ out'.multipart => out'.boundary[2] + 1 <= it'
      /\ out'.multipart /\ state' \notin Verdicts \union {"Header_r"} =>
           out'.boundary[2] + 2 <= it'
  BY <1>1 DEF MultipartFacts
<1>4. state' = "BoundaryMatchStart" => NoFeed(buf', loc'.prev, it')
  <2>1. SUFFICES ASSUME state' = "BoundaryMatchStart", NEW i \in loc'.prev .. it' - 1
                 PROVE  buf[i] # "LF"
    BY DEF NoFeed
  <2>2. i = it \/ (state = "BoundaryMatchStart" /\ loc'.prev = loc.prev /\ i \in loc.prev .. it - 1)
    BY <1>1, <2>1
  <2>3. QED
    BY <2>1, <2>2 DEF MultipartFacts, NoFeed
<1>5. state' \in InData => NoFeed(buf', out'.boundary[1], out'.boundary[2])
  OBVIOUS
<1>6. state' = "PartInfo_rnrn" => it' > 1 /\ buf'[it' - 1] = "LF"
  <2>1. PICK i \in Int : i = it
    BY <1>1
  <2>2. (i + 1) - 1 = i /\ (i >= 1 => i + 1 > 1)
    OBVIOUS
  <2>3. QED
    BY <1>1, <1>2, <2>1, <2>2
<1>7. state' = "PartBodyStart" => loc'.prev > 1 /\ loc'.prev < it' /\ buf'[loc'.prev - 1] = "LF"
  BY <1>1, <1>2 DEF MultipartFacts
<1>8. DataEnds(out'.parts)
  BY DEF MultipartFacts
<1>9. QED
  BY <1>3, <1>4, <1>5, <1>6, <1>7, <1>8 DEF MultipartFacts

\* The end of a header's value, which may name the boundary.
LEMMA MultipartValue ==
  ASSUME RequestTypes, MultipartFacts, out'.parts = out.parts, state' = "Header_r", it' = it + 1,
         \/ out'.multipart = out.multipart /\ out'.boundary = out.boundary
         \/ out'.boundary[2] = it
  PROVE  MultipartFacts'
<1>1. it \in Int /\ out.boundary[2] \in Int
  BY DEF RequestTypes, Orders, Views
<1>2. out'.multipart => out'.boundary[2] + 1 <= it'
  <2>1. CASE out'.multipart = out.multipart /\ out'.boundary = out.boundary
    <3>1. out.multipart => out.boundary[2] + 1 <= it
      BY DEF MultipartFacts
    <3>2. QED
      BY <1>1, <2>1, <3>1
  <2>2. CASE out'.boundary[2] = it
    BY <1>1, <2>2
  <2>3. QED
    BY <2>1, <2>2
<1>3. DataEnds(out'.parts)
  BY DEF MultipartFacts
<1>4. QED
  BY <1>2, <1>3 DEF MultipartFacts, InData

\* A new part has no data yet.
LEMMA MultipartInfo ==
  ASSUME RequestTypes, MultipartFacts, state \in InData, NEW p \in Parts, p.data = Empty,
         buf' = buf, it' = it + 1, out' = [out EXCEPT !.parts = Append(@, p)],
         state' = "PartInfo_rnr"
  PROVE  MultipartFacts'
<1>1. out \in Orders /\ out.parts \in Seq(Parts) /\ it \in Int /\ out.boundary[2] \in Int
  BY DEF RequestTypes, Orders, Views
<1>2. PICK ps \in Seq(Parts) : ps = out.parts
  BY <1>1
<1>3. PICK n \in Nat : n = Len(ps)
  BY LenProperties
<1>4. PICK new : new = Append(ps, p)
  OBVIOUS
<1>5. Len(new) = n + 1 /\ new[n + 1] = p /\ \A i \in 1 .. n : new[i] = ps[i]
  BY <1>3, <1>4, PartAppends
<1>6. out'.parts = new /\ out'.multipart = out.multipart /\ out'.boundary = out.boundary
  BY <1>1, <1>2, <1>4 DEF Orders
<1>7. DataEnds(new)
  <2>1. SUFFICES ASSUME NEW i \in 1 .. n + 1 PROVE new[i].data[1] <= new[i].data[2] + 4
    BY <1>5 DEF DataEnds
  <2>2. CASE i = n + 1
    BY <1>5, <2>2 DEF Empty
  <2>3. CASE i # n + 1
    <3>1. i \in 1 .. n
      BY <2>3
    <3>2. QED
      BY <1>2, <1>3, <1>5, <3>1 DEF MultipartFacts, DataEnds
  <2>4. QED
    BY <2>2, <2>3
<1>8. NoFeed(buf', out'.boundary[1], out'.boundary[2])
  BY <1>6 DEF MultipartFacts
<1>9. /\ out'.multipart => out'.boundary[2] + 1 <= it'
      /\ out'.multipart /\ state' \notin Verdicts \union {"Header_r"} =>
           out'.boundary[2] + 2 <= it'
  <2>1. state \notin Verdicts \union {"Header_r"}
    BY DEF InData, Verdicts
  <2>2. out.multipart => out.boundary[2] + 2 <= it
    BY <2>1 DEF MultipartFacts
  <2>3. QED
    BY <1>1, <1>6, <2>2
<1>10. QED
  BY <1>6, <1>7, <1>8, <1>9 DEF MultipartFacts

\* The end of a part's data.
LEMMA MultipartData ==
  ASSUME RequestTypes, RequestFacts, MultipartFacts, state = "PartBodyStart", buf' = buf,
         it' = it + 1, NEW end \in Int, loc.prev <= end + 4,
         out' = [out EXCEPT !.parts[Len(out.parts)].data = <<loc.prev, end>>],
         state' \in {"BoundaryMatch_r", "LastBoundaryMatch"}
  PROVE  MultipartFacts'
<1>1. /\ out \in Orders /\ out.parts \in Seq(Parts) /\ it \in Int /\ out.boundary[2] \in Int
      /\ loc.prev \in Int
  BY DEF RequestTypes, Orders, OrderLocals, Views
<1>2. PICK v \in Views : v = <<loc.prev, end>>
  BY <1>1 DEF Views
<1>3. PICK ps \in Seq(Parts) : ps = out.parts /\ ps # <<>>
  BY <1>1 DEF RequestFacts, RequestParts, InPart
<1>4. PICK n \in Nat : n = Len(ps)
  BY LenProperties
<1>5. PICK new : new = [ps EXCEPT ![n].data = v]
  OBVIOUS
<1>6. Len(new) = n /\ new[n].data = v /\ \A i \in 1 .. n - 1 : new[i] = ps[i]
  BY <1>3, <1>4, <1>5, DataTaken
<1>7. out'.parts = new /\ out'.multipart = out.multipart /\ out'.boundary = out.boundary
  BY <1>1, <1>2, <1>3, <1>4, <1>5 DEF Orders
<1>8. DataEnds(new)
  <2>1. SUFFICES ASSUME NEW i \in 1 .. n PROVE new[i].data[1] <= new[i].data[2] + 4
    BY <1>6 DEF DataEnds
  <2>2. CASE i = n
    BY <1>1, <1>2, <1>6, <2>2
  <2>3. CASE i # n
    <3>1. i \in 1 .. n - 1
      BY <2>3
    <3>2. QED
      BY <1>3, <1>4, <1>6, <3>1 DEF MultipartFacts, DataEnds
  <2>4. QED
    BY <2>2, <2>3
<1>9. NoFeed(buf', out'.boundary[1], out'.boundary[2])
  BY <1>7 DEF MultipartFacts, InData
<1>10. /\ out'.multipart => out'.boundary[2] + 1 <= it'
       /\ out'.multipart /\ state' \notin Verdicts \union {"Header_r"} =>
            out'.boundary[2] + 2 <= it'
  <2>1. out.multipart => out.boundary[2] + 2 <= it
    BY DEF MultipartFacts, Verdicts
  <2>2. QED
    BY <1>1, <1>7, <2>1
<1>11. QED
  BY <1>7, <1>8, <1>9, <1>10 DEF MultipartFacts

\* The boundary that is found does not begin before the data.
LEMMA BoundaryInData ==
  ASSUME RequestTypes, RequestFacts, MultipartFacts, state = "PartBodyStart", it <= Len(buf),
         NEW from \in Int, NEW to \in Int, from = to - (out.boundary[2] - out.boundary[1]),
         \/ to = it
         \/ to = it - 2 /\ buf[it - 2] = "-" /\ out.boundary[1] # out.boundary[2],
         Text(buf, <<from, to>>) = Text(buf, out.boundary)
  PROVE  loc.prev <= from
<1>0. out.multipart /\ out.boundary \in Int \X Int
  BY DEF RequestTypes, Orders, Views, RequestFacts, RequestParts, InParts
<1>1. PICK p \in Int, q \in Int : out.boundary = <<p, q>>
  BY <1>0
<1>2. /\ 1 <= p /\ p <= q /\ q <= Len(buf) + 1 /\ buf \in Seq(Symbols) /\ Len(buf) \in Nat
      /\ it \in Int /\ loc.prev \in Int
  BY <1>0, <1>1, LenProperties DEF RequestTypes, OrderLocals, RequestFacts, RequestParts
<1>3. /\ q + 2 <= it /\ NoFeed(buf, p, q)
      /\ loc.prev > 1 /\ loc.prev < it /\ buf[loc.prev - 1] = "LF"
  BY <1>0, <1>1 DEF MultipartFacts, InData, Verdicts
<1>4. from = to - (q - p) /\ Text(buf, <<from, to>>) = Text(buf, <<p, q>>)
  BY <1>1
<1>5. 1 <= from /\ from <= to /\ to <= Len(buf) + 1
  BY <1>2, <1>3, <1>4
<1>6. NoFeed(buf, from, to)
  BY <1>2, <1>3, <1>4, <1>5, SameSpan
<1>7. SUFFICES ASSUME from < loc.prev PROVE FALSE
  BY <1>2
<1>8. loc.prev - 1 >= to
  <2>1. SUFFICES ASSUME loc.prev - 1 < to PROVE FALSE
    BY <1>2
  <2>2. loc.prev - 1 \in from .. to - 1
    BY <1>2, <1>7, <2>1
  <2>3. QED
    BY <1>3, <1>6, <2>2 DEF NoFeed
<1>9. CASE to = it
  BY <1>2, <1>3, <1>8, <1>9
<1>10. CASE to = it - 2 /\ buf[it - 2] = "-"
  <2>1. loc.prev - 1 = it - 2
    BY <1>2, <1>3, <1>8, <1>10
  <2>2. QED
    BY <1>3, <1>10, <2>1
<1>11. QED
  BY <1>9, <1>10

\* A row keeps the facts about the data.
LEMMA MultipartFollow ==
  ASSUME RequestTypes, RequestFacts, MultipartFacts, Wrap \in Nat, Rq!Follow
  PROVE  MultipartFacts'
<1>1. PICK r \in Rq!Rules : r.from = state /\ buf[it] \in r.on /\ Rq!Do(r.do) /\ state' = r.to
  BY DEF Rq!Follow, Rq!Cur
<1>2. it <= Len(buf) /\ it' = it + 1 /\ buf' = buf
  BY DEF Rq!Follow, Rq!Reading
<1>3. out \in Orders /\ loc \in OrderLocals /\ loc.prev \in Int /\ it \in Int
  BY DEF RequestTypes, OrderLocals
<1>4. /\ state' = "BoundaryMatchStart" =>
           /\ buf[it] # "LF"
           /\ (state = "BoundaryMatchStart" /\ r.do = "none") \/ r.do = "mark"
      /\ state' \in InData => state \in InData
      /\ state' = "PartInfo_rnrn" => buf[it] = "LF"
      /\ state' = "PartBodyStart" => \/ state = "PartInfo_rnrn" /\ r.do = "mark"
                                     \/ state = "PartBodyStart" /\ r.do = "none"
      /\ r.do = "value" => state' = "Header_r"
  BY <1>1, DataRows
<1>5. state' \in InData => NoFeed(buf, out.boundary[1], out.boundary[2])
  BY <1>4 DEF MultipartFacts
<1>6. CASE r.do = "none"
  <2>1. out' = out /\ loc' = loc
    BY <1>1, <1>6 DEF Rq!Do
  <2>2. QED
    BY <1>2, <1>4, <1>5, <1>6, <2>1, MultipartStays
<1>7. CASE r.do = "mark"
  <2>1. out' = out /\ loc'.prev = it
    BY <1>1, <1>3, <1>7 DEF Rq!Do, OrderLocals
  <2>2. QED
    BY <1>2, <1>4, <1>5, <1>7, <2>1, MultipartStays
<1>8. CASE r.do \in {"method", "uri", "version", "name"}
  <2>1. /\ out'.multipart = out.multipart /\ out'.boundary = out.boundary
        /\ out'.parts = out.parts
    BY <1>1, <1>3, <1>8 DEF Rq!Do, Orders
  <2>2. r.do # "none" /\ r.do # "mark"
    BY <1>8
  <2>3. QED
    BY <1>2, <1>4, <1>5, <2>1, <2>2, MultipartStays
<1>9. CASE r.do = "value"
  <2>1. Rq!TakeValue /\ state = "HeaderValueStart" /\ state' = "Header_r"
    BY <1>1, <1>4, <1>9, RequestViews DEF Rq!Do
  <2>2. PICK v \in Views : v = <<loc.prev, it>>
    BY <1>3 DEF Views
  <2>3. PICK n \in Nat : n = Len(out.headers)
    BY <1>3, LenProperties DEF Orders
  <2>4. /\ out'.parts = out.parts
        /\ \/ out'.multipart = out.multipart /\ out'.boundary = out.boundary
           \/ out'.boundary[2] = it
    BY <1>2, <2>1, <2>2, <2>3, ValueDoes
  <2>5. QED
    BY <1>2, <2>1, <2>4, MultipartValue
<1>10. CASE r.do = "info"
  <2>1. PICK p : p = [info |-> <<loc.prev, it - 2>>, data |-> Empty]
    OBVIOUS
  <2>2. p \in Parts /\ p.data = Empty
    BY <1>3, <2>1 DEF Parts, Views, Empty
  <2>3. /\ out' = [out EXCEPT !.parts = Append(@, p)]
        /\ state = "PartInfo_rn" /\ state' = "PartInfo_rnr"
    BY <1>1, <1>10, <2>1, RequestViews, SameRequestText DEF Rq!Do, Rq!View
  <2>4. state \in InData
    BY <2>3 DEF InData
  <2>5. QED
    BY <1>2, <2>2, <2>3, <2>4, MultipartInfo
<1>11. QED
  BY RequestViews, <1>6, <1>7, <1>8, <1>9, <1>10

\* The end of a part's data, or a line break in it.
LEMMA MultipartBody ==
  ASSUME RequestTypes, RequestFacts, MultipartFacts, Rq!PartBody
  PROVE  MultipartFacts'
<1>1. /\ it <= Len(buf) /\ it' = it + 1 /\ buf' = buf /\ loc' = loc /\ state = "PartBodyStart"
  BY DEF Rq!PartBody, Rq!Reading
<1>2. PICK p \in Int, q \in Int : out.boundary = <<p, q>>
  BY DEF RequestTypes, Orders, Views
<1>3. PICK from \in Int : from = it - (q - p)
  BY DEF RequestTypes
<1>4. it \in Int /\ loc.prev \in Int /\ out.boundary[1] = p /\ out.boundary[2] = q
  BY <1>2 DEF RequestTypes, OrderLocals
<1>5. ASSUME NEW start \in Int, NEW end \in Int, end = start - 4, loc.prev <= start,
             out' = [out EXCEPT !.parts[Len(out.parts)].data = <<loc.prev, end>>],
             state' \in {"BoundaryMatch_r", "LastBoundaryMatch"}
      PROVE  MultipartFacts'
  <2>1. loc.prev <= end + 4
    BY <1>4, <1>5
  <2>2. QED
    BY <1>1, <1>5, <2>1, MultipartData
<1>6. CASE Rq!EndsPart(<<from, it>>, from - 4, "BoundaryMatch_r")
  <2>1. PICK end \in Int : end = from - 4
    OBVIOUS
  <2>2. /\ Text(buf, <<from, it>>) = Text(buf, out.boundary)
        /\ out' = [out EXCEPT !.parts[Len(out.parts)].data = <<loc.prev, end>>]
        /\ state' = "BoundaryMatch_r"
    BY <1>6, <2>1, SameRequestText DEF Rq!EndsPart
  <2>3. loc.prev <= from
    BY <1>1, <1>3, <1>4, <2>2, BoundaryInData
  <2>4. QED
    BY <1>5, <2>1, <2>2, <2>3
<1>7. CASE /\ Rq!EndsPart(<<from - 2, it - 2>>, from - 6, "LastBoundaryMatch")
           /\ Text(buf, <<from, it>>) # Text(buf, out.boundary) /\ buf[it - 2] = "-"
  <2>1. PICK start \in Int, to \in Int : start = from - 2 /\ to = it - 2
    BY <1>4
  <2>2. PICK end \in Int : end = from - 6
    OBVIOUS
  <2>3. /\ Text(buf, <<start, to>>) = Text(buf, out.boundary)
        /\ out' = [out EXCEPT !.parts[Len(out.parts)].data = <<loc.prev, end>>]
        /\ state' = "LastBoundaryMatch"
    BY <1>7, <2>1, <2>2, SameRequestText DEF Rq!EndsPart
  <2>4. p # q
    <3>1. SUFFICES ASSUME p = q PROVE FALSE
      OBVIOUS
    <3>2. /\ out.multipart /\ 1 <= p /\ q <= Len(buf) + 1 /\ buf \in Seq(Symbols)
          /\ Len(buf) \in Nat /\ 1 <= it
      BY <1>1, <1>4, LenProperties DEF RequestTypes, RequestFacts, RequestParts, InParts
    <3>3. from = it
      BY <1>3, <1>4, <3>1
    <3>4. Len(Text(buf, <<p, p>>)) = 0 /\ Text(buf, <<p, p>>) \in Seq(Symbols)
      BY <3>1, <3>2, TextIs
    <3>5. Len(Text(buf, <<it, it>>)) = 0 /\ Text(buf, <<it, it>>) \in Seq(Symbols)
      <4>1. PICK i \in Int : i = it
        BY <1>4
      <4>2. 1 <= i /\ i <= Len(buf) + 1 /\ i - i = 0
        BY <1>1, <3>2, <4>1
      <4>3. Len(Text(buf, <<i, i>>)) = 0 /\ Text(buf, <<i, i>>) \in Seq(Symbols)
        BY <3>2, <4>2, TextIs
      <4>4. QED
        BY <4>1, <4>3
    <3>6. Text(buf, <<p, p>>) = <<>> /\ Text(buf, <<it, it>>) = <<>>
      BY <3>4, <3>5, EmptySeq
    <3>7. QED
      BY <1>2, <1>7, <3>1, <3>3, <3>6
  <2>5. start = to - (q - p)
    BY <1>3, <1>4, <2>1
  <2>6. loc.prev <= start
    BY <1>1, <1>4, <1>7, <2>1, <2>3, <2>4, <2>5, BoundaryInData
  <2>7. end = start - 4
    BY <2>1, <2>2
  <2>8. QED
    BY <1>5, <2>3, <2>6, <2>7
<1>8. CASE out' = out /\ state' = state
  BY <1>1, <1>8, MultipartStays DEF MultipartFacts, InData
<1>9. QED
  BY <1>2, <1>3, <1>4, <1>6, <1>7, <1>8, SameRequestText DEF Rq!PartBody

\* A step of the request parser keeps the facts about the data.
LEMMA MultipartNext ==
  ASSUME RequestInv, MultipartFacts, Wrap \in Nat, Rq!Next
  PROVE  MultipartFacts'
<1>1. RequestTypes /\ ~Failed /\ RequestFacts
  BY SameRequestText DEF RequestInv, Failed, Rq!Next, Rq!Read, Rq!Follow, Rq!HttpWord,
     Rq!HeadersEnd, Rq!BodyStarts, Rq!BodyGoesOn, Rq!FirstBoundary, Rq!PartBody, Rq!Reject,
     Rq!EndOfText, Rq!Reading, Verdicts
<1>2. out \in Orders /\ loc \in OrderLocals /\ buf \in Seq(Symbols)
  BY <1>1 DEF RequestTypes
<1>3. CASE Rq!Follow
  BY <1>1, <1>3, MultipartFollow
<1>4. CASE Rq!HttpWord \/ Rq!HeadersEnd
  <2>1. /\ it' = it + 1 /\ buf' = buf /\ out' = out
        /\ state' \in {"HttpEnd", "Completed", "Header_rnrn"}
    BY <1>4 DEF Rq!HttpWord, Rq!HeadersEnd
  <2>2. QED
    BY <1>1, <2>1, MultipartStays DEF InData
<1>5. CASE Rq!BodyStarts \/ Rq!BodyGoesOn
  <2>1. /\ it' = it + 1 /\ buf' = buf /\ out'.multipart = out.multipart
        /\ out'.boundary = out.boundary /\ out'.parts = out.parts
        /\ state' \in {"Completed", "PostDataStart", "MultipartDataStart"}
    BY <1>2, <1>5 DEF Rq!BodyStarts, Rq!BodyGoesOn, Orders
  <2>2. QED
    BY <1>1, <2>1, MultipartStays DEF InData
<1>6. CASE Rq!FirstBoundary
  <2>1. /\ it <= Len(buf) /\ it' = it + 1 /\ buf' = buf /\ loc' = loc /\ out' = out
        /\ state = "BoundaryMatchStart" /\ state' = "BoundaryMatch_r"
        /\ Text(buf, <<loc.prev, it>>) = Text(buf, out.boundary)
    BY <1>6, SameRequestText DEF Rq!FirstBoundary, Rq!IsFirstBoundary, Rq!Reading, Rq!View
  <2>2. PICK p \in Int, q \in Int : out.boundary = <<p, q>>
    BY <1>2 DEF Orders, Views
  <2>3. /\ out.multipart /\ 1 <= p /\ p <= q /\ q <= Len(buf) + 1 /\ loc.prev \in Int
        /\ it \in Int /\ 1 <= loc.prev /\ loc.prev <= it /\ Len(buf) \in Nat
    BY <1>1, <2>1, <2>2, LenProperties
       DEF RequestFacts, RequestParts, InParts, RequestTypes, OrderLocals
  <2>4. NoFeed(buf, loc.prev, it)
    BY <2>1 DEF MultipartFacts
  <2>5. NoFeed(buf, p, q)
    BY <1>2, <2>1, <2>2, <2>3, <2>4, SameSpan
  <2>6. QED
    BY <1>1, <2>1, <2>2, <2>5, MultipartStays
<1>7. CASE Rq!PartBody
  BY <1>1, <1>7, MultipartBody
<1>8. CASE Rq!Reject \/ Rq!EndOfText
  <2>1. it' = it /\ buf' = buf /\ out' = out /\ state' \in {"Error", "InCompleted"}
    BY <1>8 DEF Rq!Reject, Rq!EndOfText
  <2>2. QED
    BY <1>1, <2>1, MultipartStays DEF InData, Verdicts
<1>9. QED
  BY <1>3, <1>4, <1>5, <1>6, <1>7, <1>8 DEF Rq!Next, Rq!Read

\* A parser that is to begin has found nothing.
LEMMA MultipartBegin ==
  ASSUME Rq!Begin
  PROVE  MultipartFacts
<1>1. state = "MethodUnstart" /\ ~out.multipart /\ out.parts = <<>>
  BY DEF Rq!Begin, Rq!NewRequest
<1>2. DataEnds(<<>>)
  BY DEF DataEnds
<1>3. QED
  BY <1>1, <1>2 DEF MultipartFacts, InData

\* The invariant says of an accepted request that its views tile the text.
LEMMA RequestInvTiles ==
  ASSUME RequestInv, MultipartFacts, state = "Completed"
  PROVE  RequestTiles
<1>1. RequestTypes /\ RequestFacts
  BY DEF RequestInv, Failed
<1>2. PICK first : first = out.version[2] + 2
  OBVIOUS
<1>3. first = OrderFirst /\ HeadersEnd(out.headers, first) = OrderEnd
  BY <1>2 DEF HeadersEnd, OrderEnd, OrderFirst, Last
<1>4. HeadersTile(out.headers, first)
  <2>1. HeadersRun(buf, out.headers, first, Len(out.headers))
    BY <1>1, <1>3 DEF RequestFacts, RequestHeaders, InName
  <2>2. DOMAIN out.headers = 1 .. Len(out.headers)
    <3>1. out.headers \in Seq(Headers)
      BY <1>1 DEF RequestTypes, Orders
    <3>2. QED
      BY <3>1, LenProperties
  <2>3. QED
    BY <2>1, <2>2 DEF HeadersRun, HeaderIs, HeadersTile, HeaderTiles, T
<1>5. PartsTile(out.parts, OrderEnd + 2, out.boundary)
  <2>1. PartsRun(buf, out.parts, OrderEnd + 2, out.boundary, Len(out.parts))
    BY <1>1 DEF RequestFacts, RequestParts, Body, InPart
  <2>2. DOMAIN out.parts = 1 .. Len(out.parts)
    <3>1. out.parts \in Seq(Parts)
      BY <1>1 DEF RequestTypes, Orders
    <3>2. QED
      BY <3>1, LenProperties
  <2>3. DataEnds(out.parts)
    BY DEF MultipartFacts
  <2>4. QED
    BY <2>1, <2>2, <2>3 DEF DataEnds, PartsRun, PartIs, PartOpen, PartFrom, PartsTile, PartTiles, T
<1>6. /\ out.method[1] = 1 /\ out.uri[1] = out.method[2] + 1 /\ out.version[1] = out.uri[2] + 6
      /\ (out.content # Empty =>
            /\ out.content[1] = OrderEnd + 2 /\ out.content[2] = out.content[1] + out.contentSize
            /\ out.content[2] <= Len(buf) + 1)
  BY <1>1 DEF RequestFacts, RequestLine, RequestContent, InLine, InMethod, Body
<1>7. QED
  BY <1>2, <1>3, <1>4, <1>5, <1>6 DEF RequestTiles

\* What the parser has found of a URI, in the order of the text: a user's name
\* and perhaps its password, the host, perhaps the port, the path, perhaps the
\* query string and the fragment.
Locators ==
  [scheme : Views, username : Views, password : Views, hostname : Views, portstr : Views,
   port : Int, path : Views, querystr : Views, queries : Seq(Headers), fragment : Views]

LocatorLocals == [prev : Int, name : Views, end : Int]

InScheme == {"SchemeStart", "SchemeEnd", "SchemeEndSlash", "SchemeEndSlashSlash"}
InUser == {"UsernameOrHostname", "PortOrPasswordStart", "PortOrPassword", "Password"}
InHost == {"HostnameStart", "Hostname", "PortStart", "Port"}
InRest == {"QueryStart", "Query", "HashStart"}
InQuery == {"QueryName", "QueryValueStart", "QueryValue", "NewQueryStart"}
UriStates == InScheme \union InUser \union InHost \union {"Path"} \union InRest \union InQuery
             \union Verdicts

UriTypes ==
  /\ buf \in Seq(Symbols)
  /\ out \in Locators
  /\ loc \in LocatorLocals
  /\ it \in 1 .. loc.end
  /\ loc.end <= Len(buf) + 1
  /\ loc.prev \in 1 .. it
  /\ state \in UriStates
  /\ state \notin InQuery \union Verdicts => loc.end = Len(buf) + 1

\* Where what comes before `start` ends as it should.
AfterScheme(start) == start - out.scheme[2] \in {1, 2, 3}

UserIs ==
  /\ AfterScheme(out.username[1]) /\ out.username[1] < out.username[2]
  /\ out.password # Empty =>
       out.password[1] = out.username[2] + 1 /\ out.password[1] < out.password[2]

UserEnd == IF out.password = Empty THEN out.username[2] ELSE out.password[2]

HostStarts(start) ==
  \/ out.username = Empty /\ out.password = Empty /\ AfterScheme(start)
  \/ UserIs /\ start = UserEnd + 1

HostIs == HostStarts(out.hostname[1]) /\ out.hostname[1] < out.hostname[2]

PortIs ==
  out.portstr # Empty =>
    out.portstr[1] = out.hostname[2] + 1 /\ out.portstr[1] < out.portstr[2]

AuthorityEnd == IF out.portstr = Empty THEN out.hostname[2] ELSE out.portstr[2]

PathIs == out.path[1] = AuthorityEnd /\ out.path[1] < out.path[2] /\ buf[out.path[1]] = "/"

QueryIs ==
  out.querystr # Empty =>
    out.querystr[1] = out.path[2] + 1 /\ out.querystr[1] < out.querystr[2]

QueryEnd == IF out.querystr = Empty THEN out.path[2] ELSE out.querystr[2]

FragmentIs ==
  IF out.fragment = Empty THEN QueryEnd = Len(buf) + 1
  ELSE /\ out.fragment[1] = QueryEnd + 1 /\ out.fragment[1] < out.fragment[2]
       /\ out.fragment[2] = Len(buf) + 1

\* Before the path: what is open does not begin with a slash.
SchemeFacts ==
  /\ state \in InScheme \union InUser \union InHost =>
       (state = "SchemeStart" /\ it = 1) \/ (loc.prev < it /\ buf[loc.prev] # "/")
  /\ state = "SchemeStart" => loc.prev = 1
  /\ state # "SchemeStart" => out.scheme[1] = 1 /\ out.scheme[1] <= out.scheme[2]
  /\ state = "SchemeEnd" => it = out.scheme[2] + 1
  /\ state = "SchemeEndSlash" => it = out.scheme[2] + 2
  /\ state = "SchemeEndSlashSlash" => it = out.scheme[2] + 3

UserFacts ==
  /\ state \in InScheme \union {"UsernameOrHostname"} => out.username = Empty
  /\ state \in InScheme \union InUser => out.password = Empty
  /\ state = "UsernameOrHostname" => AfterScheme(loc.prev)
  /\ state \in InUser \ {"UsernameOrHostname"} => UserIs
  /\ state = "PortOrPasswordStart" => it = UserEnd + 1
  /\ state \in {"PortOrPassword", "Password"} => loc.prev = UserEnd + 1

HostFacts ==
  /\ state \in InScheme \union InUser \union {"HostnameStart", "Hostname"} => out.hostname = Empty
  /\ state \in InScheme \union InUser \union InHost => out.portstr = Empty
  /\ state = "HostnameStart" => HostStarts(it)
  /\ state = "Hostname" => HostStarts(loc.prev)
  /\ state \in {"PortStart", "Port", "Path"} \union InRest => HostIs /\ PortIs
  /\ state = "PortStart" => it = out.hostname[2] + 1
  /\ state = "Port" => loc.prev = out.hostname[2] + 1

RestFacts ==
  /\ state \in InScheme \union InUser \union InHost \union {"Path"} => out.path = Empty
  /\ state \in InScheme \union InUser \union InHost \union {"Path", "QueryStart", "Query"} =>
       out.querystr = Empty
  /\ state \in InScheme \union InUser \union InHost \union {"Path"} \union InRest =>
       out.fragment = Empty
  /\ state = "Path" => loc.prev = AuthorityEnd /\ loc.prev < it /\ buf[loc.prev] = "/"
  /\ state \in InRest => PathIs /\ QueryIs /\ 1 <= out.path[1]
  /\ state = "QueryStart" => loc.prev = out.path[1] /\ it = out.path[2] + 1
  /\ state = "Query" => loc.prev = out.path[2] + 1 /\ loc.prev < it
  /\ state = "HashStart" =>
       it = QueryEnd + 1 /\ (out.querystr = Empty => loc.prev = out.path[1])

\* What is left when the text has been read.
UriIs == HostIs /\ PortIs /\ PathIs /\ QueryIs /\ FragmentIs
Rootless ==
  /\ 1 <= out.path[1] /\ out.path[1] <= out.path[2] /\ out.path[2] <= Len(buf) + 1
  /\ out.path[1] = Len(buf) + 1 \/ buf[out.path[1]] # "/"

DoneFacts ==
  /\ state \in InQuery => UriIs
  /\ state = "Completed" =>
       Rootless \/ (UriIs /\ out.scheme[1] = 1 /\ out.scheme[1] <= out.scheme[2])

UriFacts ==
  /\ state # "Completed" => SchemeFacts /\ UserFacts /\ HostFacts /\ RestFacts
  /\ DoneFacts

UriInv == UriTypes /\ (~Failed => UriFacts)

\* The rows of the URI parser that only move on.
LEMMA UriNone ==
  ASSUME NEW r \in Ur!Rules, r.do = "none"
  PROVE  \/ r.from = "SchemeStart" /\ r.to = "SchemeStart" /\ "/" \notin r.on
         \/ r.from = "SchemeEnd" /\ r.to = "SchemeEndSlash"
         \/ r.from = "SchemeEndSlash" /\ r.to = "SchemeEndSlashSlash"
         \/ r.from = "PortOrPassword" /\ r.to = "Password"
         \/ /\ r.from \in {"UsernameOrHostname", "PortOrPassword", "Password", "Hostname", "Port",
                           "Path", "Query", "QueryName", "QueryValue"}
            /\ r.to = r.from
  BY DEF Ur!Rules, Ur!Rule, Ur!Unreserved, Ur!Alnum, Ur!Alpha, Ur!Digit, Ur!Method, Ur!HeaderName

\* The rows that remember where a piece begins.
LEMMA UriMarks ==
  ASSUME NEW r \in Ur!Rules, r.do = "mark"
  PROVE  \/ /\ r.from \in {"SchemeEnd", "SchemeEndSlash", "SchemeEndSlashSlash"}
            /\ r.to = "UsernameOrHostname" /\ "/" \notin r.on
         \/ r.from = "PortOrPasswordStart" /\ r.to = "PortOrPassword" /\ "/" \notin r.on
         \/ r.from = "HostnameStart" /\ r.to = "Hostname" /\ "/" \notin r.on
         \/ r.from = "PortStart" /\ r.to = "Port" /\ "/" \notin r.on
         \/ r.from = "QueryStart" /\ r.to = "Query"
         \/ r.from = "QueryValueStart" /\ r.to = "QueryValue"
         \/ r.from = "NewQueryStart" /\ r.to = "QueryName"
  BY DEF Ur!Rules, Ur!Rule, Ur!Unreserved, Ur!Name, Ur!Alnum, Ur!Alpha, Ur!Digit, Ur!Method,
         Ur!HeaderName

\* The rows that take the view of a piece.
LEMMA UriViews ==
  ASSUME NEW r \in Ur!Rules, r.do \notin {"none", "mark"}
  PROVE  \/ r.do = "scheme" /\ r.from = "SchemeStart" /\ r.to = "SchemeEnd" /\ "/" \notin r.on
         \/ /\ r.do = "username" /\ r.from = "UsernameOrHostname"
            /\ r.to \in {"PortOrPasswordStart", "HostnameStart"}
         \/ r.do = "hostname" /\ r.from = "UsernameOrHostname" /\ r.to = "Path" /\ r.on = {"/"}
         \/ r.do = "hostname" /\ r.from = "Hostname" /\ r.to = "Path" /\ r.on = {"/"}
         \/ r.do = "hostname" /\ r.from = "Hostname" /\ r.to = "PortStart" /\ r.on = {":"}
         \/ r.do = "password" /\ r.from \in {"PortOrPassword", "Password"} /\ r.to = "HostnameStart"
         \/ r.do = "path" /\ r.from = "Path" /\ r.to \in {"HashStart", "QueryStart"}
         \/ r.do = "querystr" /\ r.from = "Query" /\ r.to = "HashStart"
         \/ r.do = "name" /\ r.from = "QueryName" /\ r.to = "QueryValueStart"
         \/ r.do = "query" /\ r.from = "QueryValue" /\ r.to = "NewQueryStart"
  BY DEF Ur!Rules, Ur!Rule

\* What the facts look back to is where it was.
LEMMA UriUnmoved ==
  ASSUME buf' = buf, out'.scheme = out.scheme, out'.username = out.username,
         out'.password = out.password, out'.hostname = out.hostname, out'.portstr = out.portstr,
         out'.path = out.path, out'.querystr = out.querystr, out'.fragment = out.fragment
  PROVE  /\ UserIs' = UserIs /\ UserEnd' = UserEnd /\ HostIs' = HostIs /\ PortIs' = PortIs
         /\ AuthorityEnd' = AuthorityEnd /\ PathIs' = PathIs /\ QueryIs' = QueryIs
         /\ QueryEnd' = QueryEnd /\ UriIs' = UriIs
<1>1. UserIs' = UserIs /\ UserEnd' = UserEnd
  BY DEF UserIs, UserEnd, AfterScheme
<1>2. HostIs' = HostIs
  BY <1>1 DEF HostIs, HostStarts, AfterScheme
<1>3. PortIs' = PortIs /\ AuthorityEnd' = AuthorityEnd
  BY DEF PortIs, AuthorityEnd
<1>4. PathIs' = PathIs
  BY <1>3 DEF PathIs
<1>5. QueryIs' = QueryIs /\ QueryEnd' = QueryEnd
  BY DEF QueryIs, QueryEnd
<1>6. UriIs' = UriIs
  BY <1>2, <1>3, <1>4, <1>5 DEF UriIs, FragmentIs
<1>7. QED
  BY <1>1, <1>2, <1>3, <1>4, <1>5, <1>6

\* The ends of the views of a URI are numbers.
LEMMA UriEnds ==
  ASSUME UriTypes
  PROVE  /\ out.scheme[2] \in Int /\ UserEnd \in Int /\ AuthorityEnd \in Int /\ QueryEnd \in Int
         /\ out.path[1] \in Int /\ out.path[2] \in Int /\ out.hostname[2] \in Int
         /\ out.username[2] \in Int
         /\ it \in Int /\ loc.prev \in Int /\ loc.end \in Int /\ Len(buf) \in Nat
<1>1. out \in Locators /\ loc \in LocatorLocals /\ Len(buf) \in Nat
  BY LenProperties DEF UriTypes
<1>2. /\ out.scheme[2] \in Int /\ out.username[2] \in Int /\ out.password[2] \in Int
      /\ out.hostname[2] \in Int /\ out.portstr[2] \in Int
  BY <1>1 DEF Locators, Views
<1>3. out.path[1] \in Int /\ out.path[2] \in Int /\ out.querystr[2] \in Int
  BY <1>1 DEF Locators, Views
<1>4. loc.prev \in Int /\ loc.end \in Int /\ it \in Int
  BY <1>1 DEF UriTypes, LocatorLocals
<1>5. UserEnd \in Int /\ AuthorityEnd \in Int /\ QueryEnd \in Int
  BY <1>2, <1>3 DEF UserEnd, AuthorityEnd, QueryEnd
<1>6. QED
  BY <1>1, <1>2, <1>3, <1>4, <1>5

\* A row that only moves on keeps the facts.
LEMMA UriNoneStep ==
  ASSUME UriTypes, UriFacts, NEW r \in Ur!Rules, r.do = "none", r.from = state,
         it < loc.end, buf[it] \in r.on, state' = r.to, it' = it + 1,
         buf' = buf, out' = out, loc' = loc
  PROVE  UriFacts'
<1>0. /\ UserIs' = UserIs /\ UserEnd' = UserEnd /\ HostIs' = HostIs /\ PortIs' = PortIs
      /\ AuthorityEnd' = AuthorityEnd /\ PathIs' = PathIs /\ QueryIs' = QueryIs
      /\ QueryEnd' = QueryEnd /\ UriIs' = UriIs
  BY UriUnmoved
<1>1. /\ out.scheme[2] \in Int /\ it \in Int /\ loc.prev \in Int /\ it >= 1 /\ loc.prev < it'
  <2>1. out.scheme[2] \in Int /\ loc.prev \in Int /\ loc.end \in Int
    BY UriEnds
  <2>2. it \in Int /\ it >= 1 /\ loc.prev <= it
    BY <2>1 DEF UriTypes
  <2>3. QED
    BY <2>1, <2>2
<1> USE <1>0, <1>1 DEF UriFacts, SchemeFacts, UserFacts, HostFacts, RestFacts, DoneFacts,
        InScheme, InUser, InHost, InRest, InQuery
<1>2. CASE state = "SchemeStart" /\ state' = "SchemeStart" /\ "/" \notin r.on
  BY <1>2
<1>3. CASE state = "SchemeEnd" /\ state' = "SchemeEndSlash"
  <2>1. SchemeFacts'
    BY <1>3
  <2>2. UserFacts'
    BY <1>3
  <2>3. HostFacts'
    BY <1>3
  <2>4. RestFacts' /\ DoneFacts'
    BY <1>3
  <2>5. QED
    BY <2>1, <2>2, <2>3, <2>4
<1>4. CASE state = "SchemeEndSlash" /\ state' = "SchemeEndSlashSlash"
  BY <1>4
<1>5. CASE state = "PortOrPassword" /\ state' = "Password"
  <2>1. SchemeFacts'
    BY <1>5
  <2>2. UserFacts'
    BY <1>5
  <2>3. HostFacts'
    BY <1>5
  <2>4. RestFacts' /\ DoneFacts'
    BY <1>5
  <2>5. QED
    BY <2>1, <2>2, <2>3, <2>4
<1>6. CASE state = "UsernameOrHostname" /\ state' = state
  <2>1. SchemeFacts'
    BY <1>6
  <2>2. UserFacts'
    BY <1>6 DEF AfterScheme
  <2>3. HostFacts'
    BY <1>6
  <2>4. RestFacts' /\ DoneFacts'
    BY <1>6
  <2>5. QED
    BY <2>1, <2>2, <2>3, <2>4
<1>7. CASE state \in {"PortOrPassword", "Password"} /\ state' = state
  <2>1. SchemeFacts'
    BY <1>7
  <2>2. UserFacts'
    BY <1>7
  <2>3. HostFacts'
    BY <1>7
  <2>4. RestFacts' /\ DoneFacts'
    BY <1>7
  <2>5. QED
    BY <2>1, <2>2, <2>3, <2>4
<1>8. CASE state = "Hostname" /\ state' = state
  BY <1>8 DEF HostStarts, AfterScheme
<1>9. CASE state = "Port" /\ state' = state
  BY <1>9
<1>10. CASE state = "Path" /\ state' = state
  BY <1>10
<1>11. CASE state = "Query" /\ state' = state
  BY <1>11
<1>12. CASE state \in {"QueryName", "QueryValue"} /\ state' = state
  BY <1>12
<1> HIDE <1>0, <1>1 DEF UriFacts, SchemeFacts, UserFacts, HostFacts, RestFacts, DoneFacts,
         InScheme, InUser, InHost, InRest, InQuery
<1>13. QED
  BY UriNone, <1>2, <1>3, <1>4, <1>5, <1>6, <1>7, <1>8, <1>9, <1>10, <1>11, <1>12

\* A row that remembers its position keeps the facts.
LEMMA UriMarkStep ==
  ASSUME UriTypes, UriFacts, NEW r \in Ur!Rules, r.do = "mark", r.from = state,
         it < loc.end, buf[it] \in r.on, state' = r.to, it' = it + 1,
         buf' = buf, out' = out, loc' = [loc EXCEPT !.prev = it]
  PROVE  UriFacts'
<1>0. /\ UserIs' = UserIs /\ UserEnd' = UserEnd /\ HostIs' = HostIs /\ PortIs' = PortIs
      /\ AuthorityEnd' = AuthorityEnd /\ PathIs' = PathIs /\ QueryIs' = QueryIs
      /\ QueryEnd' = QueryEnd /\ UriIs' = UriIs
  BY UriUnmoved
<1>1. /\ out.scheme[2] \in Int /\ it \in Int /\ it >= 1 /\ it' > it /\ it' = it + 1
  BY UriEnds DEF UriTypes
<1>2. loc'.prev = it
  BY DEF UriTypes, LocatorLocals
<1> USE <1>0, <1>1, <1>2 DEF UriFacts, SchemeFacts, UserFacts, HostFacts, RestFacts, DoneFacts,
        InScheme, InUser, InHost, InRest, InQuery
<1>3. CASE /\ state \in {"SchemeEnd", "SchemeEndSlash", "SchemeEndSlashSlash"}
           /\ state' = "UsernameOrHostname" /\ "/" \notin r.on
  BY <1>3 DEF AfterScheme
<1>4. CASE state = "PortOrPasswordStart" /\ state' = "PortOrPassword" /\ "/" \notin r.on
  BY <1>4
<1>5. CASE state = "HostnameStart" /\ state' = "Hostname" /\ "/" \notin r.on
  BY <1>5 DEF HostStarts, AfterScheme
<1>6. CASE state = "PortStart" /\ state' = "Port" /\ "/" \notin r.on
  BY <1>6
<1>7. CASE state = "QueryStart" /\ state' = "Query"
  BY <1>7
<1>8. CASE state = "QueryValueStart" /\ state' = "QueryValue"
  BY <1>8
<1>9. CASE state = "NewQueryStart" /\ state' = "QueryName"
  BY <1>9
<1> HIDE <1>0, <1>1, <1>2 DEF UriFacts, SchemeFacts, UserFacts, HostFacts, RestFacts, DoneFacts,
         InScheme, InUser, InHost, InRest, InQuery
<1>10. QED
  BY UriMarks, <1>3, <1>4, <1>5, <1>6, <1>7, <1>8, <1>9

\* The view of the scheme.
LEMMA UriSchemeStep ==
  ASSUME UriTypes, UriFacts, it < loc.end, it' = it + 1, buf' = buf, loc' = loc, buf[it] # "/",
         state = "SchemeStart", state' = "SchemeEnd",
         NEW v, v[1] = loc.prev, v[2] = it, out' = [out EXCEPT !.scheme = v]
  PROVE  UriFacts'
<1>1. out \in Locators /\ it \in Int /\ loc.prev \in Int /\ loc.prev <= it /\ loc.prev < it'
  BY UriEnds DEF UriTypes
<1>2. /\ out'.scheme = v /\ out'.username = out.username /\ out'.password = out.password
      /\ out'.hostname = out.hostname /\ out'.portstr = out.portstr
      /\ out'.path = out.path /\ out'.querystr = out.querystr /\ out'.fragment = out.fragment
  BY <1>1 DEF Locators
<1>3. SchemeFacts'
  <2>1. v[1] = 1 /\ v[1] <= v[2] /\ it' = v[2] + 1
    BY <1>1 DEF UriFacts, SchemeFacts
  <2>2. buf[loc.prev] # "/"
    BY <1>1 DEF UriFacts, SchemeFacts, InScheme
  <2>3. QED
    BY <1>1, <1>2, <2>1, <2>2 DEF SchemeFacts
<1>4. UserFacts' /\ HostFacts'
  BY <1>2 DEF UriFacts, UserFacts, HostFacts, InScheme, InUser, InHost, InRest
<1>5. RestFacts' /\ DoneFacts'
  BY <1>2 DEF UriFacts, RestFacts, DoneFacts, InScheme, InUser, InHost, InRest, InQuery
<1>6. QED
  BY <1>3, <1>4, <1>5 DEF UriFacts

\* A view that ends behind its beginning is not absent.
LEMMA NotAbsent ==
  ASSUME NEW v, v[1] # v[2]
  PROVE  v # Empty
  BY DEF Empty

\* The view of what may be a user's name.
LEMMA UriUserStep ==
  ASSUME UriTypes, UriFacts, it < loc.end, it' = it + 1, buf' = buf, loc' = loc,
         state = "UsernameOrHostname", state' \in {"PortOrPasswordStart", "HostnameStart"},
         NEW v, v[1] = loc.prev, v[2] = it, out' = [out EXCEPT !.username = v]
  PROVE  UriFacts'
<1>1. /\ out \in Locators /\ it \in Int /\ loc.prev \in Int /\ loc.prev < it /\ loc.prev < it'
  <2>1. out \in Locators /\ it \in Int /\ loc.prev \in Int
    BY UriEnds DEF UriTypes
  <2>2. loc.prev < it
    BY DEF UriFacts, SchemeFacts, InUser
  <2>3. QED
    BY <2>1, <2>2
<1>2. /\ out'.scheme = out.scheme /\ out'.username = v /\ out'.password = out.password
      /\ out'.hostname = out.hostname /\ out'.portstr = out.portstr
      /\ out'.path = out.path /\ out'.querystr = out.querystr /\ out'.fragment = out.fragment
  BY <1>1 DEF Locators
<1>3. out.password = Empty /\ AfterScheme(v[1])
  BY DEF UriFacts, UserFacts, InUser
<1>4. UserIs' /\ UserEnd' = it
  BY <1>1, <1>2, <1>3 DEF UserIs, UserEnd, AfterScheme
<1>5. SchemeFacts'
  BY <1>1, <1>2 DEF UriFacts, SchemeFacts, InScheme, InUser, InHost
<1>6. UserFacts'
  BY <1>2, <1>3, <1>4 DEF UserFacts, InScheme, InUser
<1>7. HostFacts'
  <2>1. HostStarts(it)'
    BY <1>4 DEF HostStarts
  <2>2. QED
    BY <1>2, <2>1 DEF UriFacts, HostFacts, InScheme, InUser, InHost, InRest
<1>8. RestFacts' /\ DoneFacts'
  BY <1>2 DEF UriFacts, RestFacts, DoneFacts, InScheme, InUser, InHost, InRest, InQuery
<1>9. QED
  BY <1>5, <1>6, <1>7, <1>8 DEF UriFacts

\* The view of a password.
LEMMA UriPasswordStep ==
  ASSUME UriTypes, UriFacts, it < loc.end, it' = it + 1, buf' = buf, loc' = loc,
         state \in {"PortOrPassword", "Password"}, state' = "HostnameStart",
         NEW v, v[1] = loc.prev, v[2] = it, out' = [out EXCEPT !.password = v]
  PROVE  UriFacts'
<1>1. /\ out \in Locators /\ it \in Int /\ loc.prev \in Int /\ loc.prev < it /\ loc.prev < it'
  <2>1. out \in Locators /\ it \in Int /\ loc.prev \in Int
    BY UriEnds DEF UriTypes
  <2>2. loc.prev < it
    BY DEF UriFacts, SchemeFacts, InUser
  <2>3. QED
    BY <2>1, <2>2
<1>2. /\ out'.scheme = out.scheme /\ out'.username = out.username /\ out'.password = v
      /\ out'.hostname = out.hostname /\ out'.portstr = out.portstr
      /\ out'.path = out.path /\ out'.querystr = out.querystr /\ out'.fragment = out.fragment
  BY <1>1 DEF Locators
<1>3. UserIs /\ out.password = Empty /\ loc.prev = UserEnd + 1
  BY DEF UriFacts, UserFacts, InUser
<1>4. UserIs' /\ UserEnd' = it
  <2>1. v # Empty
    BY <1>1, NotAbsent
  <2>2. v[1] = out.username[2] + 1 /\ v[1] < v[2]
    BY <1>1, <1>3 DEF UserEnd
  <2>3. QED
    BY <1>2, <1>3, <2>1, <2>2 DEF UserIs, UserEnd, AfterScheme
<1>5. SchemeFacts'
  BY <1>1, <1>2 DEF UriFacts, SchemeFacts, InScheme, InUser, InHost
<1>6. UserFacts'
  BY DEF UserFacts, InScheme, InUser
<1>7. HostFacts'
  <2>1. HostStarts(it)'
    BY <1>4 DEF HostStarts
  <2>2. QED
    BY <1>2, <2>1 DEF UriFacts, HostFacts, InScheme, InUser, InHost, InRest
<1>8. RestFacts' /\ DoneFacts'
  BY <1>2 DEF UriFacts, RestFacts, DoneFacts, InScheme, InUser, InHost, InRest, InQuery
<1>9. QED
  BY <1>5, <1>6, <1>7, <1>8 DEF UriFacts

\* The view of the host; with a slash behind it the path begins.
LEMMA UriHostStep ==
  ASSUME UriTypes, UriFacts, it < loc.end, it' = it + 1, buf' = buf,
         state \in {"UsernameOrHostname", "Hostname"},
         NEW v, v[1] = loc.prev, v[2] = it, out' = [out EXCEPT !.hostname = v],
         \/ state' = "Path" /\ buf[it] = "/" /\ loc' = [loc EXCEPT !.prev = it]
         \/ state' = "PortStart" /\ buf[it] # "/" /\ loc' = loc
  PROVE  UriFacts'
<1>1. /\ out \in Locators /\ it \in Int /\ loc.prev \in Int /\ loc.prev < it /\ loc.prev < it'
      /\ loc \in LocatorLocals
  <2>1. out \in Locators /\ it \in Int /\ loc.prev \in Int /\ loc \in LocatorLocals
    BY UriEnds DEF UriTypes
  <2>2. loc.prev < it
    BY DEF UriFacts, SchemeFacts, InUser, InHost
  <2>3. QED
    BY <2>1, <2>2
<1>2. /\ out'.scheme = out.scheme /\ out'.username = out.username /\ out'.password = out.password
      /\ out'.hostname = v /\ out'.portstr = out.portstr
      /\ out'.path = out.path /\ out'.querystr = out.querystr /\ out'.fragment = out.fragment
  BY <1>1 DEF Locators
<1>3. HostStarts(v[1])
  BY DEF UriFacts, UserFacts, HostFacts, InUser, HostStarts
<1>4. HostStarts(out.hostname[1])'
  <2>1. UserIs' = UserIs /\ UserEnd' = UserEnd
    BY <1>2 DEF UserIs, UserEnd, AfterScheme
  <2>2. QED
    BY <1>2, <1>3, <2>1 DEF HostStarts, AfterScheme
<1>5. out'.portstr = Empty
  BY <1>2 DEF UriFacts, HostFacts, InUser, InHost
<1>6. HostIs' /\ PortIs' /\ AuthorityEnd' = it /\ it' = out'.hostname[2] + 1
  BY <1>1, <1>2, <1>4, <1>5 DEF HostIs, PortIs, AuthorityEnd
<1>7. SchemeFacts'
  BY <1>1, <1>2 DEF UriFacts, SchemeFacts, InScheme, InUser, InHost
<1>8. UserFacts'
  BY DEF UserFacts, InScheme, InUser
<1>9. HostFacts'
  BY <1>5, <1>6 DEF HostFacts, InScheme, InUser, InHost
<1>10. RestFacts' /\ DoneFacts'
  <2>1. out'.path = Empty /\ out'.querystr = Empty /\ out'.fragment = Empty
    BY <1>2 DEF UriFacts, RestFacts, InUser, InHost
  <2>2. state' = "Path" => loc'.prev = it /\ it < it' /\ buf'[it] = "/"
    BY <1>1 DEF LocatorLocals
  <2>3. QED
    BY <1>6, <2>1, <2>2 DEF RestFacts, DoneFacts, InScheme, InUser, InHost, InRest, InQuery
<1>11. QED
  BY <1>7, <1>8, <1>9, <1>10 DEF UriFacts

\* The view of the port, of what was taken for a password or behind a host.
LEMMA UriPortStep ==
  ASSUME UriTypes, UriFacts, it < loc.end, it' = it + 1, buf' = buf, buf[it] = "/",
         state' = "Path", loc' = [loc EXCEPT !.prev = it],
         NEW v, v[1] = loc.prev, v[2] = it, NEW port \in Int,
         \/ /\ state = "PortOrPassword"
            /\ out' = [out EXCEPT !.hostname = out.username, !.username = out.hostname,
                                  !.portstr = v, !.port = port]
         \/ state = "Port" /\ out' = [out EXCEPT !.portstr = v, !.port = port]
  PROVE  UriFacts'
<1>1. /\ out \in Locators /\ it \in Int /\ loc.prev \in Int /\ loc.prev < it
      /\ loc \in LocatorLocals
  <2>1. out \in Locators /\ it \in Int /\ loc.prev \in Int /\ loc \in LocatorLocals
    BY UriEnds DEF UriTypes
  <2>2. loc.prev < it
    BY DEF UriFacts, SchemeFacts, InUser, InHost
  <2>3. QED
    BY <2>1, <2>2
<1>2. /\ out'.scheme = out.scheme /\ out'.password = out.password /\ out'.portstr = v
      /\ out'.path = out.path /\ out'.querystr = out.querystr /\ out'.fragment = out.fragment
  BY <1>1 DEF Locators
<1>3. v # Empty
  BY <1>1, NotAbsent
<1>4. HostIs' /\ out'.hostname[2] + 1 = loc.prev
  <2>1. CASE state = "PortOrPassword"
    <3>1. out.password = Empty /\ out.hostname = Empty /\ UserIs /\ loc.prev = UserEnd + 1
      BY <2>1 DEF UriFacts, UserFacts, HostFacts, InUser
    <3>2. out'.hostname = out.username /\ out'.username = out.hostname
      BY <1>1, <2>1 DEF Locators
    <3>6. PICK a : a = out.username[1]
      OBVIOUS
    <3>3. AfterScheme(a)' /\ a < out.username[2]
      BY <1>2, <3>1, <3>6 DEF UserIs, AfterScheme
    <3>4. HostStarts(out.hostname[1])'
      BY <1>2, <3>1, <3>2, <3>3, <3>6 DEF HostStarts, UserIs, AfterScheme
    <3>5. QED
      BY <3>1, <3>2, <3>3, <3>4, <3>6 DEF HostIs, UserEnd
  <2>2. CASE state = "Port"
    <3>1. HostIs /\ loc.prev = out.hostname[2] + 1
      BY <2>2 DEF UriFacts, HostFacts
    <3>2. out'.hostname = out.hostname /\ out'.username = out.username
      BY <1>1, <2>2 DEF Locators
    <3>3. UserIs' = UserIs /\ UserEnd' = UserEnd
      BY <1>2, <3>2 DEF UserIs, UserEnd, AfterScheme
    <3>4. QED
      BY <1>2, <3>1, <3>2, <3>3 DEF HostIs, HostStarts, AfterScheme
  <2>3. QED
    BY <2>1, <2>2
<1>5. PortIs' /\ AuthorityEnd' = it
  BY <1>1, <1>2, <1>3, <1>4 DEF PortIs, AuthorityEnd
<1>6. SchemeFacts' /\ UserFacts'
  BY <1>2 DEF UriFacts, SchemeFacts, UserFacts, InScheme, InUser, InHost
<1>7. HostFacts'
  BY <1>4, <1>5 DEF HostFacts, InScheme, InUser, InHost
<1>8. RestFacts' /\ DoneFacts'
  <2>1. out'.path = Empty /\ out'.querystr = Empty /\ out'.fragment = Empty
    BY <1>2 DEF UriFacts, RestFacts, InUser, InHost
  <2>2. loc'.prev = it /\ it < it' /\ buf'[it] = "/"
    BY <1>1 DEF LocatorLocals
  <2>3. QED
    BY <1>5, <2>1, <2>2 DEF RestFacts, DoneFacts, InScheme, InUser, InHost, InRest, InQuery
<1>9. QED
  BY <1>6, <1>7, <1>8 DEF UriFacts

\* The view of the path.
LEMMA UriPathStep ==
  ASSUME UriTypes, UriFacts, it < loc.end, it' = it + 1, buf' = buf, loc' = loc,
         state = "Path", state' \in {"HashStart", "QueryStart"},
         NEW v, v[1] = loc.prev, v[2] = it, out' = [out EXCEPT !.path = v]
  PROVE  UriFacts'
<1>1. /\ out \in Locators /\ it \in Int /\ loc.prev \in Int /\ loc.prev < it /\ 1 <= loc.prev
      /\ loc.prev = AuthorityEnd /\ buf[loc.prev] = "/"
  <2>1. out \in Locators /\ it \in Int /\ loc.prev \in Int /\ 1 <= loc.prev
    BY UriEnds DEF UriTypes
  <2>2. loc.prev < it /\ loc.prev = AuthorityEnd /\ buf[loc.prev] = "/"
    BY DEF UriFacts, RestFacts
  <2>3. QED
    BY <2>1, <2>2
<1>2. /\ out'.scheme = out.scheme /\ out'.username = out.username /\ out'.password = out.password
      /\ out'.hostname = out.hostname /\ out'.portstr = out.portstr
      /\ out'.path = v /\ out'.querystr = out.querystr /\ out'.fragment = out.fragment
  BY <1>1 DEF Locators
<1>3. out.querystr = Empty /\ out.fragment = Empty /\ HostIs /\ PortIs
  BY DEF UriFacts, HostFacts, RestFacts
<1>4. HostIs' /\ PortIs' /\ AuthorityEnd' = AuthorityEnd
  <2>1. UserIs' = UserIs /\ UserEnd' = UserEnd
    BY <1>2 DEF UserIs, UserEnd, AfterScheme
  <2>2. HostIs'
    BY <1>2, <1>3, <2>1 DEF HostIs, HostStarts, AfterScheme
  <2>3. PortIs' /\ AuthorityEnd' = AuthorityEnd
    BY <1>2, <1>3 DEF PortIs, AuthorityEnd
  <2>4. QED
    BY <2>2, <2>3
<1>5. PathIs' /\ QueryIs' /\ QueryEnd' = it
  BY <1>1, <1>2, <1>3, <1>4 DEF PathIs, QueryIs, QueryEnd
<1>6. SchemeFacts' /\ UserFacts'
  BY <1>2 DEF UriFacts, SchemeFacts, UserFacts, InScheme, InUser, InHost
<1>7. HostFacts'
  BY <1>4 DEF HostFacts, InScheme, InUser, InHost
<1>8. RestFacts' /\ DoneFacts'
  BY <1>1, <1>2, <1>3, <1>5 DEF RestFacts, DoneFacts, InScheme, InUser, InHost, InRest, InQuery
<1>9. QED
  BY <1>6, <1>7, <1>8 DEF UriFacts

\* The view of the query string.
LEMMA UriQueryStep ==
  ASSUME UriTypes, UriFacts, it < loc.end, it' = it + 1, buf' = buf, loc' = loc,
         state = "Query", state' = "HashStart",
         NEW v, v[1] = loc.prev, v[2] = it, out' = [out EXCEPT !.querystr = v]
  PROVE  UriFacts'
<1>1. /\ out \in Locators /\ it \in Int /\ loc.prev \in Int /\ loc.prev < it
      /\ loc.prev = out.path[2] + 1
  <2>1. out \in Locators /\ it \in Int /\ loc.prev \in Int
    BY UriEnds DEF UriTypes
  <2>2. loc.prev < it /\ loc.prev = out.path[2] + 1
    BY DEF UriFacts, RestFacts
  <2>3. QED
    BY <2>1, <2>2
<1>2. /\ out'.scheme = out.scheme /\ out'.username = out.username /\ out'.password = out.password
      /\ out'.hostname = out.hostname /\ out'.portstr = out.portstr
      /\ out'.path = out.path /\ out'.querystr = v /\ out'.fragment = out.fragment
  BY <1>1 DEF Locators
<1>3. out.fragment = Empty /\ HostIs /\ PortIs /\ PathIs /\ 1 <= out.path[1] /\ v # Empty
  BY <1>1, NotAbsent DEF UriFacts, HostFacts, RestFacts, InRest
<1>4. HostIs' /\ PortIs' /\ PathIs'
  <2>1. UserIs' = UserIs /\ UserEnd' = UserEnd
    BY <1>2 DEF UserIs, UserEnd, AfterScheme
  <2>2. HostIs'
    BY <1>2, <1>3, <2>1 DEF HostIs, HostStarts, AfterScheme
  <2>3. PortIs' /\ PathIs'
    BY <1>2, <1>3 DEF PortIs, AuthorityEnd, PathIs
  <2>4. QED
    BY <2>2, <2>3
<1>5. QueryIs' /\ QueryEnd' = it
  BY <1>1, <1>2, <1>3 DEF QueryIs, QueryEnd
<1>6. SchemeFacts' /\ UserFacts'
  BY <1>2 DEF UriFacts, SchemeFacts, UserFacts, InScheme, InUser, InHost
<1>7. HostFacts'
  BY <1>4 DEF HostFacts, InScheme, InUser, InHost
<1>8. RestFacts' /\ DoneFacts'
  BY <1>1, <1>2, <1>3, <1>4, <1>5
  DEF RestFacts, DoneFacts, InScheme, InUser, InHost, InRest, InQuery
<1>9. QED
  BY <1>6, <1>7, <1>8 DEF UriFacts

\* What goes on in the query string leaves the views alone.
LEMMA UriNameStep ==
  ASSUME UriTypes, UriFacts, state \in InQuery, buf' = buf,
         state' \in InQuery \union {"Completed"},
         NEW q, out' = out \/ out' = [out EXCEPT !.queries = q]
  PROVE  UriFacts'
<1>1. out \in Locators
  BY DEF UriTypes
<1>2. /\ out'.scheme = out.scheme /\ out'.username = out.username /\ out'.password = out.password
      /\ out'.hostname = out.hostname /\ out'.portstr = out.portstr
      /\ out'.path = out.path /\ out'.querystr = out.querystr /\ out'.fragment = out.fragment
  BY <1>1 DEF Locators
<1>3. UriIs /\ out.scheme[1] = 1 /\ out.scheme[1] <= out.scheme[2]
  BY DEF UriFacts, SchemeFacts, DoneFacts, InQuery
<1>4. UriIs' /\ out'.scheme[1] = 1 /\ out'.scheme[1] <= out'.scheme[2]
  <2>1. UriIs' = UriIs
    BY <1>2, UriUnmoved
  <2>2. QED
    BY <1>2, <1>3, <2>1
<1>5. DoneFacts'
  BY <1>4 DEF DoneFacts
<1>6. CASE state' = "Completed"
  BY <1>5, <1>6 DEF UriFacts
<1>7. CASE state' \in InQuery
  <2>1. SchemeFacts' /\ UserFacts' /\ HostFacts' /\ RestFacts'
    BY <1>4, <1>7 DEF SchemeFacts, UserFacts, HostFacts, RestFacts, InScheme, InUser, InHost,
       InRest, InQuery
  <2>2. QED
    BY <1>5, <2>1 DEF UriFacts
<1>8. QED
  BY <1>6, <1>7

\* The fragment is the rest of the text.
LEMMA UriFragmentStep ==
  ASSUME UriTypes, UriFacts, state = "HashStart", it < loc.end, buf' = buf,
         state' \in InQuery \union {"Completed"},
         NEW v, v[1] = it, v[2] = Len(buf) + 1, out' = [out EXCEPT !.fragment = v]
  PROVE  UriFacts'
<1>1. out \in Locators /\ it \in Int /\ Len(buf) \in Nat /\ it < Len(buf) + 1
  BY UriEnds DEF UriTypes, InQuery, Verdicts
<1>2. /\ out'.scheme = out.scheme /\ out'.username = out.username /\ out'.password = out.password
      /\ out'.hostname = out.hostname /\ out'.portstr = out.portstr
      /\ out'.path = out.path /\ out'.querystr = out.querystr /\ out'.fragment = v
  BY <1>1 DEF Locators
<1>3. /\ HostIs /\ PortIs /\ PathIs /\ QueryIs /\ it = QueryEnd + 1
      /\ out.scheme[1] = 1 /\ out.scheme[1] <= out.scheme[2]
  BY DEF UriFacts, SchemeFacts, HostFacts, RestFacts, InRest
<1>4. HostIs' /\ PortIs' /\ PathIs' /\ QueryIs' /\ QueryEnd' = QueryEnd
  <2>1. UserIs' = UserIs /\ UserEnd' = UserEnd
    BY <1>2 DEF UserIs, UserEnd, AfterScheme
  <2>2. HostIs'
    BY <1>2, <1>3, <2>1 DEF HostIs, HostStarts, AfterScheme
  <2>3. PortIs' /\ PathIs'
    BY <1>2, <1>3 DEF PortIs, AuthorityEnd, PathIs
  <2>4. QueryIs' /\ QueryEnd' = QueryEnd
    BY <1>2, <1>3 DEF QueryIs, QueryEnd
  <2>5. QED
    BY <2>2, <2>3, <2>4
<1>5. FragmentIs'
  <2>1. v # Empty
    BY <1>1, NotAbsent
  <2>2. QED
    BY <1>1, <1>2, <1>3, <1>4, <2>1 DEF FragmentIs
<1>6. UriIs'
  BY <1>4, <1>5 DEF UriIs
<1>7. DoneFacts'
  BY <1>2, <1>3, <1>6 DEF DoneFacts
<1>8. CASE state' = "Completed"
  BY <1>7, <1>8 DEF UriFacts
<1>9. CASE state' \in InQuery
  <2>1. SchemeFacts' /\ UserFacts' /\ HostFacts' /\ RestFacts'
    BY <1>2, <1>3, <1>9 DEF SchemeFacts, UserFacts, HostFacts, RestFacts, InScheme, InUser,
       InHost, InRest, InQuery
  <2>2. QED
    BY <1>7, <2>1 DEF UriFacts
<1>10. QED
  BY <1>8, <1>9

\* The end of the text, when there was no path: it is the path, or what is
\* open does not begin with a slash.
LEMMA UriPathEnds ==
  ASSUME UriTypes, UriFacts, it >= loc.end, buf' = buf,
         state \notin Verdicts \union InQuery, out.path[1] = out.path[2], state' = "Completed",
         NEW v, v[1] = loc.prev, v[2] = Len(buf) + 1, out' = [out EXCEPT !.path = v]
  PROVE  UriFacts'
<1>1. /\ out \in Locators /\ it \in Int /\ Len(buf) \in Nat /\ it = Len(buf) + 1
      /\ loc.prev \in Int /\ 1 <= loc.prev /\ loc.prev <= it
  BY UriEnds DEF UriTypes
<1>2. /\ out'.scheme = out.scheme /\ out'.username = out.username /\ out'.password = out.password
      /\ out'.hostname = out.hostname /\ out'.portstr = out.portstr
      /\ out'.path = v /\ out'.querystr = out.querystr /\ out'.fragment = out.fragment
  BY <1>1 DEF Locators
<1>3. state \in InScheme \union InUser \union InHost \union {"Path"}
  <2>1. state \notin InRest
    <3>1. out.path[1] \in Int /\ out.path[2] \in Int
      BY UriEnds
    <3>2. QED
      BY <3>1, <1>1 DEF UriFacts, RestFacts, PathIs, InRest
  <2>2. QED
    BY <2>1 DEF UriTypes, UriStates
<1>4. CASE state # "Path"
  <2>1. loc.prev = it \/ buf[loc.prev] # "/"
    BY <1>3, <1>4, <1>1 DEF UriFacts, SchemeFacts, InScheme, InUser, InHost
  <2>2. Rootless'
    BY <1>1, <1>2, <2>1 DEF Rootless
  <2>3. QED
    BY <2>2 DEF UriFacts, DoneFacts, InQuery
<1>5. CASE state = "Path"
  <2>1. /\ loc.prev = AuthorityEnd /\ loc.prev < it /\ buf[loc.prev] = "/" /\ HostIs /\ PortIs
        /\ out.querystr = Empty /\ out.fragment = Empty
        /\ out.scheme[1] = 1 /\ out.scheme[1] <= out.scheme[2]
    BY <1>5 DEF UriFacts, SchemeFacts, HostFacts, RestFacts
  <2>2. UserIs' = UserIs /\ UserEnd' = UserEnd
    BY <1>2 DEF UserIs, UserEnd, AfterScheme
  <2>3. HostIs'
    BY <1>2, <2>1, <2>2 DEF HostIs, HostStarts, AfterScheme
  <2>4. PortIs' /\ PathIs'
    BY <1>1, <1>2, <2>1 DEF PortIs, AuthorityEnd, PathIs
  <2>5. QueryIs' /\ FragmentIs'
    BY <1>1, <1>2, <2>1 DEF QueryIs, FragmentIs, QueryEnd
  <2>6. QED
    BY <1>2, <2>1, <2>3, <2>4, <2>5 DEF UriIs, UriFacts, DoneFacts, InQuery
<1>6. QED
  BY <1>4, <1>5

\* The end of the text, when there was no query string: it is the query string.
LEMMA UriQueryEnds ==
  ASSUME UriTypes, UriFacts, it >= loc.end, buf' = buf, state = "Query",
         state' \in InQuery,
         NEW v, v[1] = loc.prev, v[2] = Len(buf) + 1, out' = [out EXCEPT !.querystr = v]
  PROVE  UriFacts'
<1>1. /\ out \in Locators /\ it \in Int /\ Len(buf) \in Nat /\ it = Len(buf) + 1
      /\ loc.prev \in Int
  BY UriEnds DEF UriTypes, InQuery, Verdicts
<1>2. /\ out'.scheme = out.scheme /\ out'.username = out.username /\ out'.password = out.password
      /\ out'.hostname = out.hostname /\ out'.portstr = out.portstr
      /\ out'.path = out.path /\ out'.querystr = v /\ out'.fragment = out.fragment
  BY <1>1 DEF Locators
<1>3. /\ loc.prev = out.path[2] + 1 /\ loc.prev < it /\ HostIs /\ PortIs /\ PathIs
      /\ out.fragment = Empty /\ out.scheme[1] = 1 /\ out.scheme[1] <= out.scheme[2]
  BY DEF UriFacts, SchemeFacts, HostFacts, RestFacts, InRest
<1>4. HostIs' /\ PortIs' /\ PathIs'
  <2>1. UserIs' = UserIs /\ UserEnd' = UserEnd
    BY <1>2 DEF UserIs, UserEnd, AfterScheme
  <2>2. HostIs'
    BY <1>2, <1>3, <2>1 DEF HostIs, HostStarts, AfterScheme
  <2>3. PortIs' /\ PathIs'
    BY <1>2, <1>3 DEF PortIs, AuthorityEnd, PathIs
  <2>4. QED
    BY <2>2, <2>3
<1>5. QueryIs' /\ FragmentIs'
  <2>1. v # Empty
    BY <1>1, <1>3, NotAbsent
  <2>2. QED
    BY <1>1, <1>2, <1>3, <2>1 DEF QueryIs, FragmentIs, QueryEnd
<1>6. SchemeFacts' /\ UserFacts' /\ HostFacts' /\ RestFacts'
  BY <1>2, <1>3 DEF SchemeFacts, UserFacts, HostFacts, RestFacts, InScheme, InUser, InHost,
     InRest, InQuery
<1>7. QED
  BY <1>4, <1>5, <1>6 DEF UriIs, UriFacts, DoneFacts, InQuery

\* The URI parser has operators of HttpText of its own: they are the same.
LEMMA SameUriText ==
  /\ Ur!Digit = Digit /\ Ur!Empty = Empty /\ Ur!Verdicts = Verdicts
  /\ \A b, v : Ur!Text(b, v) = Text(b, v)
  BY DEF Ur!Digit, Digit, Ur!Empty, Empty, Ur!Text, Text, Ur!Verdicts, Verdicts

\* Its atoi is the same too.
LEMMA SameUriNumber == \A t, d, b : Ur!Number(t, d, b) = Number(t, d, b)
<1>1. \A S : Ur!Min(S) = Min(S)
  BY DEF Ur!Min, Min
<1>2. \A t, on : Ur!Leading(t, on) = Leading(t, on)
  BY <1>1 DEF Ur!Leading, Leading, Ur!SelectInSeq, SelectInSeq
<1>3. \A s, t : Ur!IsPrefix(s, t) = IsPrefix(s, t)
  BY DEF Ur!IsPrefix, IsPrefix
<1>4. Ur!Value = Value
  BY DEF Ur!Value, Value, Ur!HexDigit, HexDigit, Ur!Digit, Digit
<1>5. \A d, b, v : Ur!Positional(d, b, v) = Positional(d, b, v)
  BY DEF Ur!Positional, Positional
<1>6. QED
  BY <1>2, <1>3, <1>4, <1>5 DEF Ur!Number, Number

\* A row stays within the query string, or before it.
LEMMA UriRows ==
  ASSUME NEW r \in Ur!Rules
  PROVE  /\ r.to \in UriStates \ Verdicts /\ r.from \in UriStates \ Verdicts
         /\ r.from \in InQuery <=> r.to \in InQuery
  BY DEF Ur!Rules, Ur!Rule, UriStates, InScheme, InUser, InHost, InRest, InQuery, Verdicts

\* A row of the table keeps the types.
LEMMA UriTypesFollow ==
  ASSUME UriTypes, it < loc.end, NEW r \in Ur!Rules, r.from = state, state' = r.to,
         Ur!Do(r.do), it' = it + 1, buf' = buf
  PROVE  UriTypes'
<1>1. /\ out \in Locators /\ loc \in LocatorLocals /\ it \in Int /\ loc.prev \in Int /\ 1 <= it
      /\ 1 <= loc.prev /\ loc.prev <= it /\ loc.end \in Int /\ Len(buf) \in Nat
      /\ out.queries \in Seq(Headers) /\ loc.name \in Views
  BY UriEnds DEF UriTypes, Locators, LocatorLocals
<1>2. PICK v \in Views : v = <<loc.prev, it>> /\ v = Ur!View
  BY <1>1 DEF Views, Ur!View
<1>3. /\ out' \in Locators /\ loc' \in LocatorLocals
      /\ loc'.prev \in {loc.prev, it} /\ loc'.end = loc.end
  <2>1. CASE r.do = "none"
    BY <1>1, <2>1 DEF Ur!Do
  <2>2. CASE r.do = "mark"
    <3>1. loc' = [loc EXCEPT !.prev = it] /\ out' = out
      BY <2>2 DEF Ur!Do
    <3>2. QED
      BY <1>1, <3>1 DEF LocatorLocals
  <2>3. CASE r.do = "hostname"
    <3>1. out' = [out EXCEPT !.hostname = v] /\ (loc' = loc \/ loc' = [loc EXCEPT !.prev = it])
      BY <1>2, <2>3 DEF Ur!Do
    <3>2. out' \in Locators
      BY <1>1, <3>1 DEF Locators
    <3>3. loc' \in LocatorLocals /\ loc'.prev \in {loc.prev, it} /\ loc'.end = loc.end
      BY <1>1, <3>1 DEF LocatorLocals
    <3>4. QED
      BY <3>2, <3>3
  <2>4. CASE r.do = "name"
    <3>1. loc' = [loc EXCEPT !.name = v] /\ out' = out
      BY <1>2, <2>4 DEF Ur!Do
    <3>2. QED
      BY <1>1, <3>1 DEF LocatorLocals
  <2>5. CASE r.do = "query"
    <3>1. PICK h : h = [name |-> loc.name, value |-> v]
      OBVIOUS
    <3>2. h \in Headers
      BY <1>1, <3>1 DEF Headers
    <3>3. PICK hs : hs = Append(out.queries, h) /\ hs \in Seq(Headers)
      BY <1>1, <3>2, AppendProperties
    <3>4. out' = [out EXCEPT !.queries = hs] /\ loc' = loc
      BY <1>2, <2>5, <3>1, <3>3 DEF Ur!Do, Ur!Query
    <3>5. out' \in Locators
      BY <1>1, <3>3, <3>4 DEF Locators
    <3>6. QED
      BY <1>1, <3>4, <3>5
  <2>6. CASE r.do \notin {"none", "mark", "hostname", "name", "query"}
    <3>1. out' = [out EXCEPT ![r.do] = v] /\ loc' = loc
      BY <1>2, <2>6 DEF Ur!Do
    <3>2. r.do \in {"scheme", "username", "password", "path", "querystr"}
      BY <2>6, UriViews
    <3>3. out' \in Locators
      BY <1>1, <3>1, <3>2 DEF Locators
    <3>4. QED
      BY <1>1, <3>1, <3>3
  <2>7. QED
    BY <2>1, <2>2, <2>3, <2>4, <2>5, <2>6
<1>4. it' \in 1 .. loc'.end /\ loc'.prev \in 1 .. it' /\ loc'.end <= Len(buf') + 1
  <2>1. loc.end <= Len(buf) + 1
    BY DEF UriTypes
  <2>2. it + 1 \in 1 .. loc.end /\ loc.prev \in 1 .. it + 1 /\ it \in 1 .. it + 1
    BY <1>1
  <2>3. QED
    BY <1>3, <2>1, <2>2
<1>5. state' \in UriStates /\ (state' \notin InQuery \union Verdicts => loc'.end = Len(buf') + 1)
  <2>1. /\ state' \in UriStates \ Verdicts /\ state \notin Verdicts
        /\ state \in InQuery <=> state' \in InQuery
    BY UriRows
  <2>2. QED
    BY <1>3, <2>1 DEF UriTypes
<1>6. QED
  BY <1>3, <1>4, <1>5 DEF UriTypes

\* A row of the table keeps the invariant.
LEMMA UriFollow ==
  ASSUME UriTypes, UriFacts, Ur!Follow
  PROVE  UriTypes' /\ UriFacts'
<1>1. PICK r \in Ur!Rules : r.from = state /\ buf[it] \in r.on /\ Ur!Do(r.do) /\ state' = r.to
  BY DEF Ur!Follow, Ur!Cur
<1>2. it < loc.end /\ it' = it + 1 /\ buf' = buf
  BY DEF Ur!Follow, Ur!Reading
<1>3. UriTypes'
  BY <1>1, <1>2, UriTypesFollow
<1>4. it \in Int /\ loc.prev \in Int
  BY UriEnds
<1>5. CASE r.do = "none"
  <2>1. out' = out /\ loc' = loc
    BY <1>1, <1>5 DEF Ur!Do
  <2>2. QED
    BY <1>1, <1>2, <1>3, <1>5, <2>1, UriNoneStep
<1>6. CASE r.do = "mark"
  <2>1. out' = out /\ loc' = [loc EXCEPT !.prev = it]
    BY <1>1, <1>6 DEF Ur!Do
  <2>2. QED
    BY <1>1, <1>2, <1>3, <1>6, <2>1, UriMarkStep
<1>7. PICK v : v = <<loc.prev, it>> /\ v[1] = loc.prev /\ v[2] = it
  <2>1. <<loc.prev, it>>[1] = loc.prev /\ <<loc.prev, it>>[2] = it
    OBVIOUS
  <2>2. QED
    BY <2>1
<1>8. Ur!View = v
  BY <1>7 DEF Ur!View
<1>9. CASE r.do = "scheme"
  <2>1. /\ out' = [out EXCEPT !.scheme = v] /\ loc' = loc
        /\ state = "SchemeStart" /\ state' = "SchemeEnd" /\ buf[it] # "/"
    BY <1>1, <1>8, <1>9, UriViews DEF Ur!Do
  <2>2. QED
    BY <1>2, <1>3, <1>7, <2>1, UriSchemeStep
<1>10. CASE r.do = "username"
  <2>1. /\ out' = [out EXCEPT !.username = v] /\ loc' = loc
        /\ state = "UsernameOrHostname" /\ state' \in {"PortOrPasswordStart", "HostnameStart"}
    BY <1>1, <1>8, <1>10, UriViews DEF Ur!Do
  <2>2. QED
    BY <1>2, <1>3, <1>7, <2>1, UriUserStep
<1>11. CASE r.do = "hostname"
  <2>1. /\ out' = [out EXCEPT !.hostname = v]
        /\ loc' = IF buf[it] = "/" THEN [loc EXCEPT !.prev = it] ELSE loc
    BY <1>1, <1>8, <1>11 DEF Ur!Do, Ur!Cur
  <2>2. /\ state \in {"UsernameOrHostname", "Hostname"}
        /\ \/ state' = "Path" /\ buf[it] = "/"
           \/ state' = "PortStart" /\ buf[it] # "/"
    BY <1>1, <1>11, UriViews
  <2>3. QED
    BY <1>2, <1>3, <1>7, <2>1, <2>2, UriHostStep
<1>12. CASE r.do = "password"
  <2>1. /\ out' = [out EXCEPT !.password = v] /\ loc' = loc
        /\ state \in {"PortOrPassword", "Password"} /\ state' = "HostnameStart"
    BY <1>1, <1>8, <1>12, UriViews DEF Ur!Do
  <2>2. QED
    BY <1>2, <1>3, <1>7, <2>1, UriPasswordStep
<1>13. CASE r.do = "path"
  <2>1. /\ out' = [out EXCEPT !.path = v] /\ loc' = loc
        /\ state = "Path" /\ state' \in {"HashStart", "QueryStart"}
    BY <1>1, <1>8, <1>13, UriViews DEF Ur!Do
  <2>2. QED
    BY <1>2, <1>3, <1>7, <2>1, UriPathStep
<1>14. CASE r.do = "querystr"
  <2>1. /\ out' = [out EXCEPT !.querystr = v] /\ loc' = loc
        /\ state = "Query" /\ state' = "HashStart"
    BY <1>1, <1>8, <1>14, UriViews DEF Ur!Do
  <2>2. QED
    BY <1>2, <1>3, <1>7, <2>1, UriQueryStep
<1>15. CASE r.do \in {"name", "query"}
  <2>1. state \in InQuery /\ state' \in InQuery
    BY <1>1, <1>15, UriViews DEF InQuery
  <2>2. \E q : out' = out \/ out' = [out EXCEPT !.queries = q]
    BY <1>1, <1>15 DEF Ur!Do
  <2>3. QED
    BY <1>2, <1>3, <2>1, <2>2, UriNameStep
<1>16. QED
  BY <1>1, <1>5, <1>6, <1>9, <1>10, <1>11, <1>12, <1>13, <1>14, <1>15, UriViews

\* The port, behind a host or in the place of a password.
LEMMA UriPorts ==
  ASSUME UriTypes, UriFacts, Ur!PortOrPassword \/ Ur!PortEnd
  PROVE  UriTypes' /\ UriFacts'
<1>1. /\ out \in Locators /\ loc \in LocatorLocals /\ it \in Int /\ loc.prev \in Int /\ 1 <= it
      /\ 1 <= loc.prev /\ loc.prev <= it /\ loc.end \in Int /\ Len(buf) \in Nat
      /\ buf \in Seq(Symbols) /\ loc.end <= Len(buf) + 1
  BY UriEnds DEF UriTypes
<1>2. /\ it < loc.end /\ it' = it + 1 /\ buf' = buf /\ buf[it] = "/" /\ state' = "Path"
      /\ loc' = [loc EXCEPT !.prev = it] /\ state \in {"PortOrPassword", "Port"}
  BY DEF Ur!PortOrPassword, Ur!PortEnd, Ur!Reading, Ur!IsPort, Ur!Cur
<1>3. PICK v \in Views : v = <<loc.prev, it>> /\ v = Ur!View
  BY <1>1 DEF Views, Ur!View
<1>4. PICK port \in Int : port = Ur!Port(v)
  <2>1. PICK p \in Int, q \in Int : p = loc.prev /\ q = it
    BY <1>1
  <2>2. 10 \in Nat /\ Digit \subseteq HexDigit /\ 1 <= p /\ p <= q /\ q <= Len(buf) + 1
    BY <1>1, <1>2, <2>1 DEF HexDigit
  <2>3. Number(Text(buf, <<p, q>>), Digit, 10) \in Int
    BY <1>1, <2>2, ViewNumber
  <2>4. Ur!Port(v) = Number(Text(buf, <<p, q>>), Digit, 10) % 65536
    BY <1>3, <2>1, SameUriText, SameUriNumber DEF Ur!Port
  <2>5. QED
    BY <2>3, <2>4
<1>5. \/ /\ state = "PortOrPassword"
         /\ out' = [out EXCEPT !.hostname = out.username, !.username = out.hostname,
                               !.portstr = v, !.port = port]
      \/ state = "Port" /\ out' = [out EXCEPT !.portstr = v, !.port = port]
  BY <1>3, <1>4 DEF Ur!PortOrPassword, Ur!PortEnd
<1>6. out' \in Locators
  BY <1>1, <1>5 DEF Locators
<1>7. loc' \in LocatorLocals /\ loc'.prev = it /\ loc'.end = loc.end
  BY <1>1, <1>2 DEF LocatorLocals
<1>8. UriTypes'
  <2>1. it + 1 \in 1 .. loc.end /\ it \in 1 .. it + 1
    BY <1>1, <1>2
  <2>2. loc.end = Len(buf) + 1
    BY <1>2 DEF UriTypes, InQuery, Verdicts
  <2>3. state' \in UriStates
    BY <1>2 DEF UriStates
  <2>4. QED
    BY <1>1, <1>2, <1>6, <1>7, <2>1, <2>2, <2>3 DEF UriTypes
<1>9. v[1] = loc.prev /\ v[2] = it
  BY <1>3
<1>10. UriFacts'
  BY <1>2, <1>5, <1>9, UriPortStep
<1>11. QED
  BY <1>8, <1>10

\* Where parse_queries is called: it has a verdict, or starts over at the
\* query string q.
LEMMA QueriesStart ==
  ASSUME NEW q, Ur!StartQueries(q)
  PROVE  \/ /\ state' \in {"Completed", "Error"} /\ it' = it /\ loc' = loc
            /\ state' = "Error" => buf[q[1]] \notin Ur!Name
         \/ /\ state' = "QueryName" /\ it' = q[1] /\ q[1] # q[2] /\ buf[q[1]] \in Ur!Name
            /\ loc' = [prev |-> q[1], name |-> Empty, end |-> q[2]]
  BY SameUriText DEF Ur!StartQueries, Ur!IsEmpty

\* The types hold with a verdict, and when parse_queries starts over.
LEMMA UriTypesEnd ==
  ASSUME UriTypes, out' \in Locators, buf' = buf,
         \/ state' \in Verdicts /\ it' = it /\ loc' = loc
         \/ /\ state' = "QueryName"
            /\ \E p \in 1 .. Len(buf) + 1, e \in 1 .. Len(buf) + 1 :
                 p <= e /\ it' = p /\ loc' = [prev |-> p, name |-> Empty, end |-> e]
  PROVE  UriTypes'
<1>1. CASE state' \in Verdicts /\ it' = it /\ loc' = loc
  BY <1>1 DEF UriTypes, UriStates
<1>2. ASSUME NEW p \in 1 .. Len(buf) + 1, NEW e \in 1 .. Len(buf) + 1, state' = "QueryName",
             p <= e, it' = p, loc' = [prev |-> p, name |-> Empty, end |-> e]
      PROVE  UriTypes'
  <2>1. Len(buf) \in Nat /\ p \in Int /\ e \in Int
    BY UriEnds
  <2>2. p \in 1 .. e /\ p \in 1 .. p /\ e <= Len(buf) + 1
    BY <1>2, <2>1
  <2>3. loc' \in LocatorLocals /\ loc'.prev = p /\ loc'.end = e
    BY <1>2, <2>1 DEF LocatorLocals, Empty, Views
  <2>4. state' \in UriStates /\ state' \in InQuery
    BY <1>2 DEF UriStates, InQuery
  <2>5. QED
    BY <1>2, <2>2, <2>3, <2>4 DEF UriTypes
<1>3. QED
  BY <1>1, <1>2

\* The fragment, and the call of parse_queries.
LEMMA UriFragments ==
  ASSUME UriTypes, UriFacts, Ur!Fragment
  PROVE  UriTypes' /\ (~Failed => UriFacts)'
<1>1. /\ out \in Locators /\ it \in Int /\ Len(buf) \in Nat /\ loc.end = Len(buf) + 1
      /\ it < loc.end /\ state = "HashStart" /\ buf' = buf /\ Ur!StartQueries(out.querystr)
      /\ out' = [out EXCEPT !.fragment = <<it, Len(buf) + 1>>]
  BY UriEnds DEF UriTypes, Ur!Fragment, Ur!Reading, InQuery, Verdicts
<1>2. PICK v : v = <<it, Len(buf) + 1>> /\ v \in Views /\ v[1] = it /\ v[2] = Len(buf) + 1
  <2>0. PICK end \in Int : end = Len(buf) + 1
    BY <1>1
  <2>1. PICK v \in Views : v = <<it, end>>
    BY <1>1 DEF Views
  <2>2. v[1] = it /\ v[2] = end
    BY <2>1
  <2>3. QED
    BY <2>0, <2>1, <2>2
<1>3. out' = [out EXCEPT !.fragment = v]
  BY <1>1, <1>2
<1>4. out' \in Locators
  BY <1>1, <1>2, <1>3 DEF Locators
<1>5. UriTypes'
  <2>1. CASE state' \in {"Completed", "Error"} /\ it' = it /\ loc' = loc
    BY <1>1, <1>4, <2>1, UriTypesEnd DEF Verdicts
  <2>2. ASSUME state' = "QueryName", it' = out.querystr[1], out.querystr[1] # out.querystr[2],
               loc' = [prev |-> out.querystr[1], name |-> Empty, end |-> out.querystr[2]]
        PROVE  UriTypes'
    <3>1. PICK p \in Int, e \in Int : p = out.querystr[1] /\ e = out.querystr[2]
      BY <1>1 DEF Locators, Views
    <3>2. out.querystr # Empty
      BY <2>2, NotAbsent
    <3>3. /\ p = out.path[2] + 1 /\ p < e /\ it = e + 1
          /\ 1 <= out.path[1] /\ out.path[1] < out.path[2]
      BY <1>1, <3>1, <3>2 DEF UriFacts, RestFacts, InRest, QueryIs, QueryEnd, PathIs
    <3>4. p \in 1 .. Len(buf) + 1 /\ e \in 1 .. Len(buf) + 1 /\ p <= e
      <4>1. out.path[1] \in Int /\ out.path[2] \in Int
        BY UriEnds
      <4>2. PICK x \in Int, y \in Int, n \in Int :
              x = out.path[1] /\ y = out.path[2] /\ n = Len(buf)
        BY <1>1, <4>1
      <4>3. it <= n + 1 /\ it \in Int /\ 1 <= x /\ x < y /\ p = y + 1 /\ p < e /\ it = e + 1
        BY <1>1, <3>3, <4>2
      <4>4. QED
        BY <4>2, <4>3
    <3>5. QED
      BY <1>1, <1>4, <2>2, <3>1, <3>4, UriTypesEnd
  <2>3. QED
    BY <1>1, <2>1, <2>2, QueriesStart
<1>6. CASE state' = "Error"
  BY <1>5, <1>6 DEF Failed
<1>7. CASE state' \in InQuery \union {"Completed"}
  BY <1>1, <1>2, <1>3, <1>5, <1>7, UriFragmentStep
<1>8. QED
  BY <1>1, <1>6, <1>7, QueriesStart DEF InQuery

\* The end of the text, and the call of parse_queries.
LEMMA UriTextEnds ==
  ASSUME UriTypes, UriFacts, Ur!EndOfText
  PROVE  UriTypes' /\ (~Failed => UriFacts)'
<1>1. /\ out \in Locators /\ it \in Int /\ Len(buf) \in Nat /\ loc.prev \in Int
      /\ 1 <= loc.prev /\ loc.prev <= it
  BY UriEnds DEF UriTypes
<1>2. /\ state \notin Verdicts \union InQuery /\ it >= loc.end /\ buf' = buf
  BY SameUriText DEF Ur!EndOfText, Ur!InQueries, InQuery
<1>3. loc.end = Len(buf) + 1 /\ it = Len(buf) + 1
  BY <1>1, <1>2, UriEnds DEF UriTypes
<1>4. PICK v \in Views : v = <<loc.prev, Len(buf) + 1>>
  <2>1. PICK end \in Int : end = Len(buf) + 1
    BY <1>1
  <2>2. PICK v \in Views : v = <<loc.prev, end>>
    BY <1>1 DEF Views
  <2>3. QED
    BY <2>1, <2>2
<1>5. v[1] = loc.prev /\ v[2] = Len(buf) + 1
  BY <1>4
<1>6. \/ /\ out.path[1] = out.path[2] /\ out' = [out EXCEPT !.path = v]
         /\ state' = "Completed" /\ it' = it /\ loc' = loc
      \/ /\ out.path[1] # out.path[2] /\ out.querystr[1] = out.querystr[2]
         /\ out' = [out EXCEPT !.querystr = v] /\ Ur!StartQueries(v)
      \/ state' = "InCompleted" /\ it' = it /\ loc' = loc /\ out' = out
  BY <1>4 DEF Ur!EndOfText, Ur!IsEmpty
<1>7. CASE /\ out.path[1] = out.path[2] /\ out' = [out EXCEPT !.path = v]
           /\ state' = "Completed" /\ it' = it /\ loc' = loc
  <2>1. out' \in Locators
    BY <1>1, <1>7 DEF Locators
  <2>2. UriTypes'
    BY <1>2, <1>7, <2>1, UriTypesEnd DEF Verdicts
  <2>3. QED
    BY <1>2, <1>5, <1>7, <2>2, UriPathEnds
<1>8. CASE /\ out.path[1] # out.path[2] /\ out.querystr[1] = out.querystr[2]
           /\ out' = [out EXCEPT !.querystr = v] /\ Ur!StartQueries(v)
  <2>1. out' \in Locators
    BY <1>1, <1>8 DEF Locators
  <2>2. state \in InRest
    <3>1. state \notin InScheme \union InUser \union InHost \union {"Path"}
      BY <1>8 DEF UriFacts, RestFacts, Empty, Verdicts, InScheme, InUser, InHost
    <3>2. QED
      BY <1>2, <3>1 DEF UriTypes, UriStates
  <2>3. CASE state = "Query"
    <3>1. v[1] < v[2]
      BY <1>1, <1>3, <1>5, <2>3 DEF UriFacts, RestFacts
    <3>2. UriTypes'
      <4>1. CASE state' \in {"Completed", "Error"} /\ it' = it /\ loc' = loc
        BY <1>2, <2>1, <4>1, UriTypesEnd DEF Verdicts
      <4>2. CASE state' = "QueryName" /\ it' = v[1]
                 /\ loc' = [prev |-> v[1], name |-> Empty, end |-> v[2]]
        <5>1. PICK p \in Int, e \in Int : p = v[1] /\ e = v[2]
          BY <1>1, <1>5
        <5>2. p \in 1 .. Len(buf) + 1 /\ e \in 1 .. Len(buf) + 1 /\ p <= e
          BY <1>1, <1>3, <1>5, <3>1, <5>1
        <5>3. QED
          BY <1>2, <2>1, <4>2, <5>1, <5>2, UriTypesEnd
      <4>3. QED
        BY <1>8, <4>1, <4>2, QueriesStart
    <3>3. state' \in InQuery \/ state' = "Error"
      <4>1. v[1] # v[2]
        BY <1>1, <1>5, <3>1
      <4>2. QED
        BY <1>8, <4>1 DEF Ur!StartQueries, Ur!IsEmpty, InQuery
    <3>4. QED
      BY <1>2, <1>5, <1>8, <2>3, <3>2, <3>3, UriQueryEnds DEF Failed
  <2>4. CASE state # "Query"
    <3>1. out.querystr = Empty
      <4>1. SUFFICES ASSUME out.querystr # Empty PROVE FALSE
        OBVIOUS
      <4>2. PICK p \in Int, e \in Int : p = out.querystr[1] /\ e = out.querystr[2]
        BY <1>1 DEF Locators, Views
      <4>3. p < e
        BY <1>2, <2>2, <4>1, <4>2 DEF UriFacts, RestFacts, QueryIs, Verdicts
      <4>4. QED
        BY <1>8, <4>2, <4>3
    <3>2. loc.prev = out.path[1] /\ buf[loc.prev] = "/"
      BY <2>2, <2>4, <3>1 DEF UriFacts, RestFacts, InRest, PathIs
    <3>3. v[1] # v[2]
      <4>1. /\ out.path[1] < out.path[2]
            /\ it = out.path[2] + 1
        BY <2>2, <2>4, <3>1 DEF UriFacts, RestFacts, InRest, PathIs, QueryEnd
      <4>2. out.path[1] \in Int /\ out.path[2] \in Int
        BY UriEnds
      <4>3. QED
        BY <1>1, <1>3, <1>5, <3>2, <4>1, <4>2
    <3>4. "/" \notin Ur!Name
      BY DEF Ur!Name, Ur!Unreserved, Ur!Alnum, Ur!Alpha, Ur!Digit, Ur!Method, Ur!HeaderName
    <3>5. state' = "Error" /\ it' = it /\ loc' = loc
      BY <1>5, <1>8, <3>2, <3>3, <3>4 DEF Ur!StartQueries, Ur!IsEmpty
    <3>6. UriTypes'
      BY <1>2, <2>1, <3>5, UriTypesEnd DEF Verdicts
    <3>7. QED
      BY <3>5, <3>6 DEF Failed
  <2>5. QED
    BY <2>3, <2>4
<1>9. CASE state' = "InCompleted" /\ it' = it /\ loc' = loc /\ out' = out
  <2>1. UriTypes'
    BY <1>1, <1>2, <1>9, UriTypesEnd DEF Verdicts
  <2>2. QED
    BY <1>9, <2>1 DEF Failed
<1>10. QED
  BY <1>6, <1>7, <1>8, <1>9

\* A step of the URI parser keeps its invariant.
LEMMA UriNext ==
  ASSUME UriInv, Ur!Next
  PROVE  UriInv'
<1>1. UriTypes /\ UriFacts
  <2>1. state \notin {"Error", "InCompleted"}
    BY SameUriText DEF Ur!Next, Ur!Read, Ur!Follow, Ur!PortOrPassword, Ur!PortEnd, Ur!Fragment,
       Ur!Reject, Ur!EndOfText, Ur!EndOfQueries, Ur!InQueries, Ur!Reading, Verdicts
  <2>2. QED
    BY <2>1 DEF UriInv, Failed
<1>2. CASE Ur!Follow
  BY <1>1, <1>2, UriFollow DEF UriInv
<1>3. CASE Ur!PortOrPassword \/ Ur!PortEnd
  BY <1>1, <1>3, UriPorts DEF UriInv
<1>4. CASE Ur!Fragment
  BY <1>1, <1>4, UriFragments DEF UriInv
<1>5. CASE Ur!EndOfText
  BY <1>1, <1>5, UriTextEnds DEF UriInv
<1>6. CASE Ur!Reject
  <2>1. state' = "Error" /\ buf' = buf /\ it' = it /\ out' = out /\ loc' = loc
    BY <1>6 DEF Ur!Reject
  <2>2. out \in Locators
    BY <1>1 DEF UriTypes
  <2>3. UriTypes'
    BY <1>1, <2>1, <2>2, UriTypesEnd DEF Verdicts
  <2>4. QED
    BY <2>1, <2>3 DEF UriInv, Failed
<1>7. CASE Ur!EndOfQueries
  <2>1. /\ out \in Locators /\ out.queries \in Seq(Headers) /\ loc.name \in Views
        /\ loc.prev \in Int /\ loc.end \in Int
    BY <1>1, UriEnds DEF UriTypes, Locators, LocatorLocals
  <2>2. /\ state \in InQuery /\ buf' = buf /\ it' = it /\ loc' = loc
        /\ \/ /\ out' = [out EXCEPT !.queries = Append(@, Ur!Query(<<loc.prev, loc.end>>))]
              /\ state' = "Completed"
           \/ state' = "Error" /\ out' = out
    BY <1>7 DEF Ur!EndOfQueries, Ur!InQueries, InQuery
  <2>3. CASE state' = "Error" /\ out' = out
    <3>1. UriTypes'
      BY <1>1, <2>1, <2>2, <2>3, UriTypesEnd DEF Verdicts
    <3>2. QED
      BY <2>3, <3>1 DEF UriInv, Failed
  <2>4. CASE /\ out' = [out EXCEPT !.queries = Append(@, Ur!Query(<<loc.prev, loc.end>>))]
             /\ state' = "Completed"
    <3>1. PICK h : h = Ur!Query(<<loc.prev, loc.end>>)
      OBVIOUS
    <3>2. h \in Headers
      BY <2>1, <3>1 DEF Ur!Query, Headers, Views
    <3>3. PICK hs \in Seq(Headers) : hs = Append(out.queries, h)
      BY <2>1, <3>2, AppendProperties
    <3>4. out' = [out EXCEPT !.queries = hs]
      BY <2>4, <3>1, <3>3
    <3>5. out' \in Locators
      BY <2>1, <3>3, <3>4 DEF Locators
    <3>6. UriTypes'
      BY <1>1, <2>2, <2>4, <3>5, UriTypesEnd DEF Verdicts
    <3>7. UriFacts'
      BY <1>1, <2>2, <2>4, <3>4, UriNameStep
    <3>8. QED
      BY <3>6, <3>7 DEF UriInv
  <2>5. QED
    BY <2>2, <2>3, <2>4
<1>8. QED
  BY <1>2, <1>3, <1>4, <1>5, <1>6, <1>7 DEF Ur!Next, Ur!Read

\* A parser that is to begin satisfies the invariant.
LEMMA UriBegin ==
  ASSUME buf \in Seq(Symbols), Ur!Begin
  PROVE  UriInv
<1>1. Len(buf) \in Nat
  BY LenProperties
<1>2. /\ it = 1 /\ state = "SchemeStart"
      /\ loc = [prev |-> 1, name |-> Empty, end |-> Len(buf) + 1]
      /\ out = [scheme |-> Empty, username |-> Empty, password |-> Empty, hostname |-> Empty,
                portstr |-> Empty, port |-> 80, path |-> Empty, querystr |-> Empty,
                queries |-> <<>>, fragment |-> Empty]
  BY SameUriText DEF Ur!Begin, Ur!NewUri
<1>3. Empty \in Views /\ <<>> \in Seq(Headers)
  BY EmptySeq DEF Empty, Views
<1>4. out \in Locators /\ loc \in LocatorLocals
  BY <1>1, <1>2, <1>3 DEF Locators, LocatorLocals
<1>5. UriTypes
  BY <1>1, <1>2, <1>4 DEF UriTypes, UriStates, InScheme
<1>6. SchemeFacts /\ UserFacts
  BY <1>2 DEF SchemeFacts, UserFacts, InScheme, InUser
<1>7. HostFacts /\ RestFacts /\ DoneFacts
  BY <1>2 DEF HostFacts, RestFacts, DoneFacts, InScheme, InUser, InHost, InRest, InQuery
<1>8. QED
  BY <1>5, <1>6, <1>7 DEF UriInv, UriFacts

\* Eight pieces from b[i] to e[i], of which those that are absent are empty: all
\* but the fourth and the sixth, the host and the path, may be absent.
UserPieces(b, e) ==
  \/ b[2] = e[2] /\ b[3] = e[3] /\ b[4] - e[1] \in {1, 2, 3}
  \/ b[2] - e[1] \in {1, 2, 3} /\ b[2] < e[2] /\ b[3] = e[3] /\ b[4] = e[2] + 1
  \/ /\ b[2] - e[1] \in {1, 2, 3} /\ b[2] < e[2]
     /\ b[3] = e[2] + 1 /\ b[3] < e[3] /\ b[4] = e[3] + 1

PortPieces(b, e) ==
  \/ b[5] = e[5] /\ b[6] = e[4]
  \/ b[5] = e[4] + 1 /\ b[5] < e[5] /\ b[6] = e[5]

RestPieces(b, e, n) ==
  \/ b[7] = e[7] /\ b[8] = e[8] /\ e[6] = n
  \/ b[7] = e[7] /\ b[8] = e[6] + 1 /\ b[8] < e[8] /\ e[8] = n
  \/ b[7] = e[6] + 1 /\ b[7] < e[7] /\ b[8] = e[8] /\ e[7] = n
  \/ b[7] = e[6] + 1 /\ b[7] < e[7] /\ b[8] = e[7] + 1 /\ b[8] < e[8] /\ e[8] = n

\* The pieces that are present lie behind each other, up to n.
PiecesLie(b, e, n, present) ==
  /\ \A i \in present : b[i] < e[i]
  /\ \A i, j \in present :
       i < j /\ (\A k \in present : k <= i \/ k >= j) => b[j] - e[i] \in 0 .. 3
  /\ \E i \in present : e[i] = n /\ \A k \in present : k <= i

\* No gap before a piece that is present is longer than three.
LEMMA PiecesTile ==
  ASSUME NEW b \in [1 .. 8 -> Int], NEW e \in [1 .. 8 -> Int], NEW n \in Int,
         b[1] <= e[1], b[4] < e[4], b[6] < e[6],
         UserPieces(b, e), PortPieces(b, e), RestPieces(b, e, n),
         NEW present, present = {i \in 1 .. 8 : b[i] # e[i]}
  PROVE  PiecesLie(b, e, n, present)
<1> USE DEF UserPieces, PortPieces, RestPieces
<1>1. \A i \in 1 .. 8 : b[i] \in Int /\ e[i] \in Int /\ (i \in present <=> b[i] # e[i])
  OBVIOUS
<1>2. present \subseteq 1 .. 8 /\ 4 \in present /\ 6 \in present
  OBVIOUS
<1>3. ASSUME NEW i \in present PROVE b[i] < e[i]
  <2>1. \A k \in 1 .. 8 : b[k] # e[k] => b[k] < e[k]
    <3>1. /\ b[1] # e[1] => b[1] < e[1]
          /\ b[4] < e[4] /\ b[6] < e[6]
      BY <1>1
    <3>2. (b[2] # e[2] => b[2] < e[2]) /\ (b[3] # e[3] => b[3] < e[3])
      OBVIOUS
    <3>3. b[5] # e[5] => b[5] < e[5]
      OBVIOUS
    <3>4. (b[7] # e[7] => b[7] < e[7]) /\ (b[8] # e[8] => b[8] < e[8])
      OBVIOUS
    <3>5. \A k \in 1 .. 8 : k = 1 \/ k = 2 \/ k = 3 \/ k = 4 \/ k = 5 \/ k = 6 \/ k = 7 \/ k = 8
      OBVIOUS
    <3>6. QED
      BY <3>1, <3>2, <3>3, <3>4, <3>5
  <2>2. QED
    BY <1>1, <1>2, <2>1
<1>4. ASSUME NEW i \in present, NEW j \in present, i < j, \A k \in present : k <= i \/ k >= j
      PROVE  b[j] - e[i] \in 0 .. 3
  <2>1. i \in 1 .. 8 /\ j \in 1 .. 8 /\ (4 <= i \/ 4 >= j) /\ (6 <= i \/ 6 >= j)
    BY <1>2, <1>4
  <2>2. \/ i = 1 /\ j \in {2, 3, 4}
        \/ i = 2 /\ j \in {3, 4}
        \/ i = 3 /\ j = 4
        \/ i = 4 /\ j \in {5, 6}
        \/ i = 5 /\ j = 6
        \/ i = 6 /\ j \in {7, 8}
        \/ i = 7 /\ j = 8
    BY <1>4, <2>1
  <2>3. b[i] # e[i] /\ b[j] # e[j]
    BY <1>1, <2>1
  <2>4. CASE i = 1 /\ j = 2
    BY <1>1, <2>3, <2>4
  <2>5. CASE i = 1 /\ j = 3
    <3>1. b[2] = e[2]
      BY <1>1, <1>4, <2>5
    <3>2. QED
      BY <1>1, <2>3, <2>5, <3>1
  <2>6. CASE i = 1 /\ j = 4
    <3>1. b[2] = e[2]
      BY <1>1, <1>4, <2>6
    <3>2. QED
      BY <1>1, <2>3, <2>6, <3>1
  <2>7. CASE i = 2 /\ j = 3
    BY <1>1, <2>3, <2>7
  <2>8. CASE i = 2 /\ j = 4
    <3>1. b[3] = e[3]
      BY <1>1, <1>4, <2>8
    <3>2. QED
      BY <1>1, <2>3, <2>8, <3>1
  <2>9. CASE i = 3 /\ j = 4
    BY <1>1, <2>3, <2>9
  <2>10. CASE i = 4 /\ j = 5
    BY <1>1, <2>3, <2>10
  <2>11. CASE i = 4 /\ j = 6
    <3>1. b[5] = e[5]
      BY <1>1, <1>4, <2>11
    <3>2. QED
      BY <1>1, <2>3, <2>11, <3>1
  <2>12. CASE i = 5 /\ j = 6
    BY <1>1, <2>3, <2>12
  <2>13. CASE i = 6 /\ j = 7
    BY <1>1, <2>3, <2>13
  <2>14. CASE i = 6 /\ j = 8
    <3>1. b[7] = e[7]
      BY <1>1, <1>4, <2>14
    <3>2. QED
      BY <1>1, <2>3, <2>14, <3>1
  <2>15. CASE i = 7 /\ j = 8
    BY <1>1, <2>3, <2>15
  <2>16. QED
    BY <2>2, <2>4, <2>5, <2>6, <2>7, <2>8, <2>9, <2>10, <2>11, <2>12, <2>13, <2>14, <2>15
<1>5. \E i \in present : e[i] = n /\ \A k \in present : k <= i
  <2>1. CASE b[8] # e[8]
    <3>1. 8 \in present /\ e[8] = n /\ \A k \in present : k <= 8
      BY <1>1, <1>2, <2>1
    <3>2. QED
      BY <3>1
  <2>2. CASE b[8] = e[8] /\ b[7] # e[7]
    <3>1. 7 \in present /\ e[7] = n /\ \A k \in present : k <= 7
      BY <1>1, <1>2, <2>2
    <3>2. QED
      BY <3>1
  <2>3. CASE b[8] = e[8] /\ b[7] = e[7]
    <3>1. e[6] = n /\ \A k \in present : k <= 6
      BY <1>1, <1>2, <2>3
    <3>2. QED
      BY <1>2, <3>1
  <2>4. QED
    BY <2>1, <2>2, <2>3
<1>6. QED
  BY <1>3, <1>4, <1>5 DEF PiecesLie

\* The invariant says of an accepted URI that its views tile the text.
LEMMA UriInvTiles ==
  ASSUME UriInv, state = "Completed"
  PROVE  UriTiles
<1>1. UriTypes /\ UriFacts
  BY DEF UriInv, Failed
<1>2. out \in Locators /\ buf \in Seq(Symbols) /\ Len(buf) \in Nat
  BY <1>1, UriEnds DEF UriTypes
<1>3. CASE Rootless
  <2>1. PICK p \in Int, q \in Int : out.path = <<p, q>>
    <3>1. out.path \in Int \X Int
      BY <1>2 DEF Locators, Views
    <3>2. QED
      BY <3>1
  <2>2. PICK t : t = T(out.path)
    OBVIOUS
  <2>3. 1 <= p /\ p <= q /\ q <= Len(buf) + 1 /\ (p = Len(buf) + 1 \/ buf[p] # "/")
    BY <1>3, <2>1 DEF Rootless
  <2>4. /\ t \in Seq(Symbols) /\ Len(t) = q - p
        /\ \A i \in 1 .. q - p : t[i] = buf[p + i - 1]
    <3>1. t = Text(buf, <<p, q>>)
      BY <2>1, <2>2 DEF T
    <3>2. QED
      BY <1>2, <2>3, <3>1, TextIs
  <2>5. ~IsPrefix(<<"/">>, t)
    <3>1. SUFFICES ASSUME IsPrefix(<<"/">>, t) PROVE FALSE
      OBVIOUS
    <3>2. Len(t) >= 1 /\ SubSeq(<<"/">>, 1, 1) = SubSeq(t, 1, 1)
      BY <3>1 DEF IsPrefix
    <3>3. SubSeq(t, 1, 1)[1] = t[1]
      <4>1. \A i \in 1 .. 1 : t[i] \in Symbols
        BY <2>4, <3>2, ElementOfSeq
      <4>2. QED
        BY <4>1, SubSeqProperties
    <3>4. SubSeq(<<"/">>, 1, 1)[1] = "/"
      OBVIOUS
    <3>5. t[1] = buf[p] /\ p <= Len(buf)
      BY <1>2, <2>3, <2>4, <3>2
    <3>6. QED
      BY <1>2, <2>3, <3>2, <3>3, <3>4, <3>5
  <2>6. QED
    BY <2>2, <2>5 DEF UriTiles
<1>4. CASE UriIs /\ out.scheme[1] = 1 /\ out.scheme[1] <= out.scheme[2]
  <2>1. /\ DOMAIN UriParts = 1 .. 8
        /\ UriParts[1] = out.scheme /\ UriParts[2] = out.username /\ UriParts[3] = out.password
        /\ UriParts[4] = out.hostname /\ UriParts[5] = out.portstr /\ UriParts[6] = out.path
        /\ UriParts[7] = out.querystr /\ UriParts[8] = out.fragment
    BY DEF UriParts
  <2>2. /\ out.scheme \in Int \X Int /\ out.username \in Int \X Int /\ out.password \in Int \X Int
        /\ out.hostname \in Int \X Int /\ out.portstr \in Int \X Int /\ out.path \in Int \X Int
        /\ out.querystr \in Int \X Int /\ out.fragment \in Int \X Int
    BY <1>2 DEF Locators, Views
  <2>3. \A i \in 1 .. 8 : UriParts[i] \in Int \X Int
    <3>1. \A k \in 1 .. 8 : k = 1 \/ k = 2 \/ k = 3 \/ k = 4 \/ k = 5 \/ k = 6 \/ k = 7 \/ k = 8
      OBVIOUS
    <3>2. QED
      BY <2>1, <2>2, <3>1
  <2>4. PICK b \in [1 .. 8 -> Int] : \A i \in 1 .. 8 : b[i] = UriParts[i][1]
    <3>1. [i \in 1 .. 8 |-> UriParts[i][1]] \in [1 .. 8 -> Int]
      BY <2>3
    <3>2. QED
      BY <3>1
  <2>5. PICK e \in [1 .. 8 -> Int] : \A i \in 1 .. 8 : e[i] = UriParts[i][2]
    <3>1. [i \in 1 .. 8 |-> UriParts[i][2]] \in [1 .. 8 -> Int]
      BY <2>3
    <3>2. QED
      BY <3>1
  <2>6. /\ b[1] = out.scheme[1] /\ b[2] = out.username[1] /\ b[3] = out.password[1]
        /\ b[4] = out.hostname[1] /\ b[5] = out.portstr[1] /\ b[6] = out.path[1]
        /\ b[7] = out.querystr[1] /\ b[8] = out.fragment[1]
    BY <2>1, <2>4
  <2>7. /\ e[1] = out.scheme[2] /\ e[2] = out.username[2] /\ e[3] = out.password[2]
        /\ e[4] = out.hostname[2] /\ e[5] = out.portstr[2] /\ e[6] = out.path[2]
        /\ e[7] = out.querystr[2] /\ e[8] = out.fragment[2]
    BY <2>1, <2>5
  <2>8. Empty[1] = Empty[2]
    BY DEF Empty
  <2>9. b[1] <= e[1] /\ b[4] < e[4] /\ b[6] < e[6]
    BY <1>4, <2>6, <2>7 DEF UriIs, HostIs, PathIs
  <2>10. UserPieces(b, e)
    BY <1>4, <2>6, <2>7, <2>8 DEF UriIs, HostIs, HostStarts, AfterScheme, UserIs, UserEnd,
       UserPieces
  <2>11. PortPieces(b, e)
    BY <1>4, <2>6, <2>7, <2>8 DEF UriIs, PortIs, PathIs, AuthorityEnd, PortPieces
  <2>12. PICK n \in Int : n = Len(buf) + 1
    BY <1>2
  <2>13. RestPieces(b, e, n)
    BY <1>4, <2>6, <2>7, <2>8, <2>12
    DEF UriIs, QueryIs, FragmentIs, QueryEnd, RestPieces
  <2>14. PICK present : present = {i \in 1 .. 8 : b[i] # e[i]}
    OBVIOUS
  <2>15. present = {i \in DOMAIN UriParts : UriParts[i][1] # UriParts[i][2]}
    BY <2>1, <2>4, <2>5, <2>14
  <2>16. PiecesLie(b, e, n, present)
    BY <2>9, <2>10, <2>11, <2>13, <2>14, PiecesTile
  <2>17. \A i \in present : b[i] = UriParts[i][1] /\ e[i] = UriParts[i][2]
    BY <2>4, <2>5, <2>14
  <2>18. QED
    BY <1>4, <2>12, <2>15, <2>16, <2>17 DEF UriTiles, PiecesLie
<1>5. QED
  BY <1>1, <1>3, <1>4 DEF UriFacts, DoneFacts

\* A text made from a message is made of symbols, and no longer than the message.
LEMMA TextOf ==
  ASSUME NEW t \in Seq(Symbols), Take(t)
  PROVE  buf \in Seq(Symbols) /\ Len(buf) <= Len(t)
<1>0. Len(t) \in Nat /\ DOMAIN t = 1 .. Len(t) /\ \A i \in 1 .. Len(t) : t[i] \in Symbols
  BY LenProperties, ElementOfSeq
<1>1. CASE buf = t
  BY <1>0, <1>1
<1>2. ASSUME NEW n \in 0 .. Len(t) - 1, buf = SubSeq(t, 1, n)
      PROVE  buf \in Seq(Symbols) /\ Len(buf) <= Len(t)
  BY <1>0, <1>2, SubSeqProperties
<1>3. ASSUME NEW i \in 1 .. Len(t), NEW c \in Symbols, buf = ReplaceAt(t, i, c)
      PROVE  buf \in Seq(Symbols) /\ Len(buf) <= Len(t)
  BY <1>0, <1>3, ExceptSeq DEF ReplaceAt
<1>4. ASSUME NEW i \in 1 .. Len(t), buf = RemoveAt(t, i)
      PROVE  buf \in Seq(Symbols) /\ Len(buf) <= Len(t)
  <2>1. PICK s1 : s1 = SubSeq(t, 1, i - 1)
    OBVIOUS
  <2>0. PICK j \in Nat : j = i + 1
    BY <1>0
  <2>2. PICK s2 : s2 = SubSeq(t, j, Len(t))
    OBVIOUS
  <2>3. s1 \in Seq(Symbols) /\ Len(s1) = i - 1
    BY <1>0, <2>1, SubSeqProperties
  <2>4. s2 \in Seq(Symbols) /\ Len(s2) = Len(t) - i
    <3>1. PICK n \in Nat : n = Len(t)
      BY <1>0
    <3>2. \A k \in j .. n : t[k] \in Symbols
      BY <1>0, <2>0, <3>1
    <3>3. /\ SubSeq(t, j, n) \in Seq(Symbols)
          /\ Len(SubSeq(t, j, n)) = IF j <= n THEN n - j + 1 ELSE 0
      BY <2>0, <3>1, <3>2, SubSeqProperties
    <3>4. QED
      BY <2>0, <2>2, <3>1, <3>3
  <2>5. buf = s1 \o s2
    BY <1>4, <2>0, <2>1, <2>2 DEF RemoveAt
  <2>6. buf \in Seq(Symbols) /\ Len(buf) = (i - 1) + (Len(t) - i)
    <3>1. s1 \o s2 \in Seq(Symbols) /\ Len(s1 \o s2) = Len(s1) + Len(s2)
      BY <2>3, <2>4, ConcatProperties
    <3>2. QED
      BY <2>3, <2>4, <2>5, <3>1
  <2>7. QED
    BY <1>0, <2>6
<1>5. QED
  BY <1>0, <1>1, <1>2, <1>3, <1>4 DEF Take, Changed

\* The invariant of the parser at work.
ParsersInv ==
  \/ parser = "request" /\ RequestInv /\ MultipartFacts
  \/ parser = "response" /\ ResponseInv /\ ContentFacts
  \/ parser = "uri" /\ UriInv

\* A step that changes nothing keeps the invariants.
LEMMA RequestStays ==
  ASSUME RequestInv, buf' = buf, it' = it, state' = state, out' = out, loc' = loc
  PROVE  RequestInv'
<1>1. RequestTypes' = RequestTypes /\ RequestLine' = RequestLine /\ Failed' = Failed
  BY DEF RequestTypes, RequestLine, Failed
<1>2. /\ OrderFirst' = OrderFirst /\ OrderEnd' = OrderEnd /\ LastName' = LastName
      /\ Body' = Body /\ Width' = Width /\ PartsEnd' = PartsEnd
      /\ LastInfo' = LastInfo /\ LastFrom' = LastFrom
  BY DEF OrderFirst, OrderEnd, LastName, Body, Width, PartsEnd, LastInfo, LastFrom
<1>3. RequestHeaders' = RequestHeaders
  BY <1>2 DEF RequestHeaders
<1>4. RequestContent' = RequestContent
  BY <1>2 DEF RequestContent
<1>5. RequestParts' = RequestParts
  BY <1>2 DEF RequestParts
<1>6. QED
  BY <1>1, <1>3, <1>4, <1>5 DEF RequestInv, RequestFacts

\* The same of a response.
LEMMA ResponseStays ==
  ASSUME ResponseInv, buf' = buf, it' = it, state' = state, out' = out, loc' = loc
  PROVE  ResponseInv'
<1>1. StatusLine' = StatusLine /\ ResponseTypes' = ResponseTypes /\ Failed' = Failed
  BY DEF StatusLine, ResponseTypes, Failed
<1>2. /\ ReplyFirst' = ReplyFirst /\ ReplyEnd' = ReplyEnd
  BY DEF ReplyFirst, ReplyEnd
<1>3. ResponseHeaders' = ResponseHeaders
  BY <1>2 DEF ResponseHeaders, ReplyStart
<1>4. ResponseBody' = ResponseBody
  BY <1>2 DEF ResponseBody, ChunksFrom, ChunksEnd
<1>5. QED
  BY <1>1, <1>3, <1>4 DEF ResponseInv, ResponseFacts

\* The same of a URI.
LEMMA UriStays ==
  ASSUME UriInv, buf' = buf, it' = it, state' = state, out' = out, loc' = loc
  PROVE  UriInv'
<1>1. /\ UserIs' = UserIs /\ UserEnd' = UserEnd /\ HostIs' = HostIs /\ PortIs' = PortIs
      /\ AuthorityEnd' = AuthorityEnd /\ PathIs' = PathIs /\ QueryIs' = QueryIs
      /\ QueryEnd' = QueryEnd /\ UriIs' = UriIs
  BY UriUnmoved
<1>2. UriTypes' = UriTypes /\ Failed' = Failed
  BY DEF UriTypes, Failed
<1>3. SchemeFacts' = SchemeFacts
  BY DEF SchemeFacts
<1>4. UserFacts' = UserFacts
  BY <1>1 DEF UserFacts, AfterScheme
<1>5. HostFacts' = HostFacts
  <2>1. HostStarts(it)' = HostStarts(it) /\ HostStarts(loc.prev)' = HostStarts(loc.prev)
    BY <1>1 DEF HostStarts, AfterScheme
  <2>2. QED
    BY <1>1, <2>1 DEF HostFacts
<1>6. RestFacts' = RestFacts /\ DoneFacts' = DoneFacts
  BY <1>1 DEF RestFacts, DoneFacts, Rootless
<1>7. QED
  BY <1>2, <1>3, <1>4, <1>5, <1>6 DEF UriInv, UriFacts

(***************************************************************************)
(* Each parser keeps its invariant, whatever the text.                     *)
(***************************************************************************)
THEOREM ParsersInvariance == Spec => []ParsersInv
<1>1. Init => ParsersInv
  <2>1. ASSUME parser = "request", msg \in Requests, Take(RequestText(msg)), Rq!Begin
        PROVE  RequestInv /\ MultipartFacts
    <3>1. RequestText(msg) \in Seq(Symbols) /\ Len(RequestText(msg)) < Wrap /\ Wrap \in Nat
      BY <2>1, ParsersAssumption
    <3>2. buf \in Seq(Symbols) /\ Len(buf) <= Len(RequestText(msg))
      BY <2>1, <3>1, TextOf
    <3>3. Len(buf) < Wrap
      <4>1. Len(buf) \in Nat /\ Len(RequestText(msg)) \in Nat
        BY <3>1, <3>2, LenProperties
      <4>2. QED
        BY <3>1, <3>2, <4>1
    <3>4. QED
      BY <2>1, <3>1, <3>2, <3>3, RequestBegin, MultipartBegin
  <2>2. ASSUME parser = "response", msg \in Responses, Take(ResponseText(msg)), Rs!Begin
        PROVE  ResponseInv /\ ContentFacts
    <3>1. ResponseText(msg) \in Seq(Symbols)
      BY <2>2, ParsersAssumption
    <3>2. ContentFacts
      BY <2>2 DEF Rs!Begin, ContentFacts
    <3>3. QED
      BY <2>2, <3>1, <3>2, TextOf, ResponseBegin
  <2>3. ASSUME parser = "uri", msg \in Uris, Take(UriText(msg)), Ur!Begin
        PROVE  UriInv
    <3>1. UriText(msg) \in Seq(Symbols)
      BY <2>3, ParsersAssumption
    <3>2. QED
      BY <2>3, <3>1, TextOf, UriBegin
  <2>4. QED
    BY <2>1, <2>2, <2>3 DEF Init, ParsersInv
<1>2. ParsersInv /\ [Next]_vars => ParsersInv'
  <2>1. SUFFICES ASSUME ParsersInv, [Next]_vars PROVE ParsersInv'
    OBVIOUS
  <2>2. CASE Next
    <3>1. parser' = parser
      BY <2>2 DEF Next, caseVars
    <3>2. CASE parser = "request"
      <4>1. RequestInv /\ MultipartFacts /\ Rq!Next
        BY <2>1, <2>2, <3>2 DEF ParsersInv, Next
      <4>2. RequestInv' /\ MultipartFacts'
        BY <4>1, RequestNext, MultipartNext, ParsersAssumption
      <4>3. QED
        BY <3>1, <3>2, <4>2 DEF ParsersInv
    <3>3. CASE parser = "response"
      <4>1. ResponseInv /\ Rs!Next
        BY <2>1, <2>2, <3>3 DEF ParsersInv, Next
      <4>2. ResponseInv' /\ ContentFacts'
        BY <4>1, ResponseNext, ContentNext
      <4>3. QED
        BY <3>1, <3>3, <4>2 DEF ParsersInv
    <3>4. CASE parser = "uri"
      <4>1. UriInv /\ Ur!Next
        BY <2>1, <2>2, <3>4 DEF ParsersInv, Next
      <4>2. UriInv'
        BY <4>1, UriNext
      <4>3. QED
        BY <3>1, <3>4, <4>2 DEF ParsersInv
    <3>5. QED
      BY <2>1, <3>2, <3>3, <3>4 DEF ParsersInv
  <2>3. CASE UNCHANGED vars
    <3>1. /\ buf' = buf /\ it' = it /\ state' = state /\ out' = out /\ loc' = loc
          /\ parser' = parser
      BY <2>3 DEF vars, parserVars, caseVars
    <3>2. (RequestInv => RequestInv') /\ (ResponseInv => ResponseInv') /\ (UriInv => UriInv')
      BY <3>1, RequestStays, ResponseStays, UriStays
    <3>3. (MultipartFacts => MultipartFacts') /\ (ContentFacts => ContentFacts')
      BY <3>1 DEF MultipartFacts, ContentFacts
    <3>4. QED
      BY <2>1, <3>1, <3>2, <3>3 DEF ParsersInv
  <2>4. QED
    BY <2>1, <2>2, <2>3
<1>3. QED
  BY <1>1, <1>2, PTL DEF Spec

(***************************************************************************)
(* Whatever the text, each view of a message that a parser accepts begins  *)
(* where the one before it and its separator end, or, before the first     *)
(* header of a response, behind what the parser passes over.  A part's     *)
(* data may end up to four places before it begins, but the boundary that  *)
(* ends it does not begin before it.  The body of a request is inside the  *)
(* text and as long as its Content-Length says; the content of a response  *)
(* is as long as that, inside the text or not.  A URI's views end with the *)
(* text.                                                                   *)
(***************************************************************************)
THEOREM MessagesTile == Spec => []ViewsTile
<1>1. ParsersInv => ViewsTile
  <2>1. SUFFICES ASSUME ParsersInv, state = "Completed" PROVE ViewsTile
    BY DEF ViewsTile
  <2>2. CASE parser = "request" /\ RequestInv /\ MultipartFacts
    BY <2>1, <2>2, RequestInvTiles DEF ViewsTile
  <2>3. CASE parser = "response" /\ ResponseInv /\ ContentFacts
    BY <2>1, <2>3, ResponseInvTiles DEF ViewsTile
  <2>4. CASE parser = "uri" /\ UriInv
    BY <2>1, <2>4, UriInvTiles DEF ViewsTile
  <2>5. QED
    BY <2>1, <2>2, <2>3, <2>4 DEF ParsersInv
<1>2. QED
  BY <1>1, ParsersInvariance, PTL

(***************************************************************************)
(* The states of the parsers: those that a row of a table comes from or    *)
(* goes to.                                                                *)
(***************************************************************************)
ParserStates ==
  Verdicts \union {"HttpStart", "Header_rnr", "Header_rnrn", "PostDataStart",
                   "BoundaryMatchStart", "PartBodyStart", "ChunkDataSize_rn",
                   "HashStart", "Path", "QueryName"}
     \union UNION {{r.from, r.to} : r \in Rq!Rules \union Rs!Rules \union Ur!Rules}

\* The states a row comes from and goes to are states.
LEMMA RowStates ==
  ASSUME NEW r \in Rq!Rules \union Rs!Rules \union Ur!Rules
  PROVE  r.from \in ParserStates /\ r.to \in ParserStates
  BY DEF ParserStates

\* So are the states outside the tables, and those the parsers begin in.
LEMMA OtherStates ==
  {"InCompleted", "Completed", "Error", "Header_rnrn", "PostDataStart", "ChunkDataSize_rn",
   "HashStart", "Path", "QueryName", "MethodUnstart", "HttpEnd", "MultipartDataStart",
   "BoundaryMatch_r", "LastBoundaryMatch", "StatusStart", "NewChunkStart", "DataStart",
   "ZeroChunkSize_r", "ChunkDataSize_r", "ChunkDataEnd", "SchemeStart"} \subseteq ParserStates
<1>1. /\ Rq!Rule("MethodUnstart", Rq!Alpha, "MethodStart", "none") \in Rq!Rules
      /\ Rq!Rule("HttpEnd", Rq!Digit, "VersionStart", "mark") \in Rq!Rules
      /\ Rq!Rule("MultipartDataStart", {"-"}, "MultipartDataStart_", "none") \in Rq!Rules
      /\ Rq!Rule("BoundaryMatch_r", {"LF"}, "BoundaryMatch_rn", "none") \in Rq!Rules
      /\ Rq!Rule("LastBoundaryMatch", {"LF"}, "Completed", "none") \in Rq!Rules
  BY Zenon DEF Rq!Rules
<1>2. {"MethodUnstart", "HttpEnd", "MultipartDataStart", "BoundaryMatch_r", "LastBoundaryMatch"}
        \subseteq ParserStates
  <2>1. \A from, on, to, do : Rq!Rule(from, on, to, do).from = from
    BY DEF Rq!Rule
  <2>2. QED
    BY <1>1, <2>1, RowStates
<1>3. /\ Rs!Rule("StatusStart", {"H"}, "StatusStart_h", "none") \in Rs!Rules
      /\ Rs!Rule("DataStart", Rs!Symbols, "Completed", "content") \in Rs!Rules
      /\ Rs!Rule("NewChunkStart", Rs!HexDigit, "ChunkDataSize", "mark") \in Rs!Rules
      /\ Rs!Rule("ZeroChunkSize_r", {"LF"}, "Completed", "none") \in Rs!Rules
      /\ Rs!Rule("ChunkDataSize_r", {"LF"}, "ChunkDataSize_rn", "none") \in Rs!Rules
      /\ Rs!Rule("ChunkDataEnd", {"CR"}, "ChunkData_r", "none") \in Rs!Rules
  BY Zenon DEF Rs!Rules
<1>4. {"StatusStart", "DataStart", "NewChunkStart", "ZeroChunkSize_r", "ChunkDataSize_r",
       "ChunkDataEnd"} \subseteq ParserStates
  <2>1. \A from, on, to, do : Rs!Rule(from, on, to, do).from = from
    BY DEF Rs!Rule
  <2>2. QED
    BY <1>3, <2>1, RowStates
<1>5. "SchemeStart" \in ParserStates
  <2>1. Ur!Rule("SchemeStart", {":"}, "SchemeEnd", "scheme") \in Ur!Rules
    BY Zenon DEF Ur!Rules
  <2>2. Ur!Rule("SchemeStart", {":"}, "SchemeEnd", "scheme").from = "SchemeStart"
    BY DEF Ur!Rule
  <2>3. QED
    BY <2>1, <2>2, RowStates
<1>6. {"InCompleted", "Completed", "Error", "Header_rnrn", "PostDataStart", "ChunkDataSize_rn",
       "HashStart", "Path", "QueryName"} \subseteq ParserStates
  BY DEF ParserStates, Verdicts
<1>7. QED
  BY <1>2, <1>4, <1>5, <1>6

\* A parser that is in one of its states goes to another.
LEMMA RequestStates ==
  ASSUME state \in ParserStates, Rq!Next
  PROVE  state' \in ParserStates
<1>1. CASE Rq!Follow
  BY <1>1, RowStates DEF Rq!Follow
<1>2. CASE Rq!PartBody
  BY <1>2, OtherStates DEF Rq!PartBody, Rq!EndsPart
<1>3. CASE Rq!HttpWord \/ Rq!HeadersEnd \/ Rq!BodyStarts \/ Rq!BodyGoesOn \/ Rq!FirstBoundary
  BY <1>3, OtherStates
     DEF Rq!HttpWord, Rq!HeadersEnd, Rq!BodyStarts, Rq!BodyGoesOn, Rq!FirstBoundary
<1>4. CASE Rq!Reject \/ Rq!EndOfText
  BY <1>4, OtherStates DEF Rq!Reject, Rq!EndOfText
<1>5. QED
  BY <1>1, <1>2, <1>3, <1>4 DEF Rq!Next, Rq!Read

\* The same of the response parser.
LEMMA ResponseStates ==
  ASSUME state \in ParserStates, Rs!Next
  PROVE  state' \in ParserStates
<1>1. CASE Rs!Follow
  BY <1>1, RowStates DEF Rs!Follow
<1>2. CASE Rs!HeadersEnd \/ Rs!ChunkSize \/ Rs!ChunkData
  BY <1>2, OtherStates DEF Rs!HeadersEnd, Rs!ChunkSize, Rs!ChunkData
<1>3. CASE Rs!Reject \/ Rs!EndOfText
  BY <1>3, OtherStates DEF Rs!Reject, Rs!EndOfText
<1>4. QED
  BY <1>1, <1>2, <1>3 DEF Rs!Next, Rs!Read

\* The same of the URI parser.
LEMMA UriParserStates ==
  ASSUME state \in ParserStates, Ur!Next
  PROVE  state' \in ParserStates
<1>1. CASE Ur!Follow
  BY <1>1, RowStates DEF Ur!Follow
<1>2. CASE Ur!PortOrPassword \/ Ur!PortEnd \/ Ur!Fragment
  BY <1>2, OtherStates DEF Ur!PortOrPassword, Ur!PortEnd, Ur!Fragment, Ur!StartQueries
<1>3. CASE Ur!EndOfText \/ Ur!EndOfQueries
  BY <1>3, OtherStates DEF Ur!EndOfText, Ur!EndOfQueries, Ur!StartQueries
<1>4. CASE Ur!Reject
  BY <1>4, OtherStates DEF Ur!Reject
<1>5. QED
  BY <1>1, <1>2, <1>3, <1>4 DEF Ur!Next, Ur!Read

(***************************************************************************)
(* Every variable of the parsers keeps its type: whatever the text, the    *)
(* position never passes its end, and no open view begins behind it.       *)
(***************************************************************************)
THEOREM ParsersTypes == Spec => []TypeOK
<1>1. Init => state \in ParserStates
  BY OtherStates DEF Init, Rq!Begin, Rs!Begin, Ur!Begin
<1>2. state \in ParserStates /\ [Next]_vars => (state \in ParserStates)'
  <2>1. state \in ParserStates /\ UNCHANGED vars => (state \in ParserStates)'
    BY DEF vars, parserVars
  <2>2. state \in ParserStates /\ Next => (state \in ParserStates)'
    BY RequestStates, ResponseStates, UriParserStates DEF Next
  <2>3. QED
    BY <2>1, <2>2
<1>3. ParsersInv /\ state \in ParserStates => TypeOK
  <2>1. SUFFICES ASSUME ParsersInv, state \in ParserStates PROVE TypeOK
    OBVIOUS
  <2>2. CASE RequestInv
    BY <2>1, <2>2 DEF RequestInv, RequestTypes, TypeOK, ParserStates
  <2>3. CASE ResponseInv
    BY <2>1, <2>3 DEF ResponseInv, ResponseTypes, TypeOK, ParserStates
  <2>4. CASE UriInv
    <3>1. /\ buf \in Seq(Symbols) /\ it \in 1 .. loc.end /\ loc.end <= Len(buf) + 1
          /\ loc.prev \in 1 .. it /\ loc \in LocatorLocals
      BY <2>4 DEF UriInv, UriTypes
    <3>2. loc.end \in Int /\ Len(buf) \in Nat
      BY <3>1, LenProperties DEF LocatorLocals
    <3>3. it \in 1 .. Len(buf) + 1
      BY <3>1, <3>2
    <3>4. QED
      BY <2>1, <3>1, <3>3 DEF TypeOK, ParserStates
  <2>5. QED
    BY <2>1, <2>2, <2>3, <2>4 DEF ParsersInv
<1>4. QED
  BY <1>1, <1>2, <1>3, ParsersInvariance, PTL DEF Spec
=============================================================================
