-------------------------- MODULE HttpMessages_proofs --------------------------
(***************************************************************************)
(* Proofs about what the parsers make of messages: a URI that ReadsUri     *)
(* allows is parsed into the parts it was made from.  First where the      *)
(* parts of a message lie in its text; then one lemma for each state of    *)
(* the parser says what the state has read, and that it reads the rest.    *)
(***************************************************************************)
EXTENDS HttpParsers_proofs

(***************************************************************************)
(* The URIs that are read, with all that their fields are.                 *)
(***************************************************************************)
Readable(m) ==
  /\ m \in [scheme : Seq(Symbols), username : Seq(Symbols), password : Seq(Symbols),
            hostname : Seq(Symbols), portstr : Seq(Symbols), path : Seq(Symbols),
            queries : Seq([name : Seq(Symbols), value : Seq(Symbols)]), fragment : Seq(Symbols)]
  /\ m.scheme \in Seq(Ur!Unreserved)
  /\ m.username # <<>> => Begins(m.username, Alnum \union HeaderName, Ur!Name)
  /\ m.password # <<>> =>
       m.username # <<>> /\ Begins(m.password, Ur!Unreserved \ HeaderName, Alnum \union {"%"})
  /\ Begins(m.hostname, IF m.username = <<>> THEN Alnum \union HeaderName ELSE Ur!Name, Ur!Name)
  /\ m.portstr \in Seq(Digit)
  /\ Begins(m.path, {"/"}, Symbols \ {"#", "?"})
  /\ \A i \in DOMAIN m.queries :
       Begins(m.queries[i].name, Ur!Name, Ur!Name) /\ Begins(m.queries[i].value, Ur!Name, Ur!Name)

\* These are the URIs of UriFits that ReadsUri is about.
LEMMA ReadableUri ==
  ASSUME NEW m, UriFits(m), ReadsUri(m)
  PROVE  Readable(m)
<1>1. Seq(Digit) \subseteq Seq(Symbols) /\ Seq(Symbols \ {"#", "?"}) \subseteq Seq(Symbols)
  <2>1. Digit \subseteq Symbols /\ Symbols \ {"#", "?"} \subseteq Symbols
    BY DEF Symbols, Alnum
  <2>2. ASSUME NEW V, V \subseteq Symbols, NEW t \in Seq(V) PROVE t \in Seq(Symbols)
    BY <2>2
  <2>3. QED
    BY <2>1, <2>2
<1>2. m.portstr \in Seq(Digit) /\ m.path \in Seq(Symbols \ {"#", "?"})
  BY DEF UriFits
<1>3. m \in [scheme : Seq(Symbols), username : Seq(Symbols), password : Seq(Symbols),
             hostname : Seq(Symbols), portstr : Seq(Symbols), path : Seq(Symbols),
             queries : Seq([name : Seq(Symbols), value : Seq(Symbols)]), fragment : Seq(Symbols)]
  BY <1>1 DEF UriFits
<1>4. Begins(m.path, {"/"}, Symbols \ {"#", "?"})
  <2>1. m.path # <<>> /\ m.path[1] = "/"
    BY DEF UriFits, ReadsUri
  <2>2. \A i \in 2 .. Len(m.path) : m.path[i] \in Symbols \ {"#", "?"}
    BY <1>2
  <2>3. QED
    BY <1>1, <1>2, <2>1, <2>2 DEF Begins
<1>5. QED
  BY <1>2, <1>3, <1>4 DEF ReadsUri, Readable

(***************************************************************************)
(* Texts put together.                                                     *)
(***************************************************************************)
\* Each of the first n texts may be put behind any text of V.
Extend(ss, n, V) == \A i \in 1 .. n : \A s \in V : s \o ss[i] \in V

\* f[i] is a and the first i texts behind it.
IsJoined(f, V, a, n, ss) ==
  f \in [0 .. n -> V] /\ f[0] = a /\ \A i \in 1 .. n : f[i] = f[i - 1] \o ss[i]

\* Texts may be put together one after the other.
LEMMA Joined ==
  ASSUME NEW V, NEW a \in V, NEW n \in Nat, NEW ss, Extend(ss, n, V)
  PROVE  \E f : IsJoined(f, V, a, n, ss)
<1>1. PICK G : G = [i \in 1 .. n |-> [s \in V |-> s \o ss[i]]]
  OBVIOUS
<1>2. Steps(G, V, n)
  <2>1. G \in [1 .. n -> [V -> V]]
    BY <1>1 DEF Extend
  <2>2. QED
    BY <2>1 DEF Steps
<1>3. PICK f : Recursive(f, V, a, n, G)
  BY <1>2, Recursion
<1>4. f \in [0 .. n -> V] /\ f[0] = a /\ \A i \in 1 .. n : f[i] = G[i][f[i - 1]]
  BY <1>3 DEF Recursive
<1>5. ASSUME NEW i \in 1 .. n PROVE f[i] = f[i - 1] \o ss[i]
  <2>1. f[i - 1] \in V
    BY <1>4
  <2>2. QED
    BY <1>1, <1>4, <2>1
<1>6. QED
  BY <1>4, <1>5, Zenon DEF IsJoined

\* What the function inside FlattenSeq is.
LEMMA Flattens ==
  ASSUME NEW S, NEW ss \in Seq(Seq(S)), ss # <<>>
  PROVE  \E f \in [1 .. Len(ss) -> Seq(S)] :
           /\ \A i \in 1 .. Len(ss) : f[i] = IF i = 1 THEN ss[i] ELSE f[i - 1] \o ss[i]
           /\ FlattenSeq(ss) = f[Len(ss)]
<1> DEFINE Rec(f) == f = [i \in 1 .. Len(ss) |-> IF i = 1 THEN ss[i] ELSE f[i - 1] \o ss[i]]
<1>1. PICK n \in Nat : n = Len(ss) /\ n # 0
  BY EmptySeq
<1>2. \A i \in 1 .. n : ss[i] \in Seq(S)
  BY <1>1, ElementOfSeq
<1>3. \E f \in [1 .. n -> Seq(S)] : Rec(f)
  <2>1. PICK V : V = Seq(S)
    OBVIOUS
  <2>2. PICK a : a = <<>>
    OBVIOUS
  <2>3. a \in V /\ Extend(ss, n, V)
    BY <1>2, <2>1, <2>2, EmptySeq, ConcatProperties DEF Extend
  <2>10. PICK f : IsJoined(f, V, a, n, ss)
    BY <2>3, Joined
  <2>4. f \in [0 .. n -> V] /\ f[0] = a /\ \A i \in 1 .. n : f[i] = f[i - 1] \o ss[i]
    BY <2>10 DEF IsJoined
  <2>5. PICK g : g = [i \in 1 .. n |-> f[i]]
    OBVIOUS
  <2>6. g \in [1 .. n -> Seq(S)]
    <3>1. \A i \in 1 .. n : f[i] \in V
      BY <2>4
    <3>2. QED
      BY <2>1, <2>5, <3>1
  <2>7. ASSUME NEW i \in 1 .. n
        PROVE  g[i] = IF i = 1 THEN ss[i] ELSE g[i - 1] \o ss[i]
    <3>1. CASE i = 1
      <4>1. 1 \in 1 .. n /\ 1 - 1 = 0
        BY <1>1
      <4>2. f[1] = f[1 - 1] \o ss[1]
        BY <2>4, <4>1
      <4>3. f[1] = <<>> \o ss[1]
        BY <2>2, <2>4, <4>1, <4>2
      <4>4. QED
        BY <1>2, <2>5, <3>1, <4>3, ConcatEmptySeq
    <3>2. CASE i # 1
      <4>1. i - 1 \in 1 .. n
        BY <3>2
      <4>2. QED
        BY <2>4, <2>5, <3>2, <4>1
    <3>3. QED
      BY <3>1, <3>2
  <2>8. g = [i \in 1 .. n |-> IF i = 1 THEN ss[i] ELSE g[i - 1] \o ss[i]]
    BY <2>5, <2>7
  <2>9. QED
    BY <1>1, <2>6, <2>8
<1>4. ASSUME NEW f, NEW h, Rec(f), Rec(h) PROVE f = h
  <2> DEFINE Same == {k \in 0 .. n : k > 0 => f[k] = h[k]}
  <2>2. 0 \in Same
    OBVIOUS
  <2>3. ASSUME NEW k \in 0 .. n, k \in Same, k < n PROVE k + 1 \in Same
    <3>1. k + 1 \in 1 .. n /\ (k + 1) - 1 = k /\ (k + 1 = 1 <=> k = 0)
      BY <2>3
    <3>2. /\ f[k + 1] = IF k + 1 = 1 THEN ss[k + 1] ELSE f[k] \o ss[k + 1]
          /\ h[k + 1] = IF k + 1 = 1 THEN ss[k + 1] ELSE h[k] \o ss[k + 1]
      BY <1>1, <1>4, <3>1
    <3>3. f[k + 1] = h[k + 1]
      BY <2>3, <3>1, <3>2
    <3>4. QED
      BY <2>3, <3>3
  <2>4. \A k \in 0 .. n : k \in Same
    <3> HIDE DEF Same
    <3>1. QED
      BY <2>2, <2>3, UpTo
  <2>5. \A k \in 1 .. n : f[k] = h[k]
    BY <2>4
  <2>6. /\ f = [i \in 1 .. n |-> f[i]]
        /\ h = [i \in 1 .. n |-> h[i]]
    BY <1>1, <1>4
  <2>7. QED
    BY <2>5, <2>6
<1>5. PICK f \in [1 .. n -> Seq(S)] : Rec(f)
  BY <1>3
<1>6. f = CHOOSE h : Rec(h)
  <2> HIDE DEF Rec
  <2>1. QED
    BY <1>4, <1>5
<1>7. FlattenSeq(ss) = f[Len(ss)]
  BY <1>1, <1>6 DEF FlattenSeq
<1>8. \A i \in 1 .. Len(ss) : f[i] = IF i = 1 THEN ss[i] ELSE f[i - 1] \o ss[i]
  BY <1>5
<1>9. QED
  BY <1>1, <1>5, <1>7, <1>8


\* The length of the first i texts together.
Offset(ss, i) == Len(FlattenSeq(SubSeq(ss, 1, i)))

\* The first k texts together are what the function has for k.
LEMMA FlattensTo ==
  ASSUME NEW S, NEW ss \in Seq(Seq(S)), NEW f,
         \A i \in 1 .. Len(ss) : f[i] = IF i = 1 THEN ss[i] ELSE f[i - 1] \o ss[i],
         NEW k \in 1 .. Len(ss)
  PROVE  FlattenSeq(SubSeq(ss, 1, k)) = f[k]
<1>1. Len(ss) \in Nat /\ \A i \in 1 .. Len(ss) : ss[i] \in Seq(S)
  BY LenProperties, ElementOfSeq
<1>2. PICK ks : ks = SubSeq(ss, 1, k)
  OBVIOUS
<1>3. ks \in Seq(Seq(S)) /\ Len(ks) = k /\ \A i \in 1 .. k : ks[i] = ss[i]
  BY <1>1, <1>2, SubSeqProperties
<1>4. ks # <<>>
  BY <1>3
<1>5. PICK g \in [1 .. Len(ks) -> Seq(S)] :
        /\ \A i \in 1 .. Len(ks) : g[i] = IF i = 1 THEN ks[i] ELSE g[i - 1] \o ks[i]
        /\ FlattenSeq(ks) = g[Len(ks)]
  BY <1>3, <1>4, Flattens
<1> DEFINE Same == {i \in 0 .. k : i > 0 => f[i] = g[i]}
<1>6. 0 \in Same
  OBVIOUS
<1>7. ASSUME NEW i \in 0 .. k, i \in Same, i < k PROVE i + 1 \in Same
  <2>1. i + 1 \in 1 .. k /\ i + 1 \in 1 .. Len(ss) /\ (i + 1) - 1 = i /\ (i + 1 = 1 <=> i = 0)
    BY <1>1, <1>7
  <2>2. /\ f[i + 1] = IF i + 1 = 1 THEN ss[i + 1] ELSE f[i] \o ss[i + 1]
        /\ g[i + 1] = IF i + 1 = 1 THEN ks[i + 1] ELSE g[i] \o ks[i + 1]
    BY <1>3, <1>5, <2>1
  <2>3. f[i + 1] = g[i + 1]
    <3>1. ks[i + 1] = ss[i + 1]
      BY <1>3, <2>1
    <3>2. i > 0 => f[i] = g[i]
      BY <1>7
    <3>3. CASE i = 0
      BY <2>1, <2>2, <3>1, <3>3
    <3>4. CASE i # 0
      BY <2>1, <2>2, <3>1, <3>2, <3>4
    <3>5. QED
      BY <3>3, <3>4
  <2>4. QED
    BY <1>7, <2>3
<1>8. \A i \in 0 .. k : i \in Same
  <2> HIDE DEF Same
  <2>1. k \in Nat
    BY <1>1
  <2>2. QED
    BY <1>6, <1>7, <2>1, UpTo
<1>9. f[k] = g[k]
  BY <1>8
<1>10. QED
  BY <1>2, <1>3, <1>5, <1>9

\* Each text begins where those before it end.
LEMMA Laid ==
  ASSUME NEW S, NEW ss \in Seq(Seq(S))
  PROVE  /\ FlattenSeq(ss) \in Seq(S) /\ Len(FlattenSeq(ss)) = Offset(ss, Len(ss))
         /\ Offset(ss, 0) = 0
         /\ \A i \in 1 .. Len(ss) :
              /\ Offset(ss, i) \in Nat /\ Offset(ss, i - 1) \in Nat
              /\ Offset(ss, i) = Offset(ss, i - 1) + Len(ss[i])
              /\ \A k \in 1 .. Len(ss[i]) : FlattenSeq(ss)[Offset(ss, i - 1) + k] = ss[i][k]
<1>1. PICK n \in Nat : n = Len(ss)
  BY LenProperties
<1>2. FlattenSeq(<<>>) = <<>>
  BY DEF FlattenSeq
<1>3. Offset(ss, 0) = 0
  <2>1. SubSeq(ss, 1, 0) = <<>>
    BY SubSeqEmpty
  <2>2. Offset(ss, 0) = Len(FlattenSeq(SubSeq(ss, 1, 0)))
    BY DEF Offset
  <2>3. Offset(ss, 0) = Len(<<>>)
    BY <1>2, <2>1, <2>2, Zenon
  <2>4. QED
    BY <2>3
<1>4. CASE ss = <<>>
  <2>1. Len(ss) = 0 /\ Offset(ss, Len(ss)) = 0
    BY <1>3, <1>4
  <2>2. FlattenSeq(ss) = <<>> /\ FlattenSeq(ss) \in Seq(S) /\ Len(FlattenSeq(ss)) = 0
    BY <1>2, <1>4, EmptySeq
  <2>3. QED
    BY <1>3, <2>1, <2>2
<1>5. CASE ss # <<>>
  <2>1. PICK f \in [1 .. n -> Seq(S)] :
          /\ \A i \in 1 .. Len(ss) : f[i] = IF i = 1 THEN ss[i] ELSE f[i - 1] \o ss[i]
          /\ FlattenSeq(ss) = f[n]
    BY <1>1, <1>5, Flattens
  <2>2. \A i \in 1 .. n : FlattenSeq(SubSeq(ss, 1, i)) = f[i]
    BY <1>1, <2>1, FlattensTo
  <2>3. \A i \in 1 .. n : f[i] \in Seq(S) /\ Len(f[i]) \in Nat /\ Offset(ss, i) = Len(f[i])
    BY <2>1, <2>2, LenProperties DEF Offset
  <2>4. \A i \in 1 .. n : ss[i] \in Seq(S) /\ Len(ss[i]) \in Nat
    BY <1>1, ElementOfSeq, LenProperties
  <2>5. n # 0
    BY <1>1, <1>5, EmptySeq
  <2>6. ASSUME NEW i \in 1 .. n
        PROVE  /\ Offset(ss, i - 1) \in Nat /\ Offset(ss, i) = Offset(ss, i - 1) + Len(ss[i])
               /\ \A k \in 1 .. Len(ss[i]) : f[i][Offset(ss, i - 1) + k] = ss[i][k]
    <3>1. CASE i = 1
      <4>0. 1 \in 1 .. Len(ss) /\ i - 1 = 0
        BY <1>1, <2>5, <3>1
      <4>1. f[1] = ss[1] /\ Offset(ss, i - 1) = 0 /\ 1 \in 1 .. n
        BY <1>1, <1>3, <2>1, <4>0
      <4>2. QED
        BY <2>3, <2>4, <3>1, <4>1
    <3>2. CASE i # 1
      <4>1. PICK s, t : s = f[i - 1] /\ t = ss[i]
        OBVIOUS
      <4>6. i - 1 \in 1 .. n /\ i \in 1 .. Len(ss)
        BY <1>1, <3>2
      <4>7. f[i] = f[i - 1] \o ss[i]
        BY <2>1, <3>2, <4>6
      <4>2. i - 1 \in 1 .. n /\ f[i] = s \o t /\ s \in Seq(S) /\ t \in Seq(S)
            /\ Offset(ss, i - 1) = Len(s) /\ Len(s) \in Nat /\ Len(t) \in Nat
        BY <2>3, <2>4, <4>1, <4>6, <4>7
      <4>3. /\ Len(s \o t) = Len(s) + Len(t)
            /\ \A k \in 1 .. Len(s) + Len(t) :
                 (s \o t)[k] = IF k <= Len(s) THEN s[k] ELSE t[k - Len(s)]
        BY <4>2, ConcatProperties
      <4>4. ASSUME NEW k \in 1 .. Len(t) PROVE (s \o t)[Len(s) + k] = t[k]
        <5>1. Len(s) + k \in 1 .. Len(s) + Len(t) /\ ~(Len(s) + k <= Len(s))
              /\ (Len(s) + k) - Len(s) = k
          BY <4>2
        <5>2. QED
          BY <4>3, <5>1
      <4>5. QED
        BY <2>3, <4>1, <4>2, <4>3, <4>4
    <3>3. QED
      BY <3>1, <3>2
  <2>7. ASSUME NEW i \in 1 .. n, i < n, NEW j \in 1 .. Len(f[i])
        PROVE  f[i + 1][j] = f[i][j] /\ j \in 1 .. Len(f[i + 1])
    <3>1. PICK s, t : s = f[i] /\ t = ss[i + 1]
      OBVIOUS
    <3>2. i + 1 \in 1 .. n /\ i + 1 # 1 /\ (i + 1) - 1 = i
      BY <2>7
    <3>3. f[i + 1] = s \o t /\ s \in Seq(S) /\ t \in Seq(S) /\ Len(s) \in Nat /\ Len(t) \in Nat
      BY <1>1, <2>1, <2>3, <2>4, <3>1, <3>2
    <3>4. /\ Len(s \o t) = Len(s) + Len(t)
          /\ \A k \in 1 .. Len(s) + Len(t) :
               (s \o t)[k] = IF k <= Len(s) THEN s[k] ELSE t[k - Len(s)]
      BY <3>3, ConcatProperties
    <3>5. QED
      BY <2>7, <3>1, <3>3, <3>4
  <2>8. ASSUME NEW i \in 1 .. n, NEW j \in 1 .. Len(f[i]) PROVE f[n][j] = f[i][j]
    <3> DEFINE Kept == {m \in 0 .. n : m >= i => f[m][j] = f[i][j] /\ j \in 1 .. Len(f[m])}
    <3>1. 0 \in Kept
      OBVIOUS
    <3>2. ASSUME NEW m \in 0 .. n, m \in Kept, m < n PROVE m + 1 \in Kept
      <4>1. CASE m + 1 < i
        BY <3>2, <4>1
      <4>2. CASE m + 1 = i
        BY <2>8, <3>2, <4>2
      <4>3. CASE m + 1 > i
        <5>1. m \in 1 .. n /\ f[m][j] = f[i][j] /\ j \in 1 .. Len(f[m])
          BY <3>2, <4>3
        <5>2. f[m + 1][j] = f[m][j] /\ j \in 1 .. Len(f[m + 1])
          BY <2>7, <3>2, <5>1
        <5>3. QED
          BY <3>2, <5>1, <5>2
      <4>4. QED
        BY <3>2, <4>1, <4>2, <4>3
    <3>3. \A m \in 0 .. n : m \in Kept
      <4> HIDE DEF Kept
      <4>1. QED
        BY <3>1, <3>2, UpTo
    <3>4. n \in Kept
      BY <3>3
    <3>5. QED
      BY <3>4
  <2>9. ASSUME NEW i \in 1 .. n, NEW k \in 1 .. Len(ss[i])
        PROVE  f[n][Offset(ss, i - 1) + k] = ss[i][k]
    <3>1. PICK j : j = Offset(ss, i - 1) + k
      OBVIOUS
    <3>2. j \in 1 .. Len(f[i])
      <4>1. /\ Offset(ss, i - 1) \in Nat /\ Offset(ss, i) = Len(f[i])
            /\ Offset(ss, i) = Offset(ss, i - 1) + Len(ss[i])
        BY <2>3, <2>6
      <4>2. PICK a, b, c : a = Offset(ss, i - 1) /\ b = Len(ss[i]) /\ c = Len(f[i])
        OBVIOUS
      <4>3. a \in Nat /\ b \in Nat /\ c = a + b /\ k \in 1 .. b /\ j = a + k
        BY <2>4, <3>1, <4>1, <4>2
      <4>4. j \in 1 .. c
        BY <4>3
      <4>5. QED
        BY <4>2, <4>4, Zenon
    <3>3. f[i][j] = ss[i][k]
      BY <2>6, <3>1
    <3>4. f[n][j] = f[i][j]
      BY <2>8, <3>2
    <3>5. QED
      BY <3>1, <3>3, <3>4
  <2>10. FlattenSeq(ss) \in Seq(S) /\ Len(FlattenSeq(ss)) = Offset(ss, n)
    BY <2>1, <2>3, <2>5
  <2>11. QED
    BY <1>1, <1>3, <2>1, <2>3, <2>6, <2>9, <2>10
<1>6. QED
  BY <1>4, <1>5


(***************************************************************************)
(* Where texts lie in another.                                             *)
(***************************************************************************)
\* s lies in t, behind the first p symbols.
Lies(s, t, p) ==
  p \in Nat /\ p + Len(s) <= Len(t) /\ \A k \in 1 .. Len(s) : t[p + k] = s[k]

\* Where two texts lie one behind the other, each of them lies.
LEMMA LiesBoth ==
  ASSUME NEW a \in Seq(Symbols), NEW b \in Seq(Symbols), NEW t \in Seq(Symbols), NEW p,
         Lies(a \o b, t, p)
  PROVE  Lies(a, t, p) /\ Lies(b, t, p + Len(a))
<1>1. Len(a) \in Nat /\ Len(b) \in Nat /\ Len(t) \in Nat
  BY LenProperties
<1>2. PICK x, y, z : x = Len(a) /\ y = Len(b) /\ z = Len(t)
  OBVIOUS
<1>3. PICK ab : ab = a \o b
  OBVIOUS
<1>4. /\ Len(ab) = x + y
      /\ \A k \in 1 .. x + y : ab[k] = IF k <= x THEN a[k] ELSE b[k - x]
  BY <1>2, <1>3, ConcatProperties
<1>5. x \in Nat /\ y \in Nat /\ z \in Nat
  BY <1>1, <1>2
<1>6. p \in Nat /\ p + (x + y) <= z /\ \A k \in 1 .. x + y : t[p + k] = ab[k]
  BY <1>2, <1>3, <1>4 DEF Lies
<1>7. ASSUME NEW k \in 1 .. x PROVE t[p + k] = a[k]
  BY <1>4, <1>5, <1>6
<1>8. ASSUME NEW k \in 1 .. y PROVE t[(p + x) + k] = b[k]
  <2>1. PICK j : j = x + k
    OBVIOUS
  <2>2. j \in 1 .. x + y /\ ~(j <= x) /\ j - x = k /\ p + j = (p + x) + k
    BY <1>5, <1>6, <2>1
  <2>3. t[p + j] = b[j - x]
    BY <1>4, <1>6, <2>2
  <2>4. QED
    BY <2>2, <2>3
<1>9. p + x <= z /\ p + x \in Nat /\ (p + x) + y <= z
  BY <1>5, <1>6
<1>10. QED
  BY <1>2, <1>6, <1>7, <1>8, <1>9 DEF Lies

\* A text lies in itself.
LEMMA LiesInItself ==
  ASSUME NEW t \in Seq(Symbols)
  PROVE  Lies(t, t, 0)
<1>1. Len(t) \in Nat
  BY LenProperties
<1>2. QED
  BY <1>1 DEF Lies

\* The view of where a text lies is that text.
LEMMA LiesText ==
  ASSUME NEW s \in Seq(Symbols), NEW t \in Seq(Symbols), NEW p, Lies(s, t, p),
         NEW v, v = <<p + 1, p + Len(s) + 1>>
  PROVE  Text(t, v) = s
<1>1. PICK x : x = Len(s)
  OBVIOUS
<1>2. x \in Nat /\ Len(t) \in Nat /\ p \in Nat /\ p + x <= Len(t)
      /\ \A k \in 1 .. x : t[p + k] = s[k]
  BY <1>1, LenProperties DEF Lies
<1>3. PICK u : u = SubSeq(t, p + 1, p + x)
  OBVIOUS
<1>4. Text(t, v) = u
  <2>1. v[1] = p + 1 /\ v[2] - 1 = p + x
    BY <1>1, <1>2
  <2>2. QED
    BY <1>3, <2>1 DEF Text
<1>5. \A i \in p + 1 .. p + x : t[i] \in Symbols
  <2>1. \A i \in p + 1 .. p + x : i \in 1 .. Len(t)
    BY <1>2
  <2>2. QED
    BY <2>1, ElementOfSeq
<1>6. /\ u \in Seq(Symbols) /\ Len(u) = IF p + 1 <= p + x THEN (p + x) - (p + 1) + 1 ELSE 0
      /\ \A i \in 1 .. (p + x) - (p + 1) + 1 : u[i] = t[(p + 1) + i - 1]
  BY <1>2, <1>3, <1>5, SubSeqProperties
<1>7. Len(u) = x
  BY <1>2, <1>6
<1>8. \A i \in 1 .. x : u[i] = s[i]
  <2>1. \A i \in 1 .. x : i \in 1 .. (p + x) - (p + 1) + 1 /\ (p + 1) + i - 1 = p + i
    BY <1>2
  <2>2. QED
    BY <1>2, <1>6, <2>1
<1>9. u = s
  BY <1>1, <1>6, <1>7, <1>8, SeqEqual
<1>10. QED
  BY <1>4, <1>9

\* One symbol.
LEMMA LiesOne ==
  ASSUME NEW c, NEW t, NEW p, Lies(<<c>>, t, p)
  PROVE  p \in Nat /\ t[p + 1] = c /\ p + 1 <= Len(t)
  BY DEF Lies

\* Where a sequence of texts lies, each of them lies.
LEMMA LiesAll ==
  ASSUME NEW ss \in Seq(Seq(Symbols)), NEW t \in Seq(Symbols), NEW p, Lies(FlattenSeq(ss), t, p),
         NEW i \in 1 .. Len(ss)
  PROVE  Lies(ss[i], t, p + Offset(ss, i - 1))
<1>0. PICK n : n = Len(ss)
  OBVIOUS
<1>1. n \in Nat /\ Len(t) \in Nat /\ i \in 1 .. n
  BY <1>0, LenProperties
<1>2. \A j \in 1 .. n : Len(ss[j]) \in Nat
  BY <1>0, ElementOfSeq, LenProperties
<1>3. /\ Len(FlattenSeq(ss)) = Offset(ss, n)
      /\ \A j \in 1 .. n :
           /\ Offset(ss, j) \in Nat /\ Offset(ss, j - 1) \in Nat
           /\ Offset(ss, j) = Offset(ss, j - 1) + Len(ss[j])
           /\ \A k \in 1 .. Len(ss[j]) : FlattenSeq(ss)[Offset(ss, j - 1) + k] = ss[j][k]
  BY <1>0, Laid, Zenon
<1> DEFINE Inside == {j \in 0 .. n : \A k \in 1 .. n : k <= j => Offset(ss, k) <= Offset(ss, j)}
<1>4. 0 \in Inside
  BY <1>1
<1>5. ASSUME NEW j \in 0 .. n, j \in Inside, j < n PROVE j + 1 \in Inside
  <2>1. j + 1 \in 1 .. n /\ (j + 1) - 1 = j
    BY <1>1, <1>5
  <2>2. /\ Offset(ss, j) \in Nat /\ Offset(ss, j + 1) \in Nat
        /\ Offset(ss, j + 1) = Offset(ss, j) + Len(ss[j + 1]) /\ Len(ss[j + 1]) \in Nat
    BY <1>2, <1>3, <2>1
  <2>3. ASSUME NEW k \in 1 .. n, k <= j + 1 PROVE Offset(ss, k) <= Offset(ss, j + 1)
    <3>1. Offset(ss, k) \in Nat
      BY <1>3
    <3>2. CASE k = j + 1
      BY <2>2, <3>2
    <3>3. CASE k <= j
      <4>1. Offset(ss, k) <= Offset(ss, j)
        BY <1>5, <3>3
      <4>2. QED
        BY <2>2, <3>1, <4>1
    <3>4. QED
      BY <2>3, <3>2, <3>3
  <2>4. QED
    BY <1>5, <2>1, <2>3
<1>6. \A j \in 0 .. n : j \in Inside
  <2> HIDE DEF Inside
  <2>1. QED
    BY <1>1, <1>4, <1>5, UpTo
<1>7. Offset(ss, i) <= Offset(ss, n)
  <2>1. n \in Inside
    BY <1>1, <1>6
  <2>2. QED
    BY <1>1, <2>1
<1>8. PICK a, b, c, f : a = Offset(ss, i - 1) /\ b = Len(ss[i]) /\ c = Offset(ss, n)
                        /\ f = FlattenSeq(ss)
  OBVIOUS
<1>9. /\ a \in Nat /\ b \in Nat /\ a + b <= c /\ Len(f) = c
      /\ \A k \in 1 .. b : f[a + k] = ss[i][k]
  BY <1>1, <1>2, <1>3, <1>7, <1>8
<1>10. p \in Nat /\ p + c <= Len(t) /\ \A k \in 1 .. c : t[p + k] = f[k]
  BY <1>8, <1>9 DEF Lies
<1>11. c \in Nat
  <2>1. n \in 1 .. n
    BY <1>1
  <2>2. QED
    BY <1>3, <1>8, <2>1
<1>12. ASSUME NEW k \in 1 .. b PROVE t[(p + a) + k] = ss[i][k]
  <2>1. PICK j : j = a + k
    OBVIOUS
  <2>2. j \in 1 .. c /\ p + j = (p + a) + k
    BY <1>9, <1>10, <1>11, <2>1
  <2>3. t[p + j] = f[j]
    BY <1>10, <2>2
  <2>4. QED
    BY <1>9, <2>1, <2>2, <2>3
<1>13. p + a \in Nat /\ (p + a) + b <= Len(t)
  BY <1>1, <1>9, <1>10, <1>11
<1>14. QED
  BY <1>8, <1>12, <1>13 DEF Lies

(***************************************************************************)
(* Where the parts of a URI lie: behind how many symbols.                  *)
(***************************************************************************)
UserText(m) == After(m.username \o Before(":", m.password), "@")

UserOff(m) == Len(m.scheme) + 3
HostOff(m) == UserOff(m) + Len(UserText(m))
PortOff(m) == HostOff(m) + Len(m.hostname)
PathOff(m) == PortOff(m) + Len(Before(":", m.portstr))
QueryOff(m) == PathOff(m) + Len(m.path)
FragmentOff(m) == QueryOff(m) + Len(Before("?", QueryText(m)))

QueryPieces(m) ==
  [i \in DOMAIN m.queries |->
    (IF i = 1 THEN <<>> ELSE <<"&">>) \o m.queries[i].name \o <<"=">> \o m.queries[i].value]

NameOff(m, j) == QueryOff(m) + 1 + Offset(QueryPieces(m), j - 1) + (IF j = 1 THEN 0 ELSE 1)
ValueOff(m, j) == NameOff(m, j) + Len(m.queries[j].name) + 1

UriLaid(b, m) ==
  /\ Lies(m.scheme, b, 0) /\ Lies(<<":", "/", "/">>, b, Len(m.scheme))
  /\ Lies(UserText(m), b, UserOff(m))
  /\ Lies(m.hostname, b, HostOff(m))
  /\ Lies(Before(":", m.portstr), b, PortOff(m))
  /\ Lies(m.path, b, PathOff(m))
  /\ Lies(Before("?", QueryText(m)), b, QueryOff(m))
  /\ Lies(Before("#", m.fragment), b, FragmentOff(m))
  /\ Len(b) = FragmentOff(m) + Len(Before("#", m.fragment))

\* c is b behind a.
Both(c, a, b) == c = a \o b

\* Of two texts one behind the other, each lies behind what is before it.
LEMMA LiesBehind ==
  ASSUME NEW a \in Seq(Symbols), NEW b \in Seq(Symbols), NEW t \in Seq(Symbols),
         NEW c, Both(c, a, b), Lies(c, t, 0)
  PROVE  Lies(a, t, 0) /\ Lies(b, t, Len(a)) /\ Len(c) = Len(a) + Len(b)
<1>1. Lies(a, t, 0) /\ Lies(b, t, 0 + Len(a))
  BY LiesBoth DEF Both
<1>2. Len(a) \in Nat /\ Len(c) = Len(a) + Len(b)
  BY ConcatProperties, LenProperties DEF Both
<1>3. 0 + Len(a) = Len(a)
  BY <1>2
<1>4. QED
  BY <1>1, <1>2, <1>3

\* A part with its separator is a text.
LEMMA PartTexts ==
  ASSUME NEW c \in Symbols, NEW t \in Seq(Symbols)
  PROVE  /\ Before(c, t) \in Seq(Symbols) /\ After(t, c) \in Seq(Symbols)
         /\ Len(Before(c, t)) = IF t = <<>> THEN 0 ELSE Len(t) + 1
         /\ Len(After(t, c)) = IF t = <<>> THEN 0 ELSE Len(t) + 1
<1>1. PICK s : s = <<c>>
  OBVIOUS
<1>2. s \in Seq(Symbols) /\ Len(s) = 1
  BY <1>1
<1>3. /\ s \o t \in Seq(Symbols) /\ Len(s \o t) = Len(s) + Len(t)
      /\ t \o s \in Seq(Symbols) /\ Len(t \o s) = Len(t) + Len(s)
  BY <1>2, ConcatProperties
<1>4. Len(t) \in Nat /\ <<>> \in Seq(Symbols) /\ Len(<<>>) = 0
  BY LenProperties, EmptySeq
<1>5. Before(c, t) = IF t = <<>> THEN <<>> ELSE s \o t
  BY <1>1 DEF Before
<1>6. After(t, c) = IF t = <<>> THEN <<>> ELSE t \o s
  BY <1>1 DEF After
<1>7. CASE t = <<>>
  BY <1>4, <1>5, <1>6, <1>7
<1>8. CASE t # <<>>
  <2>1. Before(c, t) = s \o t /\ After(t, c) = t \o s
    BY <1>5, <1>6, <1>8
  <2>2. QED
    BY <1>2, <1>3, <1>4, <1>8, <2>1
<1>9. QED
  BY <1>7, <1>8

\* A text whose symbols are of a set is one over that set.
LEMMA TextOver ==
  ASSUME NEW S, NEW t \in Seq(S), NEW V, \A i \in 1 .. Len(t) : t[i] \in V
  PROVE  t \in Seq(V)
<1>1. Len(t) \in Nat
  BY LenProperties
<1>2. SubSeq(t, 1, Len(t)) \in Seq(V)
  BY <1>1, SubSeqProperties
<1>3. QED
  BY <1>2, SubSeqFull

\* The same where the first symbol is of another set.
LEMMA BeginsOver ==
  ASSUME NEW t, NEW A, NEW B, Begins(t, A, B), NEW V, A \subseteq V, B \subseteq V
  PROVE  t \in Seq(V) /\ t \in Seq(Symbols) /\ Len(t) \in Nat \ {0}
<1>1. t \in Seq(Symbols) /\ Len(t) \in Nat /\ Len(t) # 0
  BY LenProperties, EmptySeq DEF Begins
<1>2. \A i \in 1 .. Len(t) : t[i] \in V
  BY <1>1 DEF Begins
<1>3. QED
  BY <1>1, <1>2, TextOver

\* The symbols of the query string.
QuerySymbols == Ur!Name \union {"&", "="}

\* The query string is a text of the queries' texts.
LEMMA QueryIsText ==
  ASSUME NEW m, Readable(m)
  PROVE  /\ QueryText(m) = FlattenSeq(QueryPieces(m))
         /\ QueryPieces(m) \in Seq(Seq(Symbols)) /\ Len(QueryPieces(m)) = Len(m.queries)
         /\ QueryText(m) \in Seq(QuerySymbols) /\ QueryText(m) \in Seq(Symbols)
         /\ \A i \in 1 .. Len(m.queries) :
              Len(QueryPieces(m)[i]) = (IF i = 1 THEN 0 ELSE 1)
                                         + Len(m.queries[i].name) + 1 + Len(m.queries[i].value)
<1>1. m.queries \in Seq([name : Seq(Symbols), value : Seq(Symbols)])
  BY DEF Readable
<1>2. PICK n \in Nat : n = Len(m.queries) /\ DOMAIN m.queries = 1 .. n
  BY <1>1, LenProperties
<1>3. ASSUME NEW i \in 1 .. n
      PROVE  /\ QueryPieces(m)[i] \in Seq(QuerySymbols)
             /\ Len(QueryPieces(m)[i]) = (IF i = 1 THEN 0 ELSE 1)
                                         + Len(m.queries[i].name) + 1 + Len(m.queries[i].value)
  <2>1. PICK a, b, c, d : /\ a = (IF i = 1 THEN <<>> ELSE <<"&">>) /\ b = m.queries[i].name
                          /\ c = <<"=">> /\ d = m.queries[i].value
    OBVIOUS
  <2>2. /\ a \in Seq(QuerySymbols) /\ c \in Seq(QuerySymbols)
        /\ Len(a) = (IF i = 1 THEN 0 ELSE 1) /\ Len(c) = 1
    <3>1. "&" \in QuerySymbols /\ "=" \in QuerySymbols
      BY DEF QuerySymbols
    <3>2. /\ <<"&">> \in Seq(QuerySymbols) /\ <<"=">> \in Seq(QuerySymbols)
          /\ <<>> \in Seq(QuerySymbols)
      BY <3>1, EmptySeq
    <3>3. QED
      BY <2>1, <3>2
  <2>3. b \in Seq(QuerySymbols) /\ d \in Seq(QuerySymbols) /\ Len(b) \in Nat /\ Len(d) \in Nat
    <3>1. Begins(b, Ur!Name, Ur!Name) /\ Begins(d, Ur!Name, Ur!Name)
      BY <1>2, <2>1 DEF Readable
    <3>2. Ur!Name \subseteq QuerySymbols
      BY DEF QuerySymbols
    <3>3. QED
      BY <3>1, <3>2, BeginsOver
  <2>4. a \o b \in Seq(QuerySymbols) /\ Len(a \o b) = Len(a) + Len(b)
    BY <2>2, <2>3, ConcatProperties
  <2>5. (a \o b) \o c \in Seq(QuerySymbols) /\ Len((a \o b) \o c) = Len(a \o b) + Len(c)
    BY <2>2, <2>4, ConcatProperties
  <2>6. /\ (a \o b) \o c \o d \in Seq(QuerySymbols)
        /\ Len((a \o b) \o c \o d) = Len((a \o b) \o c) + Len(d)
    BY <2>3, <2>5, ConcatProperties
  <2>7. QueryPieces(m)[i] = (a \o b) \o c \o d
    BY <1>2, <2>1 DEF QueryPieces
  <2>8. Len(QueryPieces(m)[i]) = Len(a) + Len(b) + 1 + Len(d)
    BY <2>2, <2>4, <2>5, <2>6, <2>7
  <2>9. QueryPieces(m)[i] \in Seq(QuerySymbols)
    BY <2>6, <2>7, Zenon
  <2>10. QED
    BY <2>1, <2>2, <2>8, <2>9
<1>4. QuerySymbols \subseteq Symbols
  BY DEF QuerySymbols, Symbols, Mark, Ur!Name, Ur!Unreserved, Ur!Alnum, Ur!Alpha, Ur!Method,
     Ur!Digit, Ur!HeaderName, Alnum, Alpha, Method, Digit, HeaderName, Word
<1>5. PICK V, W : V = Seq(QuerySymbols) /\ W = Seq(Symbols)
  OBVIOUS
<1>6. \A i \in 1 .. n : QueryPieces(m)[i] \in V
  BY <1>3, <1>5
<1>7. QueryPieces(m) = [i \in 1 .. n |-> QueryPieces(m)[i]]
  BY <1>2 DEF QueryPieces
<1>8. QueryPieces(m) \in [1 .. n -> V]
  BY <1>6, <1>7
<1>9. QueryPieces(m) \in Seq(V) /\ Len(QueryPieces(m)) = n
  BY <1>8, IsASeq, LenProperties
<1>10. V \subseteq W
  BY <1>4, <1>5, SeqMonotonic
<1>11. QueryPieces(m) \in Seq(W)
  BY <1>9, <1>10, SeqMonotonic
<1>12. QueryText(m) = FlattenSeq(QueryPieces(m))
  BY DEF QueryText, QueryPieces
<1>13. FlattenSeq(QueryPieces(m)) \in V
  BY <1>5, <1>9, Laid
<1>14. QED
  BY <1>2, <1>3, <1>5, <1>9, <1>10, <1>11, <1>12, <1>13

\* The fields of a URI are texts.
LEMMA UriTexts ==
  ASSUME NEW m, Readable(m)
  PROVE  /\ m.scheme \in Seq(Symbols) /\ m.username \in Seq(Symbols)
         /\ m.password \in Seq(Symbols) /\ m.hostname \in Seq(Symbols)
         /\ m.portstr \in Seq(Symbols) /\ m.path \in Seq(Symbols)
         /\ m.fragment \in Seq(Symbols)
         /\ UserText(m) \in Seq(Symbols)
         /\ Before(":", m.portstr) \in Seq(Symbols)
         /\ Before("?", QueryText(m)) \in Seq(Symbols)
         /\ Before("#", m.fragment) \in Seq(Symbols)
<1>1. /\ m.scheme \in Seq(Symbols) /\ m.username \in Seq(Symbols)
      /\ m.password \in Seq(Symbols) /\ m.hostname \in Seq(Symbols)
      /\ m.portstr \in Seq(Symbols) /\ m.path \in Seq(Symbols)
      /\ m.fragment \in Seq(Symbols)
  BY DEF Readable
<1>2. ":" \in Symbols /\ "@" \in Symbols /\ "?" \in Symbols /\ "#" \in Symbols
  BY DEF Symbols, Mark
<1>3. /\ Before(":", m.portstr) \in Seq(Symbols) /\ Before("#", m.fragment) \in Seq(Symbols)
      /\ Before(":", m.password) \in Seq(Symbols)
  BY <1>1, <1>2, PartTexts
<1>4. Before("?", QueryText(m)) \in Seq(Symbols)
  BY <1>2, QueryIsText, PartTexts
<1>5. m.username \o Before(":", m.password) \in Seq(Symbols)
  BY <1>1, <1>3, ConcatProperties
<1>6. UserText(m) \in Seq(Symbols)
  BY <1>2, <1>5, PartTexts DEF UserText
<1>7. QED
  BY <1>1, <1>3, <1>4, <1>6

\* The text of a URI holds its parts one behind the other.
LEMMA UriIsLaid ==
  ASSUME NEW m, Readable(m), NEW b, b = UriText(m), b \in Seq(Symbols)
  PROVE  UriLaid(b, m)
<1>1. PICK x1, x2, x3, x4, x5, x6, x7, x8 :
        /\ x1 = m.scheme /\ x2 = <<":", "/", "/">> /\ x3 = UserText(m) /\ x4 = m.hostname
        /\ x5 = Before(":", m.portstr) /\ x6 = m.path /\ x7 = Before("?", QueryText(m))
        /\ x8 = Before("#", m.fragment)
  OBVIOUS
<1>2. /\ x1 \in Seq(Symbols) /\ x3 \in Seq(Symbols) /\ x4 \in Seq(Symbols) /\ x5 \in Seq(Symbols)
      /\ x6 \in Seq(Symbols) /\ x7 \in Seq(Symbols) /\ x8 \in Seq(Symbols)
  BY <1>1, UriTexts
<1>3. x2 \in Seq(Symbols) /\ Len(x2) = 3
  <2>1. ":" \in Symbols /\ "/" \in Symbols
    BY DEF Symbols, Mark
  <2>2. QED
    BY <1>1, <2>1
<1>4. PICK y2, y3, y4, y5, y6, y7, y8 :
        /\ y2 = x1 \o x2 /\ y3 = y2 \o x3 /\ y4 = y3 \o x4 /\ y5 = y4 \o x5
        /\ y6 = y5 \o x6 /\ y7 = y6 \o x7 /\ y8 = y7 \o x8
  OBVIOUS
<1>5. b = y8
  BY <1>1, <1>4, Zenon DEF UriText, UserText
<1>6. /\ y2 \in Seq(Symbols) /\ y3 \in Seq(Symbols) /\ y4 \in Seq(Symbols) /\ y5 \in Seq(Symbols)
      /\ y6 \in Seq(Symbols) /\ y7 \in Seq(Symbols)
  BY <1>2, <1>3, <1>4, ConcatProperties
<1>22. /\ Both(y2, x1, x2) /\ Both(y3, y2, x3) /\ Both(y4, y3, x4) /\ Both(y5, y4, x5)
       /\ Both(y6, y5, x6) /\ Both(y7, y6, x7) /\ Both(y8, y7, x8)
  BY <1>4 DEF Both
<1>7. Lies(y8, b, 0)
  BY <1>5, LiesInItself
<1>8. Lies(y7, b, 0) /\ Lies(x8, b, Len(y7)) /\ Len(b) = Len(y7) + Len(x8)
  BY <1>2, <1>5, <1>6, <1>7, <1>22, LiesBehind
<1>9. Lies(y6, b, 0) /\ Lies(x7, b, Len(y6)) /\ Len(y7) = Len(y6) + Len(x7)
  BY <1>2, <1>6, <1>8, <1>22, LiesBehind
<1>10. Lies(y5, b, 0) /\ Lies(x6, b, Len(y5)) /\ Len(y6) = Len(y5) + Len(x6)
  BY <1>2, <1>6, <1>9, <1>22, LiesBehind
<1>11. Lies(y4, b, 0) /\ Lies(x5, b, Len(y4)) /\ Len(y5) = Len(y4) + Len(x5)
  BY <1>2, <1>6, <1>10, <1>22, LiesBehind
<1>12. Lies(y3, b, 0) /\ Lies(x4, b, Len(y3)) /\ Len(y4) = Len(y3) + Len(x4)
  BY <1>2, <1>6, <1>11, <1>22, LiesBehind
<1>13. Lies(y2, b, 0) /\ Lies(x3, b, Len(y2)) /\ Len(y3) = Len(y2) + Len(x3)
  BY <1>2, <1>6, <1>12, <1>22, LiesBehind
<1>14. Lies(x1, b, 0) /\ Lies(x2, b, Len(x1)) /\ Len(y2) = Len(x1) + Len(x2)
  <2>1. x2 \in Seq(Symbols)
    BY <1>3
  <2>2. QED
    BY <1>2, <1>6, <1>13, <1>22, <2>1, LiesBehind
<1>15. Len(y2) = UserOff(m)
  BY <1>1, <1>3, <1>14 DEF UserOff
<1>16. Len(y3) = HostOff(m)
  BY <1>1, <1>13, <1>15 DEF HostOff
<1>17. Len(y4) = PortOff(m)
  BY <1>1, <1>12, <1>16 DEF PortOff
<1>18. Len(y5) = PathOff(m)
  BY <1>1, <1>11, <1>17 DEF PathOff
<1>19. Len(y6) = QueryOff(m)
  BY <1>1, <1>10, <1>18 DEF QueryOff
<1>20. Len(y7) = FragmentOff(m)
  BY <1>1, <1>9, <1>19 DEF FragmentOff
<1>21. QED
  BY <1>1, <1>8, <1>9, <1>10, <1>11, <1>12, <1>13, <1>14, <1>15, <1>16, <1>17, <1>18, <1>19,
     <1>20, Zenon
  DEF UriLaid

\* Where a text lies, its symbols are.
LEMMA SymbolsAt ==
  ASSUME NEW V, NEW t \in Seq(V), NEW b \in Seq(Symbols), NEW p, Lies(t, b, p)
  PROVE  /\ p \in Nat /\ Len(t) \in Nat /\ Len(b) \in Nat /\ p + Len(t) <= Len(b)
         /\ \A i \in p + 1 .. p + Len(t) : b[i] \in V
<1>1. Len(t) \in Nat /\ p \in Nat /\ Len(b) \in Nat
  BY LenProperties DEF Lies
<1>2. ASSUME NEW i \in p + 1 .. p + Len(t) PROVE b[i] \in V
  <2>1. PICK k \in 1 .. Len(t) : i = p + k
    <3>1. i - p \in 1 .. Len(t) /\ i = p + (i - p)
      BY <1>1
    <3>2. QED
      BY <3>1
  <2>2. t[k] \in V
    BY ElementOfSeq
  <2>3. QED
    BY <2>1, <2>2 DEF Lies
<1>3. QED
  BY <1>1, <1>2 DEF Lies

\* The same, where the first symbol is of another set.
LEMMA BeginsAt ==
  ASSUME NEW A, NEW B, NEW t, Begins(t, A, B), NEW b, NEW p, Lies(t, b, p)
  PROVE  b[p + 1] \in A /\ \A i \in p + 2 .. p + Len(t) : b[i] \in B
<1>1. Len(t) \in Nat /\ Len(t) # 0 /\ p \in Nat
  BY LenProperties, EmptySeq DEF Begins, Lies
<1>2. b[p + 1] \in A
  <2>1. 1 \in 1 .. Len(t)
    BY <1>1
  <2>2. QED
    BY <2>1 DEF Begins, Lies
<1>3. ASSUME NEW i \in p + 2 .. p + Len(t) PROVE b[i] \in B
  <2>1. PICK k \in 2 .. Len(t) : i = p + k
    <3>1. i - p \in 2 .. Len(t) /\ i = p + (i - p)
      BY <1>1
    <3>2. QED
      BY <3>1
  <2>2. t[k] \in B /\ k \in 1 .. Len(t)
    BY DEF Begins
  <2>3. QED
    BY <2>1, <2>2 DEF Lies
<1>4. QED
  BY <1>2, <1>3

\* Where a text lies with the separator before it.
LEMMA LiesBefore ==
  ASSUME NEW c \in Symbols, NEW t \in Seq(Symbols), t # <<>>, NEW b \in Seq(Symbols), NEW p,
         Lies(Before(c, t), b, p)
  PROVE  b[p + 1] = c /\ Lies(t, b, p + 1)
<1>1. PICK s : s = <<c>>
  OBVIOUS
<1>2. s \in Seq(Symbols) /\ Len(s) = 1 /\ s[1] = c
  BY <1>1
<1>3. Before(c, t) = s \o t
  BY <1>1 DEF Before
<1>4. Lies(s, b, p) /\ Lies(t, b, p + Len(s))
  BY <1>2, <1>3, LiesBoth
<1>5. b[p + 1] = c
  <2>1. 1 \in 1 .. Len(s)
    BY <1>2
  <2>2. QED
    BY <1>2, <1>4, <2>1 DEF Lies
<1>6. QED
  BY <1>2, <1>4, <1>5

\* Where a text lies with the separator behind it.
LEMMA LiesAfter ==
  ASSUME NEW c \in Symbols, NEW t \in Seq(Symbols), t # <<>>, NEW b \in Seq(Symbols), NEW p,
         Lies(After(t, c), b, p)
  PROVE  b[p + Len(t) + 1] = c /\ Lies(t, b, p)
<1>1. PICK s : s = <<c>>
  OBVIOUS
<1>2. s \in Seq(Symbols) /\ Len(s) = 1 /\ s[1] = c
  BY <1>1
<1>3. After(t, c) = t \o s
  BY <1>1 DEF After
<1>4. Lies(t, b, p) /\ Lies(s, b, p + Len(t))
  BY <1>2, <1>3, LiesBoth
<1>5. b[p + Len(t) + 1] = c
  <2>1. 1 \in 1 .. Len(s)
    BY <1>2
  <2>2. QED
    BY <1>2, <1>4, <2>1 DEF Lies
<1>6. QED
  BY <1>4, <1>5

(***************************************************************************)
(* The symbols of a URI, part by part.                                     *)
(***************************************************************************)
\* The offsets are numbers, and end with the text.
LEMMA UriOffsets ==
  ASSUME NEW m, Readable(m), NEW b \in Seq(Symbols), UriLaid(b, m)
  PROVE  /\ Len(m.scheme) \in Nat /\ Len(m.username) \in Nat /\ Len(m.password) \in Nat
         /\ Len(m.hostname) \in Nat /\ Len(m.portstr) \in Nat /\ Len(m.path) \in Nat
         /\ Len(QueryText(m)) \in Nat /\ Len(m.fragment) \in Nat
         /\ UserOff(m) \in Nat /\ HostOff(m) \in Nat /\ PortOff(m) \in Nat /\ PathOff(m) \in Nat
         /\ QueryOff(m) \in Nat /\ FragmentOff(m) \in Nat /\ Len(b) \in Nat
         /\ UserOff(m) = Len(m.scheme) + 3
         /\ PortOff(m) = HostOff(m) + Len(m.hostname) /\ QueryOff(m) = PathOff(m) + Len(m.path)
         /\ PathOff(m) = PortOff(m) + IF m.portstr = <<>> THEN 0 ELSE Len(m.portstr) + 1
         /\ FragmentOff(m) = QueryOff(m) + IF QueryText(m) = <<>> THEN 0 ELSE Len(QueryText(m)) + 1
         /\ Len(b) = FragmentOff(m) + IF m.fragment = <<>> THEN 0 ELSE Len(m.fragment) + 1
<1>1. /\ Len(m.scheme) \in Nat /\ Len(m.username) \in Nat /\ Len(m.password) \in Nat
      /\ Len(m.hostname) \in Nat /\ Len(m.portstr) \in Nat /\ Len(m.path) \in Nat
      /\ Len(QueryText(m)) \in Nat /\ Len(m.fragment) \in Nat /\ Len(b) \in Nat
      /\ Len(UserText(m)) \in Nat
  BY UriTexts, QueryIsText, LenProperties
<1>2. ":" \in Symbols /\ "?" \in Symbols /\ "#" \in Symbols
  BY DEF Symbols, Mark
<1>3. /\ Len(Before(":", m.portstr)) = IF m.portstr = <<>> THEN 0 ELSE Len(m.portstr) + 1
      /\ Len(Before("?", QueryText(m))) = IF QueryText(m) = <<>> THEN 0 ELSE Len(QueryText(m)) + 1
      /\ Len(Before("#", m.fragment)) = IF m.fragment = <<>> THEN 0 ELSE Len(m.fragment) + 1
  BY <1>2, UriTexts, QueryIsText, PartTexts
<1>4. UserOff(m) \in Nat /\ UserOff(m) = Len(m.scheme) + 3
  BY <1>1 DEF UserOff
<1>5. HostOff(m) \in Nat
  BY <1>1, <1>4 DEF HostOff
<1>6. PortOff(m) \in Nat /\ PortOff(m) = HostOff(m) + Len(m.hostname)
  BY <1>1, <1>5 DEF PortOff
<1>7. PathOff(m) = PortOff(m) + IF m.portstr = <<>> THEN 0 ELSE Len(m.portstr) + 1
  BY <1>3 DEF PathOff
<1>8. PathOff(m) \in Nat
  BY <1>1, <1>6, <1>7
<1>9. QueryOff(m) \in Nat /\ QueryOff(m) = PathOff(m) + Len(m.path)
  BY <1>1, <1>8 DEF QueryOff
<1>10. FragmentOff(m) = QueryOff(m) + IF QueryText(m) = <<>> THEN 0 ELSE Len(QueryText(m)) + 1
  BY <1>3 DEF FragmentOff
<1>11. FragmentOff(m) \in Nat
  BY <1>1, <1>9, <1>10
<1>12. Len(b) = FragmentOff(m) + IF m.fragment = <<>> THEN 0 ELSE Len(m.fragment) + 1
  BY <1>3 DEF UriLaid
<1>13. QED
  BY <1>1, <1>4, <1>5, <1>6, <1>7, <1>8, <1>9, <1>10, <1>11, <1>12

\* The scheme and what separates it.
LEMMA SchemeSymbols ==
  ASSUME NEW m, Readable(m), NEW b \in Seq(Symbols), UriLaid(b, m)
  PROVE  /\ \A i \in 1 .. Len(m.scheme) : b[i] \in Ur!Unreserved
         /\ b[Len(m.scheme) + 1] = ":" /\ b[Len(m.scheme) + 2] = "/" /\ b[Len(m.scheme) + 3] = "/"
<1>1. Len(m.scheme) \in Nat
  BY UriOffsets
<1>2. m.scheme \in Seq(Ur!Unreserved) /\ Lies(m.scheme, b, 0)
      /\ Lies(<<":", "/", "/">>, b, Len(m.scheme))
  BY DEF Readable, UriLaid
<1>3. \A i \in 0 + 1 .. 0 + Len(m.scheme) : b[i] \in Ur!Unreserved
  BY <1>2, SymbolsAt
<1>4. PICK s : s = <<":", "/", "/">>
  OBVIOUS
<1>5. Len(s) = 3 /\ s[1] = ":" /\ s[2] = "/" /\ s[3] = "/" /\ Lies(s, b, Len(m.scheme))
  BY <1>2, <1>4
<1>6. 1 \in 1 .. Len(s) /\ 2 \in 1 .. Len(s) /\ 3 \in 1 .. Len(s)
  BY <1>5
<1>7. QED
  BY <1>1, <1>3, <1>5, <1>6 DEF Lies

\* The user, with or without a password.
LEMMA UserSymbols ==
  ASSUME NEW m, Readable(m), NEW b \in Seq(Symbols), UriLaid(b, m)
  PROVE  /\ m.username = <<>> => m.password = <<>> /\ HostOff(m) = UserOff(m)
         /\ m.username # <<>> =>
              /\ Len(m.username) > 0 /\ Lies(m.username, b, UserOff(m))
              /\ b[UserOff(m) + 1] \in Alnum \union HeaderName
              /\ \A i \in UserOff(m) + 2 .. UserOff(m) + Len(m.username) : b[i] \in Ur!Name
         /\ m.username # <<>> /\ m.password = <<>> =>
              /\ b[UserOff(m) + Len(m.username) + 1] = "@"
              /\ HostOff(m) = UserOff(m) + Len(m.username) + 1
         /\ m.username # <<>> /\ m.password # <<>> =>
              /\ b[UserOff(m) + Len(m.username) + 1] = ":" /\ Len(m.password) > 0
              /\ Lies(m.password, b, UserOff(m) + Len(m.username) + 1)
              /\ b[UserOff(m) + Len(m.username) + 2] \in Ur!Unreserved \ HeaderName
              /\ \A i \in UserOff(m) + Len(m.username) + 3 .. HostOff(m) - 1 :
                   b[i] \in Alnum \union {"%"}
              /\ b[HostOff(m)] = "@"
              /\ HostOff(m) = UserOff(m) + Len(m.username) + Len(m.password) + 2
<1>1. /\ m.username \in Seq(Symbols) /\ m.password \in Seq(Symbols)
      /\ Len(m.username) \in Nat /\ Len(m.password) \in Nat /\ UserOff(m) \in Nat
  BY UriTexts, UriOffsets
<1>2. PICK t : t = m.username \o Before(":", m.password)
  OBVIOUS
<1>3. ":" \in Symbols /\ "@" \in Symbols
  BY DEF Symbols, Mark
<1>4. /\ Before(":", m.password) \in Seq(Symbols)
      /\ Len(Before(":", m.password)) = IF m.password = <<>> THEN 0 ELSE Len(m.password) + 1
  BY <1>1, <1>3, PartTexts
<1>5. t \in Seq(Symbols) /\ Len(t) = Len(m.username) + Len(Before(":", m.password))
  BY <1>1, <1>2, <1>4, ConcatProperties
<1>6. Lies(After(t, "@"), b, UserOff(m)) /\ HostOff(m) = UserOff(m) + Len(After(t, "@"))
  BY <1>2 DEF UriLaid, UserText, HostOff
<1>7. Len(After(t, "@")) = IF t = <<>> THEN 0 ELSE Len(t) + 1
  BY <1>3, <1>5, PartTexts
<1>11. PICK u \in Nat, w \in Nat, x \in Nat :
         u = Len(m.username) /\ w = Len(m.password) /\ x = UserOff(m)
  BY <1>1
<1>12. Len(Before(":", m.password)) = IF m.password = <<>> THEN 0 ELSE w + 1
  BY <1>4, <1>11
<1>13. Len(t) = u + IF m.password = <<>> THEN 0 ELSE w + 1
  BY <1>5, <1>11, <1>12
<1>8. CASE m.username = <<>>
  <2>1. m.password = <<>>
    BY <1>8 DEF Readable
  <2>2. Len(t) = 0
    BY <1>4, <1>5, <1>8, <2>1
  <2>3. t = <<>>
    BY <1>5, <2>2, EmptySeq
  <2>4. QED
    BY <1>1, <1>6, <1>7, <1>8, <2>1, <2>3
<1>9. CASE m.username # <<>>
  <2>1. Len(m.username) > 0
    BY <1>1, <1>9, EmptySeq
  <2>2. t # <<>> /\ Len(t) \in Nat
    <3>3. u > 0
      BY <1>11, <2>1
    <3>1. Len(t) > 0 /\ Len(t) \in Nat
      BY <1>13, <3>3
    <3>2. QED
      BY <3>1
  <2>3. b[UserOff(m) + Len(t) + 1] = "@" /\ Lies(t, b, UserOff(m))
    BY <1>3, <1>5, <1>6, <2>2, LiesAfter
  <2>4. Lies(m.username, b, UserOff(m))
        /\ Lies(Before(":", m.password), b, UserOff(m) + Len(m.username))
    BY <1>1, <1>2, <1>4, <2>3, LiesBoth
  <2>5. /\ b[UserOff(m) + 1] \in Alnum \union HeaderName
        /\ \A i \in UserOff(m) + 2 .. UserOff(m) + Len(m.username) : b[i] \in Ur!Name
    <3>1. Begins(m.username, Alnum \union HeaderName, Ur!Name)
      BY <1>9 DEF Readable
    <3>2. QED
      BY <2>4, <3>1, BeginsAt
  <2>6. HostOff(m) = x + Len(t) + 1
    <3>1. HostOff(m) = x + Len(After(t, "@")) /\ Len(After(t, "@")) = Len(t) + 1
      BY <1>6, <1>7, <1>11, <2>2
    <3>2. QED
      BY <2>2, <3>1
  <2>7. CASE m.password = <<>>
    <3>1. Len(t) = Len(m.username)
      BY <1>11, <1>13, <2>7
    <3>2. QED
      BY <1>9, <1>11, <2>1, <2>3, <2>4, <2>5, <2>6, <2>7, <3>1
  <2>8. CASE m.password # <<>>
    <3>1. Len(t) = u + w + 1
      BY <1>13, <2>8
    <3>2. PICK q \in Nat : q = UserOff(m) + Len(m.username) /\ q = x + u
      BY <1>11
    <3>3. b[q + 1] = ":" /\ Lies(m.password, b, q + 1)
      BY <1>1, <1>3, <2>4, <2>8, <3>2, LiesBefore
    <3>4. b[(q + 1) + 1] \in Ur!Unreserved \ HeaderName
          /\ \A i \in (q + 1) + 2 .. (q + 1) + Len(m.password) : b[i] \in Alnum \union {"%"}
      <4>1. Begins(m.password, Ur!Unreserved \ HeaderName, Alnum \union {"%"})
        BY <2>8 DEF Readable
      <4>2. QED
        BY <3>3, <4>1, BeginsAt, Zenon
    <3>5. HostOff(m) = x + u + w + 2
      BY <2>6, <3>1
    <3>6. HostOff(m) = UserOff(m) + Len(t) + 1 /\ b[HostOff(m)] = "@"
      BY <1>11, <2>3, <2>6
    <3>7. (q + 1) + 1 = q + 2 /\ (q + 1) + 2 = q + 3 /\ (q + 1) + Len(m.password) = HostOff(m) - 1
      <4>1. (q + 1) + 1 = q + 2 /\ (q + 1) + 2 = q + 3 /\ (q + 1) + w = HostOff(m) - 1
        BY <3>2, <3>5
      <4>2. QED
        BY <1>11, <4>1
    <3>8. Len(m.password) > 0
      BY <1>1, <2>8, EmptySeq
    <3>9. /\ b[q + 2] \in Ur!Unreserved \ HeaderName
          /\ \A i \in q + 3 .. HostOff(m) - 1 : b[i] \in Alnum \union {"%"}
      BY <3>4, <3>7
    <3>10. QED
      BY <1>9, <1>11, <2>1, <2>4, <2>5, <2>8, <3>2, <3>3, <3>5, <3>6, <3>8, <3>9
  <2>9. QED
    BY <2>7, <2>8
<1>10. QED
  BY <1>8, <1>9

\* The host and the port.
LEMMA HostSymbols ==
  ASSUME NEW m, Readable(m), NEW b \in Seq(Symbols), UriLaid(b, m)
  PROVE  /\ Len(m.hostname) > 0 /\ Lies(m.hostname, b, HostOff(m))
         /\ b[HostOff(m) + 1] \in Ur!Name
         /\ m.username = <<>> => b[HostOff(m) + 1] \in Alnum \union HeaderName
         /\ \A i \in HostOff(m) + 2 .. PortOff(m) : b[i] \in Ur!Name
         /\ m.portstr # <<>> =>
              /\ b[PortOff(m) + 1] = ":" /\ Len(m.portstr) > 0
              /\ Lies(m.portstr, b, PortOff(m) + 1)
              /\ \A i \in PortOff(m) + 2 .. PathOff(m) : b[i] \in Digit
<1>0. /\ Len(m.hostname) \in Nat /\ Len(m.portstr) \in Nat /\ PortOff(m) \in Nat
      /\ m.portstr \in Seq(Symbols) /\ PortOff(m) = HostOff(m) + Len(m.hostname)
      /\ m.portstr # <<>> => PathOff(m) = PortOff(m) + Len(m.portstr) + 1
      /\ m.hostname \in Seq(Symbols) /\ m.portstr \in Seq(Digit)
  <2>1. m.portstr \in Seq(Digit)
    BY DEF Readable
  <2>2. QED
    BY <2>1, UriOffsets, UriTexts
<1> DEFINE First == IF m.username = <<>> THEN Alnum \union HeaderName ELSE Ur!Name
<1>1. Begins(m.hostname, First, Ur!Name) /\ Lies(m.hostname, b, HostOff(m))
  BY DEF Readable, UriLaid
<1>2. b[HostOff(m) + 1] \in First
      /\ \A i \in HostOff(m) + 2 .. HostOff(m) + Len(m.hostname) : b[i] \in Ur!Name
  <2> HIDE DEF First
  <2>1. QED
    BY <1>1, BeginsAt
<1>3. Len(m.hostname) > 0
  BY <1>0, <1>1, EmptySeq DEF Begins
<1>4. b[HostOff(m) + 1] \in Ur!Name
  <2>1. First \subseteq Ur!Name
    BY DEF Ur!Name, Ur!Unreserved, Ur!Alnum, Ur!Alpha, Ur!Method, Ur!Digit, Ur!HeaderName,
       Alnum, Alpha, Method, Digit, HeaderName
  <2>2. QED
    BY <1>2, <2>1
<1>5. m.username = <<>> => b[HostOff(m) + 1] \in Alnum \union HeaderName
  BY <1>2
<1>6. ASSUME m.portstr # <<>>
      PROVE  /\ b[PortOff(m) + 1] = ":" /\ Len(m.portstr) > 0
             /\ Lies(m.portstr, b, PortOff(m) + 1)
             /\ \A i \in PortOff(m) + 2 .. PathOff(m) : b[i] \in Digit
  <2>1. ":" \in Symbols
    BY DEF Symbols, Mark
  <2>2. Lies(Before(":", m.portstr), b, PortOff(m))
    BY DEF UriLaid
  <2>3. b[PortOff(m) + 1] = ":" /\ Lies(m.portstr, b, PortOff(m) + 1)
    BY <1>0, <1>6, <2>1, <2>2, LiesBefore
  <2>4. \A i \in (PortOff(m) + 1) + 1 .. (PortOff(m) + 1) + Len(m.portstr) : b[i] \in Digit
    BY <1>0, <2>3, SymbolsAt
  <2>5. (PortOff(m) + 1) + 1 = PortOff(m) + 2 /\ (PortOff(m) + 1) + Len(m.portstr) = PathOff(m)
    BY <1>0, <1>6
  <2>6. Len(m.portstr) > 0
    BY <1>0, <1>6, EmptySeq
  <2>7. QED
    BY <2>3, <2>4, <2>5, <2>6
<1>7. QED
  BY <1>0, <1>1, <1>2, <1>3, <1>4, <1>5, <1>6

\* The path, the query string and the fragment.
LEMMA RestSymbols ==
  ASSUME NEW m, Readable(m), NEW b \in Seq(Symbols), UriLaid(b, m)
  PROVE  /\ Len(m.path) > 0 /\ Lies(m.path, b, PathOff(m)) /\ b[PathOff(m) + 1] = "/"
         /\ \A i \in PathOff(m) + 2 .. QueryOff(m) : b[i] \in Symbols \ {"#", "?"}
         /\ QueryText(m) # <<>> =>
              /\ b[QueryOff(m) + 1] = "?" /\ Len(QueryText(m)) > 0
              /\ Lies(QueryText(m), b, QueryOff(m) + 1)
              /\ \A i \in QueryOff(m) + 2 .. FragmentOff(m) : b[i] \in QuerySymbols
         /\ m.fragment # <<>> =>
              /\ b[FragmentOff(m) + 1] = "#" /\ Len(m.fragment) > 0
              /\ Lies(m.fragment, b, FragmentOff(m) + 1)
<1>0. /\ Len(m.path) \in Nat /\ Len(QueryText(m)) \in Nat /\ Len(m.fragment) \in Nat
      /\ PathOff(m) \in Nat /\ QueryOff(m) \in Nat /\ QueryOff(m) = PathOff(m) + Len(m.path)
      /\ QueryText(m) # <<>> => FragmentOff(m) = QueryOff(m) + Len(QueryText(m)) + 1
  BY UriOffsets
<1>1. Begins(m.path, {"/"}, Symbols \ {"#", "?"}) /\ Lies(m.path, b, PathOff(m))
  BY DEF Readable, UriLaid
<1>2. b[PathOff(m) + 1] \in {"/"}
      /\ \A i \in PathOff(m) + 2 .. PathOff(m) + Len(m.path) : b[i] \in Symbols \ {"#", "?"}
  BY <1>1, BeginsAt
<1>3. Len(m.path) > 0
  BY <1>0, <1>1, EmptySeq DEF Begins
<1>4. "?" \in Symbols /\ "#" \in Symbols
  BY DEF Symbols, Mark
<1>5. ASSUME QueryText(m) # <<>>
      PROVE  /\ b[QueryOff(m) + 1] = "?" /\ Len(QueryText(m)) > 0
             /\ Lies(QueryText(m), b, QueryOff(m) + 1)
             /\ \A i \in QueryOff(m) + 2 .. FragmentOff(m) : b[i] \in QuerySymbols
  <2>1. Lies(Before("?", QueryText(m)), b, QueryOff(m)) /\ QueryText(m) \in Seq(Symbols)
        /\ QueryText(m) \in Seq(QuerySymbols)
    BY QueryIsText DEF UriLaid
  <2>2. b[QueryOff(m) + 1] = "?" /\ Lies(QueryText(m), b, QueryOff(m) + 1)
    BY <1>4, <1>5, <2>1, LiesBefore
  <2>3. \A i \in (QueryOff(m) + 1) + 1 .. (QueryOff(m) + 1) + Len(QueryText(m)) :
          b[i] \in QuerySymbols
    BY <2>1, <2>2, SymbolsAt
  <2>4. /\ (QueryOff(m) + 1) + 1 = QueryOff(m) + 2
        /\ (QueryOff(m) + 1) + Len(QueryText(m)) = FragmentOff(m)
    BY <1>0, <1>5
  <2>5. Len(QueryText(m)) > 0
    BY <1>0, <1>5, <2>1, EmptySeq
  <2>6. QED
    BY <2>2, <2>3, <2>4, <2>5
<1>6. ASSUME m.fragment # <<>>
      PROVE  /\ b[FragmentOff(m) + 1] = "#" /\ Len(m.fragment) > 0
             /\ Lies(m.fragment, b, FragmentOff(m) + 1)
  <2>1. Lies(Before("#", m.fragment), b, FragmentOff(m)) /\ m.fragment \in Seq(Symbols)
    BY UriTexts DEF UriLaid
  <2>2. b[FragmentOff(m) + 1] = "#" /\ Lies(m.fragment, b, FragmentOff(m) + 1)
    BY <1>4, <1>6, <2>1, LiesBefore
  <2>3. Len(m.fragment) > 0
    BY <1>0, <1>6, <2>1, EmptySeq
  <2>4. QED
    BY <2>2, <2>3
<1>7. QED
  BY <1>0, <1>1, <1>2, <1>3, <1>5, <1>6

\* The queries, each behind the one before it.
LEMMA QueryLies ==
  ASSUME NEW m, Readable(m), NEW b \in Seq(Symbols), UriLaid(b, m), NEW j \in 1 .. Len(m.queries)
  PROVE  /\ QueryText(m) # <<>>
         /\ NameOff(m, 1) = QueryOff(m) + 1
         /\ NameOff(m, j) \in Nat /\ ValueOff(m, j) \in Nat
         /\ Len(m.queries[j].name) \in Nat \ {0} /\ Len(m.queries[j].value) \in Nat \ {0}
         /\ m.queries[j].name \in Seq(Symbols) /\ m.queries[j].value \in Seq(Symbols)
         /\ ValueOff(m, j) = NameOff(m, j) + Len(m.queries[j].name) + 1
         /\ Lies(m.queries[j].name, b, NameOff(m, j))
         /\ Lies(m.queries[j].value, b, ValueOff(m, j))
         /\ \A i \in NameOff(m, j) + 1 .. NameOff(m, j) + Len(m.queries[j].name) : b[i] \in Ur!Name
         /\ b[ValueOff(m, j)] = "="
         /\ \A i \in ValueOff(m, j) + 1 .. ValueOff(m, j) + Len(m.queries[j].value) :
              b[i] \in Ur!Name
         /\ j > 1 => b[NameOff(m, j)] = "&"
         /\ j = Len(m.queries) => ValueOff(m, j) + Len(m.queries[j].value) = FragmentOff(m)
         /\ j < Len(m.queries) =>
              NameOff(m, j + 1) = ValueOff(m, j) + Len(m.queries[j].value) + 1
<1>1. PICK ss : ss = QueryPieces(m)
  OBVIOUS
<1>2. /\ ss \in Seq(Seq(Symbols)) /\ Len(ss) = Len(m.queries) /\ QueryText(m) = FlattenSeq(ss)
      /\ QueryText(m) \in Seq(Symbols)
  BY <1>1, QueryIsText
<1>3. PICK a, d : a = m.queries[j].name /\ d = m.queries[j].value
  OBVIOUS
<1>4. /\ a \in Seq(Symbols) /\ d \in Seq(Symbols) /\ a \in Seq(Ur!Name) /\ d \in Seq(Ur!Name)
      /\ Len(a) \in Nat \ {0} /\ Len(d) \in Nat \ {0}
  <2>1. j \in DOMAIN m.queries
    <3>1. m.queries \in Seq([name : Seq(Symbols), value : Seq(Symbols)])
      BY DEF Readable
    <3>2. QED
      BY <3>1, LenProperties
  <2>2. Begins(a, Ur!Name, Ur!Name) /\ Begins(d, Ur!Name, Ur!Name)
    BY <1>3, <2>1 DEF Readable
  <2>3. QED
    BY <2>2, BeginsOver
<1>5. PICK first \in {0, 1} : first = IF j = 1 THEN 0 ELSE 1
  OBVIOUS
<1>6. Len(ss[j]) = first + Len(a) + 1 + Len(d)
  BY <1>1, <1>3, <1>5, QueryIsText
<1>7. /\ Offset(ss, 0) = 0 /\ Len(FlattenSeq(ss)) = Offset(ss, Len(ss))
      /\ \A k \in 1 .. Len(ss) :
           /\ Offset(ss, k) \in Nat /\ Offset(ss, k - 1) \in Nat
           /\ Offset(ss, k) = Offset(ss, k - 1) + Len(ss[k])
  BY <1>2, Laid
<1>8. /\ Offset(ss, j) \in Nat /\ Offset(ss, j - 1) \in Nat
      /\ Offset(ss, j) = Offset(ss, j - 1) + Len(ss[j])
  BY <1>2, <1>7
<1>9. QueryText(m) # <<>>
  <2>1. Len(ss) \in Nat /\ Len(ss) \in 1 .. Len(ss)
    <3>1. Len(ss) \in Nat
      BY <1>2, LenProperties
    <3>2. QED
      BY <1>2, <3>1
  <2>2. \A i \in 1 .. Len(m.queries) : Len(QueryPieces(m)[i]) = (IF i = 1 THEN 0 ELSE 1)
                                         + Len(m.queries[i].name) + 1 + Len(m.queries[i].value)
    BY QueryIsText
  <2>3. SUFFICES ASSUME QueryText(m) = <<>> PROVE FALSE
    OBVIOUS
  <2>4. Lies(ss[j], <<>>, 0 + Offset(ss, j - 1))
    <3>1. Lies(FlattenSeq(ss), <<>>, 0) /\ <<>> \in Seq(Symbols)
      BY <1>2, <2>3, LiesInItself, EmptySeq
    <3>2. QED
      BY <1>2, <3>1, LiesAll
  <2>5. Offset(ss, j - 1) + Len(ss[j]) <= 0
    <3>1. 0 + Offset(ss, j - 1) = Offset(ss, j - 1) /\ Len(<<>>) = 0
      BY <1>8
    <3>2. QED
      BY <2>4, <3>1 DEF Lies
  <2>6. QED
    BY <1>4, <1>5, <1>6, <1>8, <2>5
<1>10. Lies(QueryText(m), b, QueryOff(m) + 1) /\ QueryOff(m) \in Nat
       /\ FragmentOff(m) = QueryOff(m) + Len(QueryText(m)) + 1
  BY <1>9, RestSymbols, UriOffsets
<1>11. PICK q \in Nat : q = QueryOff(m) + 1 + Offset(ss, j - 1)
  BY <1>8, <1>10
<1>12. Lies(ss[j], b, q)
  <2>1. Lies(ss[j], b, (QueryOff(m) + 1) + Offset(ss, j - 1))
    BY <1>2, <1>10, LiesAll
  <2>2. QED
    BY <1>11, <2>1
<1>13. NameOff(m, j) = q + first
  BY <1>1, <1>5, <1>11 DEF NameOff
<1>14. ValueOff(m, j) = q + first + Len(a) + 1
  BY <1>3, <1>4, <1>13 DEF ValueOff
<1>15. PICK e, f, g, h : /\ e = (IF j = 1 THEN <<>> ELSE <<"&">>) /\ f = e \o a
                         /\ g = f \o <<"=">> /\ h = g \o d
  OBVIOUS
<1>16. ss[j] = h
  <2>1. j \in DOMAIN m.queries
    <3>1. m.queries \in Seq([name : Seq(Symbols), value : Seq(Symbols)])
      BY DEF Readable
    <3>2. QED
      BY <3>1, LenProperties
  <2>2. QED
    BY <1>1, <1>3, <1>15, <2>1 DEF QueryPieces
<1>17. PICK c : c = <<"=">>
  OBVIOUS
<1>18. c \in Seq(Symbols) /\ Len(c) = 1 /\ c[1] = "=" /\ g = f \o c
  <2>1. "=" \in Symbols
    BY DEF Symbols, Mark
  <2>2. QED
    BY <1>15, <1>17, <2>1
<1>19. e \in Seq(Symbols) /\ Len(e) = first /\ (j # 1 => e[1] = "&")
  <2>1. "&" \in Symbols
    BY DEF Symbols, Mark
  <2>2. <<"&">> \in Seq(Symbols) /\ <<>> \in Seq(Symbols)
    BY <2>1, EmptySeq
  <2>3. QED
    BY <1>5, <1>15, <2>2
<1>20. /\ f \in Seq(Symbols) /\ Len(f) = first + Len(a)
       /\ g \in Seq(Symbols) /\ Len(g) = first + Len(a) + 1
  <2>1. f \in Seq(Symbols) /\ Len(f) = Len(e) + Len(a)
    BY <1>4, <1>15, <1>19, ConcatProperties
  <2>2. g \in Seq(Symbols) /\ Len(g) = Len(f) + Len(c)
    BY <1>18, <2>1, ConcatProperties
  <2>3. QED
    BY <1>18, <1>19, <2>1, <2>2
<1>21. Lies(g, b, q) /\ Lies(d, b, q + Len(g))
  <2>1. Lies(g \o d, b, q)
    BY <1>12, <1>15, <1>16, Zenon
  <2>2. QED
    BY <1>4, <1>20, <2>1, LiesBoth
<1>22. Lies(f, b, q) /\ Lies(c, b, q + Len(f))
  BY <1>18, <1>20, <1>21, LiesBoth
<1>23. Lies(e, b, q) /\ Lies(a, b, q + Len(e))
  BY <1>4, <1>15, <1>19, <1>22, LiesBoth
<1>24. PICK x \in Nat, y \in Nat : x = Len(a) /\ y = Len(d)
  BY <1>4
<1>25. Lies(a, b, NameOff(m, j)) /\ Lies(d, b, ValueOff(m, j))
  BY <1>13, <1>14, <1>19, <1>20, <1>21, <1>23, <1>24
<1>26. b[ValueOff(m, j)] = "="
  <2>1. 1 \in 1 .. Len(c) /\ q + Len(f) + 1 = ValueOff(m, j)
    BY <1>14, <1>18, <1>20, <1>24
  <2>2. QED
    BY <1>18, <1>22, <2>1 DEF Lies
<1>27. j > 1 => b[NameOff(m, j)] = "&"
  <2>1. SUFFICES ASSUME j > 1 PROVE b[NameOff(m, j)] = "&"
    OBVIOUS
  <2>2. 1 \in 1 .. Len(e) /\ q + 1 = NameOff(m, j)
    BY <1>5, <1>13, <1>19, <2>1
  <2>3. QED
    BY <1>19, <1>23, <2>1, <2>2 DEF Lies
<1>28. NameOff(m, 1) = QueryOff(m) + 1
  BY <1>1, <1>7, <1>10 DEF NameOff
<1>29. q + first + x + 1 + y = QueryOff(m) + 1 + Offset(ss, j)
  <2>1. PICK k \in Nat, n \in Nat : k = Offset(ss, j - 1) /\ n = Offset(ss, j)
    BY <1>8
  <2>2. n = k + Len(ss[j]) /\ Len(ss[j]) = first + x + 1 + y
    BY <1>6, <1>8, <1>24, <2>1
  <2>3. PICK z \in Nat : z = QueryOff(m)
    BY <1>10
  <2>4. q = z + 1 + k
    BY <1>11, <2>1, <2>3
  <2>5. n = k + (first + x + 1 + y)
    BY <2>2
  <2>6. q + first + x + 1 + y = z + 1 + n
    BY <2>4, <2>5
  <2>7. QED
    BY <2>1, <2>3, <2>6
<1>30. j = Len(m.queries) => ValueOff(m, j) + y = FragmentOff(m)
  <2>1. SUFFICES ASSUME j = Len(m.queries) PROVE ValueOff(m, j) + y = FragmentOff(m)
    OBVIOUS
  <2>2. Len(QueryText(m)) = Offset(ss, j)
    BY <1>2, <1>7, <2>1
  <2>3. QED
    BY <1>8, <1>10, <1>14, <1>24, <1>29, <2>2
<1>31. j < Len(m.queries) => NameOff(m, j + 1) = ValueOff(m, j) + y + 1
  <2>1. NameOff(m, j + 1) = QueryOff(m) + 1 + Offset(ss, j) + 1
    <3>1. (j + 1) - 1 = j /\ j + 1 # 1
      OBVIOUS
    <3>2. QED
      BY <1>1, <3>1 DEF NameOff
  <2>2. QED
    BY <1>8, <1>10, <1>14, <1>24, <1>29, <2>1
<1>32. /\ \A i \in NameOff(m, j) + 1 .. NameOff(m, j) + Len(a) : b[i] \in Ur!Name
       /\ \A i \in ValueOff(m, j) + 1 .. ValueOff(m, j) + Len(d) : b[i] \in Ur!Name
  BY <1>4, <1>25, SymbolsAt
<1>33. /\ NameOff(m, j) \in Nat /\ ValueOff(m, j) \in Nat
       /\ ValueOff(m, j) = NameOff(m, j) + Len(a) + 1
  BY <1>13, <1>14, <1>24
<1>34. QED
  BY <1>3, <1>4, <1>9, <1>24, <1>25, <1>26, <1>27, <1>28, <1>30, <1>31, <1>32, <1>33

(***************************************************************************)
(* The way through a URI.                                                  *)
(***************************************************************************)
\* The view of a part that lies behind p symbols; a part may be absent.
ViewAt(t, p) == IF t = <<>> THEN Empty ELSE <<p + 1, p + Len(t) + 1>>

\* The first k parts have been taken, and no other.
Taken(o, m, k) ==
  /\ o.scheme = IF k >= 1 THEN <<1, Len(m.scheme) + 1>> ELSE Empty
  /\ o.username = IF k >= 2 THEN ViewAt(m.username, UserOff(m)) ELSE Empty
  /\ o.password = IF k >= 3 THEN ViewAt(m.password, UserOff(m) + Len(m.username) + 1) ELSE Empty
  /\ o.hostname = IF k >= 4 THEN ViewAt(m.hostname, HostOff(m)) ELSE Empty
  /\ o.portstr = IF k >= 5 THEN ViewAt(m.portstr, PortOff(m) + 1) ELSE Empty
  /\ o.path = IF k >= 6 THEN ViewAt(m.path, PathOff(m)) ELSE Empty
  /\ o.querystr = IF k >= 7 THEN ViewAt(QueryText(m), QueryOff(m) + 1) ELSE Empty
  /\ o.fragment = IF k >= 8 THEN ViewAt(m.fragment, FragmentOff(m) + 1) ELSE Empty

\* The host has been taken for a user's name.
HostAsUser(o, m) ==
  /\ o.scheme = <<1, Len(m.scheme) + 1>> /\ o.username = ViewAt(m.hostname, HostOff(m))
  /\ o.password = Empty /\ o.hostname = Empty /\ o.portstr = Empty /\ o.path = Empty
  /\ o.querystr = Empty /\ o.fragment = Empty

\* The queries taken so far are the first n of the message.
QueriesRead(b, o, m, n) ==
  /\ Len(o.queries) = n /\ n <= Len(m.queries)
  /\ \A j \in 1 .. n : /\ Text(b, o.queries[j].name) = m.queries[j].name
                       /\ Text(b, o.queries[j].value) = m.queries[j].value

\* What stands behind the colon in the authority.
Second(m) == IF m.username = <<>> THEN m.portstr ELSE m.password
SecondOff(m) == IF m.username = <<>> THEN PortOff(m) + 1 ELSE UserOff(m) + Len(m.username) + 1
FirstEnd(m) == IF m.username = <<>> THEN PortOff(m) ELSE UserOff(m) + Len(m.username)
SecondEnd(m) == IF m.username = <<>> THEN PathOff(m) ELSE HostOff(m) - 1
TakenFirst(o, m) == IF m.username = <<>> THEN HostAsUser(o, m) ELSE Taken(o, m, 2)

AuthorityWay(m, i, s, o, p) ==
  /\ s = "SchemeStart" => Taken(o, m, 0) /\ p = 1 /\ i <= Len(m.scheme) + 1
  /\ s = "SchemeEnd" => Taken(o, m, 1) /\ i = Len(m.scheme) + 2
  /\ s = "SchemeEndSlash" => Taken(o, m, 1) /\ i = Len(m.scheme) + 3
  /\ s = "SchemeEndSlashSlash" => Taken(o, m, 1) /\ i = UserOff(m) + 1
  /\ s = "UsernameOrHostname" =>
       Taken(o, m, 1) /\ p = UserOff(m) + 1 /\ i \in UserOff(m) + 2 .. FirstEnd(m) + 1
  /\ s = "PortOrPasswordStart" =>
       Second(m) # <<>> /\ TakenFirst(o, m) /\ i = SecondOff(m) + 1
  /\ s = "PortOrPassword" =>
       /\ Second(m) # <<>> /\ TakenFirst(o, m) /\ p = SecondOff(m) + 1
       /\ i \in SecondOff(m) + 2 .. SecondEnd(m) + 1
  /\ s = "Password" =>
       /\ m.username # <<>> /\ m.password # <<>> /\ Taken(o, m, 2) /\ p = SecondOff(m) + 1
       /\ i \in SecondOff(m) + 2 .. SecondEnd(m) + 1
  /\ s = "HostnameStart" => m.username # <<>> /\ Taken(o, m, 3) /\ i = HostOff(m) + 1
  /\ s = "Hostname" =>
       /\ m.username # <<>> /\ Taken(o, m, 3) /\ p = HostOff(m) + 1
       /\ i \in HostOff(m) + 2 .. PortOff(m) + 1
  /\ s = "PortStart" => m.portstr # <<>> /\ Taken(o, m, 4) /\ i = PortOff(m) + 2
  /\ s = "Port" =>
       /\ m.portstr # <<>> /\ Taken(o, m, 4) /\ p = PortOff(m) + 2
       /\ i \in PortOff(m) + 3 .. PathOff(m) + 1

RestWay(m, i, s, o, p) ==
  /\ s = "Path" => Taken(o, m, 5) /\ p = PathOff(m) + 1 /\ i \in PathOff(m) + 2 .. QueryOff(m) + 1
  /\ s = "QueryStart" => QueryText(m) # <<>> /\ Taken(o, m, 6) /\ i = QueryOff(m) + 2
  /\ s = "Query" =>
       /\ QueryText(m) # <<>> /\ Taken(o, m, 6) /\ p = QueryOff(m) + 2
       /\ i \in QueryOff(m) + 3 .. FragmentOff(m) + 1
  /\ s = "HashStart" => m.fragment # <<>> /\ Taken(o, m, 7) /\ i = FragmentOff(m) + 2

QueriesWay(b, m, i, s, o, l) ==
  /\ s \in InQuery => Taken(o, m, 8) /\ l.end = FragmentOff(m) + 1
  /\ s = "QueryName" =>
       \E j \in 1 .. Len(m.queries) :
         /\ QueriesRead(b, o, m, j - 1) /\ l.prev = NameOff(m, j) + 1
         /\ i \in NameOff(m, j) + 1 .. ValueOff(m, j)
  /\ s = "QueryValueStart" =>
       \E j \in 1 .. Len(m.queries) :
         /\ QueriesRead(b, o, m, j - 1) /\ Text(b, l.name) = m.queries[j].name
         /\ i = ValueOff(m, j) + 1
  /\ s = "QueryValue" =>
       \E j \in 1 .. Len(m.queries) :
         /\ QueriesRead(b, o, m, j - 1) /\ Text(b, l.name) = m.queries[j].name
         /\ l.prev = ValueOff(m, j) + 1
         /\ i \in ValueOff(m, j) + 2 .. ValueOff(m, j) + Len(m.queries[j].value) + 1
  /\ s = "NewQueryStart" =>
       \E j \in 2 .. Len(m.queries) : QueriesRead(b, o, m, j - 1) /\ i = NameOff(m, j) + 1

UriWay(b, m, i, s, o, l) ==
  /\ s \notin {"Error", "InCompleted"}
  /\ s \notin InQuery \union {"Completed"} => o.queries = <<>>
  /\ AuthorityWay(m, i, s, o, l.prev)
  /\ RestWay(m, i, s, o, l.prev)
  /\ QueriesWay(b, m, i, s, o, l)
  /\ s = "Completed" => Taken(o, m, 8) /\ QueriesRead(b, o, m, Len(m.queries))

\* No symbol is read by two rows of a state.
LEMMA UriRowIsOne ==
  ASSUME NEW q \in Ur!Rules, NEW r \in Ur!Rules, q.from = r.from, NEW c, c \in q.on, c \in r.on
  PROVE  q.to = r.to /\ q.do = r.do
  BY DEF Ur!Rules, Ur!Rule, Ur!Unreserved, Ur!Name, Ur!Alnum, Ur!Alpha, Ur!Digit, Ur!Method,
         Ur!HeaderName

\* A row of the table.
UriRow(from, on, to, do) == Ur!Rule(from, on, to, do) \in Ur!Rules

\* The parser does what the row that reads the symbol says.
LEMMA UriReads ==
  ASSUME Ur!Next, UriTypes, state \notin Verdicts, it < loc.end,
         NEW s, state = s, s = "Port" \/ s = "PortOrPassword" => buf[it] # "/",
         NEW on, NEW to, NEW do, UriRow(s, on, to, do), buf[it] \in on
  PROVE  Ur!Do(do) /\ state' = to /\ it' = it + 1 /\ buf' = buf
<1>1. PICK r \in Ur!Rules : r = Ur!Rule(s, on, to, do)
  BY DEF UriRow
<1>2. r.from = state /\ r.on = on /\ r.to = to /\ r.do = do
  BY <1>1 DEF Ur!Rule
<1>3. ~Ur!Reject
  BY <1>2 DEF Ur!Reject, Ur!Accepts, Ur!Cur
<1>4. ~Ur!PortOrPassword /\ ~Ur!PortEnd
  BY DEF Ur!PortOrPassword, Ur!PortEnd, Ur!IsPort, Ur!Cur
<1>5. ~Ur!Fragment
  <2>1. r.from # "HashStart"
    BY DEF Ur!Rules, Ur!Rule
  <2>2. QED
    BY <1>2, <2>1 DEF Ur!Fragment
<1>6. CASE Ur!Follow
  <2>1. PICK q \in Ur!Rules : q.from = state /\ buf[it] \in q.on /\ Ur!Do(q.do) /\ state' = q.to
    BY <1>6 DEF Ur!Follow, Ur!Cur
  <2>2. q.to = to /\ q.do = do
    BY <1>2, <2>1, UriRowIsOne
  <2>3. QED
    BY <1>6, <2>1, <2>2 DEF Ur!Follow
<1>7. CASE ~Ur!Follow
  <2>1. Ur!EndOfText \/ Ur!EndOfQueries
    BY <1>3, <1>4, <1>5, <1>7 DEF Ur!Next, Ur!Read
  <2>2. it >= loc.end
    BY <2>1 DEF Ur!EndOfText, Ur!EndOfQueries
  <2>3. it \in Int /\ loc.end \in Int
    BY UriEnds
  <2>4. QED
    BY <2>2, <2>3
<1>8. QED
  BY <1>6, <1>7

\* What a row does, by its kind.
LEMMA UriDoes ==
  ASSUME UriTypes
  PROVE  /\ Ur!Do("none") => out' = out /\ loc' = loc
         /\ Ur!Do("mark") => out' = out /\ loc' = [loc EXCEPT !.prev = it]
         /\ Ur!Do("hostname") =>
              /\ out' = [out EXCEPT !.hostname = <<loc.prev, it>>]
              /\ loc' = IF buf[it] = "/" THEN [loc EXCEPT !.prev = it] ELSE loc
         /\ Ur!Do("name") => out' = out /\ loc' = [loc EXCEPT !.name = <<loc.prev, it>>]
         /\ Ur!Do("query") =>
              /\ out' = [out EXCEPT !.queries = Append(@, Ur!Query(<<loc.prev, it>>))]
              /\ loc' = loc
         /\ \A f \in {"scheme", "username", "password", "path", "querystr"} :
              Ur!Do(f) => out' = [out EXCEPT ![f] = <<loc.prev, it>>] /\ loc' = loc
  BY DEF Ur!Do, Ur!View, Ur!Cur

\* The parts follow each other in their order.
LEMMA UriOrder ==
  ASSUME NEW m, Readable(m), NEW b \in Seq(Symbols), UriLaid(b, m)
  PROVE  /\ UserOff(m) <= HostOff(m) /\ HostOff(m) < PortOff(m) /\ PortOff(m) <= PathOff(m)
         /\ PathOff(m) < QueryOff(m) /\ QueryOff(m) <= FragmentOff(m) /\ FragmentOff(m) <= Len(b)
         /\ FirstEnd(m) \in Nat /\ UserOff(m) < FirstEnd(m) /\ FirstEnd(m) <= PathOff(m)
         /\ FirstEnd(m) < Len(b)
         /\ Second(m) # <<>> =>
              /\ SecondOff(m) = FirstEnd(m) + 1 /\ SecondEnd(m) = SecondOff(m) + Len(Second(m))
              /\ Len(Second(m)) \in Nat \ {0} /\ SecondOff(m) \in Nat /\ SecondEnd(m) \in Nat
              /\ SecondEnd(m) < Len(b)
<1>1. PICK x1 \in Nat, x2 \in Nat, x3 \in Nat, x4 \in Nat, x5 \in Nat, x6 \in Nat, x7 \in Nat :
        /\ x1 = UserOff(m) /\ x2 = HostOff(m) /\ x3 = PortOff(m) /\ x4 = PathOff(m)
        /\ x5 = QueryOff(m) /\ x6 = FragmentOff(m) /\ x7 = Len(b)
  BY UriOffsets
<1>2. PICK u \in Nat, w \in Nat, h \in Nat, p \in Nat, q \in Nat :
        /\ u = Len(m.username) /\ w = Len(m.password) /\ h = Len(m.hostname)
        /\ p = Len(m.portstr) /\ q = Len(m.path)
  BY UriOffsets
<1>3. /\ x3 = x2 + h /\ x5 = x4 + q /\ h > 0 /\ q > 0
      /\ x4 = x3 + IF m.portstr = <<>> THEN 0 ELSE p + 1
  BY <1>1, <1>2, UriOffsets, HostSymbols, RestSymbols
<1>4. x6 = x5 + IF QueryText(m) = <<>> THEN 0 ELSE Len(QueryText(m)) + 1
  BY <1>1, UriOffsets
<1>5. x7 = x6 + IF m.fragment = <<>> THEN 0 ELSE Len(m.fragment) + 1
  BY <1>1, UriOffsets
<1>6. Len(QueryText(m)) \in Nat /\ Len(m.fragment) \in Nat
  BY UriOffsets
<1>7. x5 <= x6 /\ x6 <= x7 /\ x3 <= x4 /\ x2 < x3 /\ x4 < x5
  <2>1. x5 <= x6
    BY <1>4, <1>6
  <2>2. x6 <= x7
    BY <1>5, <1>6
  <2>3. x3 <= x4 /\ x2 < x3 /\ x4 < x5
    BY <1>3
  <2>4. QED
    BY <2>1, <2>2, <2>3
<1>8. m.portstr # <<>> => p > 0
  BY <1>2, HostSymbols
<1>9. CASE m.username = <<>>
  <2>1. x2 = x1 /\ FirstEnd(m) = x3 /\ SecondEnd(m) = x4
        /\ Second(m) = m.portstr /\ SecondOff(m) = x3 + 1
    BY <1>1, <1>9, UserSymbols DEF FirstEnd, SecondEnd, Second, SecondOff
  <2>2. Second(m) # <<>> => x4 = x3 + 1 + p /\ p > 0 /\ p = Len(Second(m))
    BY <1>2, <1>3, <1>8, <2>1
  <2>3. QED
    BY <1>1, <1>7, <2>1, <2>2
<1>10. CASE m.username # <<>>
  <2>1. /\ FirstEnd(m) = x1 + u /\ SecondEnd(m) = x2 - 1 /\ Second(m) = m.password
        /\ SecondOff(m) = x1 + u + 1
    BY <1>1, <1>2, <1>10 DEF FirstEnd, SecondEnd, Second, SecondOff
  <2>2. u > 0
    BY <1>2, <1>10, UserSymbols
  <2>3. /\ m.password = <<>> => x2 = x1 + u + 1
        /\ m.password # <<>> => x2 = x1 + u + w + 2 /\ w > 0
    BY <1>1, <1>2, <1>10, UserSymbols
  <2>4. x1 + u + 1 <= x2
    BY <2>3
  <2>5. /\ UserOff(m) <= HostOff(m) /\ FirstEnd(m) \in Nat /\ UserOff(m) < FirstEnd(m)
        /\ FirstEnd(m) <= PathOff(m) /\ FirstEnd(m) < Len(b)
    BY <1>1, <1>7, <2>1, <2>2, <2>4
  <2>6. ASSUME Second(m) # <<>>
        PROVE  /\ SecondOff(m) = FirstEnd(m) + 1 /\ SecondEnd(m) = SecondOff(m) + Len(Second(m))
               /\ Len(Second(m)) \in Nat \ {0} /\ SecondOff(m) \in Nat /\ SecondEnd(m) \in Nat
               /\ SecondEnd(m) < Len(b)
    <3>1. x2 = x1 + u + w + 2 /\ w > 0
      BY <2>1, <2>3, <2>6
    <3>2. Len(Second(m)) = w
      BY <1>2, <2>1
    <3>3. x2 - 1 < x7 /\ x2 - 1 \in Nat /\ x1 + u + 1 \in Nat /\ x2 - 1 = (x1 + u + 1) + w
          /\ w \in Nat \ {0}
      BY <1>7, <3>1
    <3>4. QED
      BY <1>1, <2>1, <3>2, <3>3
  <2>7. QED
    BY <1>1, <1>7, <2>5, <2>6
<1>11. QED
  BY <1>9, <1>10

\* A parser at work on a text that is all of a URI.
UriAtWork ==
  /\ UriTypes /\ Readable(msg) /\ UriLaid(buf, msg)
  /\ UriWay(buf, msg, it, state, out, loc)
  /\ Ur!Next

\* It stays on its way.
UriGoesOn == buf' = buf /\ UriWay(buf, msg, it', state', out', loc')

\* In the scheme and the separator behind it.
LEMMA SchemeStep ==
  ASSUME UriAtWork, state \in InScheme
  PROVE  UriGoesOn
<1>1. /\ UriTypes /\ Readable(msg) /\ UriLaid(buf, msg) /\ Ur!Next
      /\ UriWay(buf, msg, it, state, out, loc)
  BY DEF UriAtWork
<1>2. PICK n \in Nat : n = Len(msg.scheme) /\ UserOff(msg) = n + 3
  BY <1>1, UriOffsets DEF UriTypes
<1>3. /\ \A i \in 1 .. n : buf[i] \in Ur!Unreserved
      /\ buf[n + 1] = ":" /\ buf[n + 2] = "/" /\ buf[n + 3] = "/"
  BY <1>1, <1>2, SchemeSymbols DEF UriTypes
<1>4. /\ it \in Int /\ 1 <= it /\ loc.end = Len(buf) + 1 /\ state \notin Verdicts
      /\ out \in Locators
      /\ loc \in LocatorLocals /\ buf \in Seq(Symbols)
  BY <1>1, UriEnds DEF UriTypes, InScheme, InQuery, Verdicts
<1>5. n + 4 < loc.end /\ FirstEnd(msg) >= n + 4 /\ FirstEnd(msg) \in Nat
  <2>1. FirstEnd(msg) <= Len(buf) /\ FirstEnd(msg) >= n + 4 /\ FirstEnd(msg) \in Nat
    <3>1. FirstEnd(msg) \in Nat /\ UserOff(msg) < FirstEnd(msg) /\ FirstEnd(msg) < Len(buf)
      BY <1>1, <1>4, UriOrder
    <3>2. QED
      BY <1>2, <1>4, <3>1, UriEnds
  <2>2. QED
    BY <1>4, <2>1
<1>6. CASE state = "SchemeStart"
  <2>1. it <= n + 1 /\ loc.prev = 1 /\ Taken(out, msg, 0) /\ out.queries = <<>>
    BY <1>1, <1>2, <1>6 DEF UriWay, AuthorityWay, InQuery
  <2>2. it < loc.end
    BY <1>2, <1>4, <1>5, <2>1
  <2>3. CASE it <= n
    <3>1. UriRow("SchemeStart", Ur!Unreserved, "SchemeStart", "none")
      BY Zenon DEF UriRow, Ur!Rules
    <3>2. state' = "SchemeStart" /\ out' = out /\ loc' = loc /\ it' = it + 1 /\ buf' = buf
      BY <1>1, <1>3, <1>4, <1>6, <2>2, <2>3, <3>1, UriReads, UriDoes
    <3>3. QED
      BY <1>2, <1>4, <2>1, <2>3, <3>2
        DEF UriGoesOn, UriWay, AuthorityWay, RestWay, QueriesWay, InQuery
  <2>4. CASE it = n + 1
    <3>1. UriRow("SchemeStart", {":"}, "SchemeEnd", "scheme")
      BY Zenon DEF UriRow, Ur!Rules
    <3>2. /\ state' = "SchemeEnd" /\ out' = [out EXCEPT !["scheme"] = <<loc.prev, it>>]
          /\ loc' = loc /\ it' = it + 1 /\ buf' = buf
      BY <1>1, <1>3, <1>4, <1>6, <2>2, <2>4, <3>1, UriReads, UriDoes
    <3>3. Taken(out', msg, 1) /\ out'.queries = <<>>
      BY <1>2, <1>4, <2>1, <2>4, <3>2 DEF Taken, Locators
    <3>4. QED
      BY <1>2, <1>4, <2>1, <2>4, <3>2, <3>3
        DEF UriGoesOn, UriWay, AuthorityWay, RestWay, QueriesWay, InQuery
  <2>5. QED
    BY <1>4, <2>1, <2>3, <2>4
<1>7. CASE state = "SchemeEnd"
  <2>1. it = n + 2 /\ Taken(out, msg, 1) /\ out.queries = <<>>
    BY <1>1, <1>2, <1>7 DEF UriWay, AuthorityWay, InQuery
  <2>2. UriRow("SchemeEnd", {"/"}, "SchemeEndSlash", "none")
    BY Zenon DEF UriRow, Ur!Rules
  <2>3. it < loc.end
    BY <1>2, <1>4, <1>5, <2>1
  <2>4. state' = "SchemeEndSlash" /\ out' = out /\ loc' = loc /\ it' = it + 1 /\ buf' = buf
    BY <1>1, <1>3, <1>4, <1>7, <2>1, <2>2, <2>3, UriReads, UriDoes
  <2>5. QED
    BY <1>2, <1>4, <2>1, <2>4 DEF UriGoesOn, UriWay, AuthorityWay, RestWay, QueriesWay, InQuery
<1>8. CASE state = "SchemeEndSlash"
  <2>1. it = n + 3 /\ Taken(out, msg, 1) /\ out.queries = <<>>
    BY <1>1, <1>2, <1>8 DEF UriWay, AuthorityWay, InQuery
  <2>2. UriRow("SchemeEndSlash", {"/"}, "SchemeEndSlashSlash", "none")
    BY Zenon DEF UriRow, Ur!Rules
  <2>3. it < loc.end
    BY <1>2, <1>4, <1>5, <2>1
  <2>4. state' = "SchemeEndSlashSlash" /\ out' = out /\ loc' = loc /\ it' = it + 1 /\ buf' = buf
    BY <1>1, <1>3, <1>4, <1>8, <2>1, <2>2, <2>3, UriReads, UriDoes
  <2>5. QED
    BY <1>2, <1>4, <2>1, <2>4 DEF UriGoesOn, UriWay, AuthorityWay, RestWay, QueriesWay, InQuery
<1>9. CASE state = "SchemeEndSlashSlash"
  <2>1. it = n + 4 /\ Taken(out, msg, 1) /\ out.queries = <<>>
    BY <1>1, <1>2, <1>9 DEF UriWay, AuthorityWay, InQuery
  <2>2. UriRow("SchemeEndSlashSlash", Ur!Alnum \union Ur!HeaderName, "UsernameOrHostname", "mark")
    BY Zenon DEF UriRow, Ur!Rules
  <2>3. it < loc.end
    BY <1>2, <1>4, <1>5, <2>1
  <2>4. buf[it] \in Ur!Alnum \union Ur!HeaderName
    <3>1. Ur!Alnum = Alnum /\ Ur!HeaderName = HeaderName
      BY
        DEF Ur!Alnum, Ur!Alpha, Ur!Method, Ur!Digit, Ur!HeaderName, Alnum, Alpha, Method, Digit, HeaderName
    <3>2. it = UserOff(msg) + 1 /\ buf[UserOff(msg) + 1] \in Alnum \union HeaderName
      BY <1>1, <1>2, <1>4, <2>1, UserSymbols, HostSymbols
    <3>3. QED
      BY <3>1, <3>2
  <2>5. /\ state' = "UsernameOrHostname" /\ out' = out /\ loc' = [loc EXCEPT !.prev = it]
        /\ it' = it + 1 /\ buf' = buf
    BY <1>1, <1>4, <1>9, <2>2, <2>3, <2>4, UriReads, UriDoes
  <2>6. loc'.prev = it
    BY <1>4, <2>5 DEF LocatorLocals
  <2>7. QED
    BY <1>2, <1>4, <1>5, <2>1, <2>5, <2>6
    DEF UriGoesOn, UriWay, AuthorityWay, RestWay, QueriesWay, InQuery
<1>10. QED
  BY <1>6, <1>7, <1>8, <1>9 DEF InScheme

\* What holds of a parser at work that has not come to the queries.
LEMMA UriHere ==
  ASSUME UriAtWork
  PROVE  /\ UriTypes /\ Readable(msg) /\ UriLaid(buf, msg) /\ Ur!Next
         /\ UriWay(buf, msg, it, state, out, loc)
         /\ it \in Int /\ 1 <= it /\ out \in Locators /\ loc \in LocatorLocals
         /\ buf \in Seq(Symbols)
         /\ Len(buf) \in Nat /\ loc.end \in Int /\ loc.prev \in Int
         /\ state \notin InQuery \union Verdicts => loc.end = Len(buf) + 1
<1>1. /\ UriTypes /\ Readable(msg) /\ UriLaid(buf, msg) /\ Ur!Next
      /\ UriWay(buf, msg, it, state, out, loc)
  BY DEF UriAtWork
<1>2. /\ it \in Int /\ Len(buf) \in Nat /\ loc.end \in Int /\ loc.prev \in Int
  BY <1>1, UriEnds
<1>3. 1 <= it /\ out \in Locators /\ loc \in LocatorLocals /\ buf \in Seq(Symbols)
      /\ (state \notin InQuery \union Verdicts => loc.end = Len(buf) + 1)
  BY <1>1, <1>2 DEF UriTypes
<1>4. QED
  BY <1>1, <1>2, <1>3

\* The view that ends behind a text.
LEMMA ViewIs ==
  ASSUME NEW t, t # <<>>, NEW p, NEW from, NEW to, from = p + 1, to = p + Len(t) + 1
  PROVE  <<from, to>> = ViewAt(t, p)
  BY DEF ViewAt

\* In what is a user's name or the host.
LEMMA FirstStep ==
  ASSUME UriAtWork, state = "UsernameOrHostname"
  PROVE  UriGoesOn
<1>1. /\ UriTypes /\ Readable(msg) /\ UriLaid(buf, msg) /\ Ur!Next
      /\ UriWay(buf, msg, it, state, out, loc)
      /\ it \in Int /\ 1 <= it /\ out \in Locators /\ loc \in LocatorLocals /\ buf \in Seq(Symbols)
      /\ Len(buf) \in Nat /\ loc.end = Len(buf) + 1 /\ loc.prev \in Int /\ state \notin Verdicts
  BY UriHere DEF InQuery, Verdicts
<1>2. PICK u \in Nat, f \in Nat : u = UserOff(msg) /\ f = FirstEnd(msg) /\ u < f /\ f < Len(buf)
  BY <1>1, UriOrder, UriOffsets
<1>3. /\ Taken(out, msg, 1) /\ loc.prev = u + 1 /\ it \in u + 2 .. f + 1 /\ out.queries = <<>>
  BY <1>1, <1>2 DEF UriWay, AuthorityWay, InQuery
<1>4. it < loc.end
  BY <1>1, <1>2, <1>3
<1>5. CASE it <= f
  <2>1. buf[it] \in Ur!Name
    <3>1. CASE msg.username = <<>>
      <4>1. HostOff(msg) = u /\ PortOff(msg) = f
        BY <1>1, <1>2, <3>1, UserSymbols DEF FirstEnd
      <4>2. QED
        BY <1>1, <1>3, <1>5, <4>1, HostSymbols
    <3>2. CASE msg.username # <<>>
      <4>1. u + Len(msg.username) = f
        BY <1>2, <3>2 DEF FirstEnd
      <4>2. QED
        BY <1>1, <1>2, <1>3, <1>5, <3>2, <4>1, UserSymbols
    <3>3. QED
      BY <3>1, <3>2
  <2>2. UriRow("UsernameOrHostname", Ur!Name, "UsernameOrHostname", "none")
    BY Zenon DEF UriRow, Ur!Rules
  <2>3. state' = "UsernameOrHostname" /\ out' = out /\ loc' = loc /\ it' = it + 1 /\ buf' = buf
    BY <1>1, <1>4, <2>1, <2>2, UriReads, UriDoes
  <2>4. QED
    BY <1>2, <1>3, <1>5, <2>3 DEF UriGoesOn, UriWay, AuthorityWay, RestWay, QueriesWay, InQuery
<1>6. CASE it = f + 1 /\ msg.username = <<>>
  <2>1. HostOff(msg) = u /\ PortOff(msg) = f /\ msg.password = <<>>
    BY <1>1, <1>2, <1>6, UserSymbols DEF FirstEnd
  <2>2. <<loc.prev, it>> = ViewAt(msg.hostname, HostOff(msg))
    <3>1. msg.hostname # <<>>
      BY <1>1, HostSymbols
    <3>2. PortOff(msg) = HostOff(msg) + Len(msg.hostname)
      BY <1>1, UriOffsets
    <3>3. loc.prev = HostOff(msg) + 1 /\ it = HostOff(msg) + Len(msg.hostname) + 1
      BY <1>3, <1>6, <2>1, <3>2
    <3>4. QED
      BY <3>1, <3>3, ViewIs
  <2>3. CASE msg.portstr = <<>>
    <3>1. PathOff(msg) = f /\ f < QueryOff(msg) /\ QueryOff(msg) \in Nat
      BY <1>1, <1>2, <2>1, <2>3, UriOffsets, UriOrder
    <3>2. buf[it] = "/"
      BY <1>1, <1>6, <3>1, RestSymbols
    <3>3. UriRow("UsernameOrHostname", {"/"}, "Path", "hostname")
      BY Zenon DEF UriRow, Ur!Rules
    <3>4. /\ state' = "Path" /\ out' = [out EXCEPT !.hostname = <<loc.prev, it>>]
          /\ loc' = [loc EXCEPT !.prev = it] /\ it' = it + 1 /\ buf' = buf
      BY <1>1, <1>4, <3>2, <3>3, UriReads, UriDoes
    <3>5. Taken(out', msg, 5) /\ out'.queries = <<>> /\ loc'.prev = it
      BY <1>1, <1>3, <1>6, <2>1, <2>2, <2>3, <3>4 DEF Taken, Locators, LocatorLocals, ViewAt
    <3>6. QED
      BY <1>2, <1>6, <3>1, <3>4, <3>5
      DEF UriGoesOn, UriWay, AuthorityWay, RestWay, QueriesWay, InQuery
  <2>4. CASE msg.portstr # <<>>
    <3>1. buf[it] = ":"
      BY <1>1, <1>6, <2>1, <2>4, HostSymbols
    <3>2. UriRow("UsernameOrHostname", {":"}, "PortOrPasswordStart", "username")
      BY Zenon DEF UriRow, Ur!Rules
    <3>3. /\ state' = "PortOrPasswordStart" /\ out' = [out EXCEPT !["username"] = <<loc.prev, it>>]
          /\ loc' = loc /\ it' = it + 1 /\ buf' = buf
      BY <1>1, <1>4, <3>1, <3>2, UriReads, UriDoes
    <3>4. HostAsUser(out', msg) /\ out'.queries = <<>>
      BY <1>1, <1>3, <2>2, <3>3 DEF Taken, HostAsUser, Locators
    <3>5. Second(msg) # <<>> /\ TakenFirst(out', msg) /\ SecondOff(msg) = f + 1
      BY <1>6, <2>1, <2>4, <3>4 DEF Second, TakenFirst, SecondOff
    <3>6. QED
      BY <1>2, <1>6, <3>3, <3>4, <3>5
      DEF UriGoesOn, UriWay, AuthorityWay, RestWay, QueriesWay, InQuery
  <2>5. QED
    BY <2>3, <2>4
<1>7. CASE it = f + 1 /\ msg.username # <<>>
  <2>1. f = u + Len(msg.username)
    BY <1>2, <1>7 DEF FirstEnd
  <2>2. <<loc.prev, it>> = ViewAt(msg.username, UserOff(msg))
    <3>1. loc.prev = UserOff(msg) + 1 /\ it = UserOff(msg) + Len(msg.username) + 1
      BY <1>2, <1>3, <1>7, <2>1
    <3>2. QED
      BY <1>7, <3>1, ViewIs
  <2>3. CASE msg.password = <<>>
    <3>1. buf[it] = "@" /\ HostOff(msg) = it
      BY <1>1, <1>2, <1>7, <2>1, <2>3, UserSymbols
    <3>2. UriRow("UsernameOrHostname", {"@"}, "HostnameStart", "username")
      BY Zenon DEF UriRow, Ur!Rules
    <3>3. /\ state' = "HostnameStart" /\ out' = [out EXCEPT !["username"] = <<loc.prev, it>>]
          /\ loc' = loc /\ it' = it + 1 /\ buf' = buf
      BY <1>1, <1>4, <3>1, <3>2, UriReads, UriDoes
    <3>4. Taken(out', msg, 3) /\ out'.queries = <<>>
      BY <1>1, <1>3, <2>2, <2>3, <3>3 DEF Taken, Locators, ViewAt
    <3>5. QED
      BY <1>2, <1>7, <3>1, <3>3, <3>4
      DEF UriGoesOn, UriWay, AuthorityWay, RestWay, QueriesWay, InQuery
  <2>4. CASE msg.password # <<>>
    <3>1. buf[it] = ":"
      BY <1>1, <1>2, <1>7, <2>1, <2>4, UserSymbols
    <3>2. UriRow("UsernameOrHostname", {":"}, "PortOrPasswordStart", "username")
      BY Zenon DEF UriRow, Ur!Rules
    <3>3. /\ state' = "PortOrPasswordStart" /\ out' = [out EXCEPT !["username"] = <<loc.prev, it>>]
          /\ loc' = loc /\ it' = it + 1 /\ buf' = buf
      BY <1>1, <1>4, <3>1, <3>2, UriReads, UriDoes
    <3>4. Taken(out', msg, 2) /\ out'.queries = <<>>
      BY <1>1, <1>3, <2>2, <3>3 DEF Taken, Locators
    <3>5. Second(msg) # <<>> /\ TakenFirst(out', msg) /\ SecondOff(msg) = f + 1
      BY <1>2, <1>7, <2>1, <2>4, <3>4 DEF Second, TakenFirst, SecondOff
    <3>6. QED
      BY <1>2, <1>7, <3>3, <3>4, <3>5
      DEF UriGoesOn, UriWay, AuthorityWay, RestWay, QueriesWay, InQuery
  <2>5. QED
    BY <2>3, <2>4
<1>8. QED
  BY <1>3, <1>5, <1>6, <1>7

\* The symbols behind the colon.
LEMMA SecondSymbols ==
  ASSUME NEW m, Readable(m), NEW b \in Seq(Symbols), UriLaid(b, m), Second(m) # <<>>
  PROVE  /\ b[SecondOff(m) + 1] \in Ur!Unreserved \ Ur!HeaderName
         /\ Lies(Second(m), b, SecondOff(m))
         /\ m.username = <<>> => /\ \A i \in SecondOff(m) + 1 .. SecondEnd(m) : b[i] \in Digit
                                 /\ b[SecondEnd(m) + 1] = "/"
         /\ m.username # <<>> =>
              /\ \A i \in SecondOff(m) + 2 .. SecondEnd(m) : b[i] \in Alnum \union {"%"}
              /\ b[SecondEnd(m) + 1] = "@"
<1>1. /\ Ur!HeaderName = HeaderName /\ Digit \subseteq Ur!Unreserved \ HeaderName
  BY DEF Ur!HeaderName, HeaderName, Ur!Unreserved, Ur!Alnum, Ur!Digit, Digit
<1>2. /\ SecondEnd(m) = SecondOff(m) + Len(Second(m)) /\ Len(Second(m)) \in Nat \ {0}
      /\ SecondOff(m) \in Nat /\ UserOff(m) \in Nat /\ HostOff(m) \in Nat /\ PortOff(m) \in Nat
      /\ Len(m.username) \in Nat
  BY UriOrder, UriOffsets
<1>3. CASE m.username = <<>>
  <2>1. /\ m.portstr # <<>> /\ SecondOff(m) = PortOff(m) + 1 /\ SecondEnd(m) = PathOff(m)
        /\ Second(m) = m.portstr
    BY <1>3 DEF Second, SecondOff, SecondEnd
  <2>2. /\ Lies(m.portstr, b, PortOff(m) + 1) /\ b[PathOff(m) + 1] = "/"
        /\ \A i \in PortOff(m) + 2 .. PathOff(m) : b[i] \in Digit
    BY <2>1, HostSymbols, RestSymbols
  <2>3. SecondOff(m) + 1 = PortOff(m) + 2 /\ SecondOff(m) + 1 \in PortOff(m) + 2 .. PathOff(m)
    BY <1>2, <2>1
  <2>4. QED
    BY <1>1, <1>3, <2>1, <2>2, <2>3
<1>4. CASE m.username # <<>>
  <2>1. /\ m.password # <<>> /\ SecondOff(m) = UserOff(m) + Len(m.username) + 1
        /\ SecondEnd(m) = HostOff(m) - 1 /\ Second(m) = m.password
    BY <1>4 DEF Second, SecondOff, SecondEnd
  <2>2. /\ Lies(m.password, b, UserOff(m) + Len(m.username) + 1) /\ b[HostOff(m)] = "@"
        /\ b[UserOff(m) + Len(m.username) + 2] \in Ur!Unreserved \ HeaderName
        /\ \A i \in UserOff(m) + Len(m.username) + 3 .. HostOff(m) - 1 : b[i] \in Alnum \union {"%"}
    BY <1>4, <2>1, UserSymbols
  <2>3. /\ SecondOff(m) + 1 = UserOff(m) + Len(m.username) + 2
        /\ SecondOff(m) + 2 = UserOff(m) + Len(m.username) + 3
        /\ SecondEnd(m) + 1 = HostOff(m)
    <3>1. PICK x \in Nat, u \in Nat, h \in Nat :
            x = UserOff(m) /\ u = Len(m.username) /\ h = HostOff(m)
      BY <1>2
    <3>2. SecondOff(m) = x + u + 1 /\ SecondEnd(m) = h - 1
      BY <2>1, <3>1
    <3>3. SecondOff(m) + 1 = x + u + 2 /\ SecondOff(m) + 2 = x + u + 3 /\ SecondEnd(m) + 1 = h
      BY <3>2
    <3>4. QED
      BY <3>1, <3>3, Zenon
  <2>4. QED
    BY <1>1, <1>4, <2>1, <2>2, <2>3
<1>5. QED
  BY <1>3, <1>4

\* The password has been taken.
LEMMA PasswordTaken ==
  ASSUME UriAtWork, loc.prev = SecondOff(msg) + 1, it = SecondEnd(msg) + 1,
         msg.username # <<>>, msg.password # <<>>, Taken(out, msg, 2), out.queries = <<>>,
         state' = "HostnameStart", out' = [out EXCEPT !["password"] = <<loc.prev, it>>],
         loc' = loc, it' = it + 1, buf' = buf
  PROVE  UriGoesOn
<1>1. Readable(msg) /\ UriLaid(buf, msg) /\ out \in Locators /\ buf \in Seq(Symbols) /\ it \in Int
  BY UriHere
<1>2. /\ Second(msg) = msg.password /\ SecondEnd(msg) = HostOff(msg) - 1
      /\ SecondOff(msg) = UserOff(msg) + Len(msg.username) + 1
  BY DEF Second, SecondEnd, SecondOff
<1>3. /\ SecondEnd(msg) = SecondOff(msg) + Len(Second(msg)) /\ HostOff(msg) \in Nat
      /\ Len(Second(msg)) \in Nat /\ SecondOff(msg) \in Nat
  BY <1>1, <1>2, UriOrder, UriOffsets
<1>4. <<loc.prev, it>> = ViewAt(msg.password, UserOff(msg) + Len(msg.username) + 1)
  <2>1. it = SecondOff(msg) + Len(msg.password) + 1
    BY <1>2, <1>3
  <2>2. <<loc.prev, it>> = ViewAt(msg.password, SecondOff(msg))
    BY <2>1, ViewIs
  <2>3. QED
    BY <1>2, <2>2, Zenon
<1>5. Taken(out', msg, 3) /\ out'.queries = <<>>
  BY <1>1, <1>4 DEF Taken, Locators
<1>6. it' = HostOff(msg) + 1
  BY <1>1, <1>2, <1>3
<1>7. QED
  BY <1>5, <1>6 DEF UriGoesOn, UriWay, AuthorityWay, RestWay, QueriesWay, InQuery

\* In what is the port or a password.
LEMMA SecondStep ==
  ASSUME UriAtWork, state \in {"PortOrPasswordStart", "PortOrPassword", "Password"}
  PROVE  UriGoesOn
<1>1. /\ UriTypes /\ Readable(msg) /\ UriLaid(buf, msg) /\ Ur!Next
      /\ UriWay(buf, msg, it, state, out, loc)
      /\ it \in Int /\ 1 <= it /\ out \in Locators /\ loc \in LocatorLocals /\ buf \in Seq(Symbols)
      /\ Len(buf) \in Nat /\ loc.end = Len(buf) + 1 /\ loc.prev \in Int /\ state \notin Verdicts
  BY UriHere DEF InQuery, Verdicts
<1>2. Second(msg) # <<>> /\ out.queries = <<>>
  BY <1>1 DEF UriWay, AuthorityWay, InQuery, Second
<1>3. PICK a \in Nat, e \in Nat : a = SecondOff(msg) /\ e = SecondEnd(msg) /\ a < e /\ e < Len(buf)
  <2>1. /\ SecondEnd(msg) = SecondOff(msg) + Len(Second(msg)) /\ Len(Second(msg)) \in Nat \ {0}
        /\ SecondOff(msg) \in Nat /\ SecondEnd(msg) \in Nat /\ SecondEnd(msg) < Len(buf)
    BY <1>1, <1>2, UriOrder
  <2>2. QED
    BY <2>1
<1>4. /\ buf[a + 1] \in Ur!Unreserved \ Ur!HeaderName
      /\ Lies(Second(msg), buf, a)
      /\ msg.username = <<>> => /\ \A i \in a + 1 .. e : buf[i] \in Digit
                                /\ buf[e + 1] = "/"
      /\ msg.username # <<>> => /\ \A i \in a + 2 .. e : buf[i] \in Alnum \union {"%"}
                                /\ buf[e + 1] = "@"
  BY <1>1, <1>2, <1>3, SecondSymbols
<1>5. Ur!Digit = Digit /\ Ur!Alnum = Alnum
  BY DEF Ur!Digit, Digit, Ur!Alnum, Alnum, Ur!Alpha, Alpha, Ur!Method, Method
<1>6. CASE state = "PortOrPasswordStart"
  <2>1. TakenFirst(out, msg) /\ it = a + 1
    BY <1>1, <1>3, <1>6 DEF UriWay, AuthorityWay
  <2>2. UriRow("PortOrPasswordStart", Ur!Unreserved \ Ur!HeaderName, "PortOrPassword", "mark")
    BY Zenon DEF UriRow, Ur!Rules
  <2>3. it < loc.end
    BY <1>1, <1>3, <2>1
  <2>4. /\ state' = "PortOrPassword" /\ out' = out /\ loc' = [loc EXCEPT !.prev = it]
        /\ it' = it + 1 /\ buf' = buf
    BY <1>1, <1>4, <1>6, <2>1, <2>2, <2>3, UriReads, UriDoes
  <2>5. loc'.prev = it
    BY <1>1, <2>4 DEF LocatorLocals
  <2>6. QED
    BY <1>2, <1>3, <2>1, <2>4, <2>5
    DEF UriGoesOn, UriWay, AuthorityWay, RestWay, QueriesWay, InQuery
<1>7. CASE state = "PortOrPassword" /\ msg.username # <<>>
  <2>1. /\ msg.password # <<>> /\ Taken(out, msg, 2) /\ loc.prev = a + 1 /\ it \in a + 2 .. e + 1
    BY <1>1, <1>2, <1>3, <1>7 DEF UriWay, AuthorityWay, Second, TakenFirst
  <2>2. it < loc.end
    BY <1>1, <1>3, <2>1
  <2>3. CASE it <= e /\ buf[it] \in Digit
    <3>1. UriRow("PortOrPassword", Ur!Digit, "PortOrPassword", "none")
      BY Zenon DEF UriRow, Ur!Rules
    <3>2. buf[it] # "/"
      BY <2>3 DEF Digit
    <3>3. state' = "PortOrPassword" /\ out' = out /\ loc' = loc /\ it' = it + 1 /\ buf' = buf
      BY <1>1, <1>5, <1>7, <2>2, <2>3, <3>1, <3>2, UriReads, UriDoes
    <3>4. TakenFirst(out', msg)
      BY <1>7, <2>1, <3>3 DEF TakenFirst
    <3>5. QED
      BY <1>2, <1>3, <2>1, <2>3, <3>3, <3>4
      DEF UriGoesOn, UriWay, AuthorityWay, RestWay, QueriesWay, InQuery
  <2>4. CASE it <= e /\ buf[it] \notin Digit
    <3>1. UriRow("PortOrPassword", (Ur!Alnum \ Ur!Digit) \union {"%"}, "Password", "none")
      BY Zenon DEF UriRow, Ur!Rules
    <3>2. buf[it] \in (Ur!Alnum \ Ur!Digit) \union {"%"}
      BY <1>4, <1>5, <1>7, <2>1, <2>4
    <3>3. buf[it] # "/"
      BY <1>5, <3>2 DEF Alnum, Alpha, Method, Digit
    <3>4. state' = "Password" /\ out' = out /\ loc' = loc /\ it' = it + 1 /\ buf' = buf
      BY <1>1, <1>7, <2>2, <3>1, <3>2, <3>3, UriReads, UriDoes
    <3>5. QED
      BY <1>2, <1>3, <1>7, <2>1, <2>4, <3>4
      DEF UriGoesOn, UriWay, AuthorityWay, RestWay, QueriesWay, InQuery
  <2>5. CASE it = e + 1
    <3>1. UriRow("PortOrPassword", {"@"}, "HostnameStart", "password")
      BY Zenon DEF UriRow, Ur!Rules
    <3>2. buf[it] = "@"
      BY <1>4, <1>7, <2>5
    <3>3. /\ state' = "HostnameStart" /\ out' = [out EXCEPT !["password"] = <<loc.prev, it>>]
          /\ loc' = loc /\ it' = it + 1 /\ buf' = buf
      BY <1>1, <1>7, <2>2, <3>1, <3>2, UriReads, UriDoes
    <3>4. QED
      BY <1>2, <1>3, <1>7, <2>1, <2>5, <3>3, PasswordTaken
  <2>6. QED
    BY <2>1, <2>3, <2>4, <2>5
<1>8. CASE state = "Password"
  <2>1. /\ msg.username # <<>> /\ msg.password # <<>> /\ Taken(out, msg, 2) /\ loc.prev = a + 1
        /\ it \in a + 2 .. e + 1
    BY <1>1, <1>2, <1>3, <1>8 DEF UriWay, AuthorityWay
  <2>2. it < loc.end
    BY <1>1, <1>3, <2>1
  <2>3. CASE it <= e
    <3>1. UriRow("Password", Ur!Alnum \union {"%"}, "Password", "none")
      BY Zenon DEF UriRow, Ur!Rules
    <3>2. buf[it] \in Ur!Alnum \union {"%"}
      BY <1>4, <1>5, <2>1, <2>3
    <3>3. state' = "Password" /\ out' = out /\ loc' = loc /\ it' = it + 1 /\ buf' = buf
      BY <1>1, <1>8, <2>2, <3>1, <3>2, UriReads, UriDoes
    <3>4. QED
      BY <1>2, <1>3, <2>1, <2>3, <3>3
      DEF UriGoesOn, UriWay, AuthorityWay, RestWay, QueriesWay, InQuery
  <2>4. CASE it = e + 1
    <3>1. UriRow("Password", {"@"}, "HostnameStart", "password")
      BY Zenon DEF UriRow, Ur!Rules
    <3>2. buf[it] = "@"
      BY <1>4, <2>1, <2>4
    <3>3. /\ state' = "HostnameStart" /\ out' = [out EXCEPT !["password"] = <<loc.prev, it>>]
          /\ loc' = loc /\ it' = it + 1 /\ buf' = buf
      BY <1>1, <1>8, <2>2, <3>1, <3>2, UriReads, UriDoes
    <3>4. QED
      BY <1>2, <1>3, <2>1, <2>4, <3>3, PasswordTaken
  <2>5. QED
    BY <2>1, <2>3, <2>4
<1>9. CASE state = "PortOrPassword" /\ msg.username = <<>>
  <2>1. /\ HostAsUser(out, msg) /\ loc.prev = a + 1 /\ it \in a + 2 .. e + 1
        /\ msg.portstr # <<>> /\ Second(msg) = msg.portstr /\ a = PortOff(msg) + 1
        /\ e = PathOff(msg)
    BY <1>1, <1>2, <1>3, <1>9 DEF UriWay, AuthorityWay, Second, TakenFirst, SecondOff, SecondEnd
  <2>2. it < loc.end
    BY <1>1, <1>3, <2>1
  <2>3. CASE it <= e
    <3>1. UriRow("PortOrPassword", Ur!Digit, "PortOrPassword", "none")
      BY Zenon DEF UriRow, Ur!Rules
    <3>2. buf[it] \in Digit
      BY <1>4, <1>9, <2>1, <2>3
    <3>3. buf[it] # "/"
      BY <3>2 DEF Digit
    <3>4. state' = "PortOrPassword" /\ out' = out /\ loc' = loc /\ it' = it + 1 /\ buf' = buf
      BY <1>1, <1>5, <1>9, <2>2, <3>1, <3>2, <3>3, UriReads, UriDoes
    <3>5. TakenFirst(out', msg)
      BY <1>9, <2>1, <3>4 DEF TakenFirst
    <3>6. QED
      BY <1>2, <1>3, <2>1, <2>3, <3>4, <3>5
      DEF UriGoesOn, UriWay, AuthorityWay, RestWay, QueriesWay, InQuery
  <2>4. CASE it = e + 1
    <3>1. buf[it] = "/"
      BY <1>4, <1>9, <2>4
    <3>2. PICK v : v = <<loc.prev, it>>
      OBVIOUS
    <3>3. Len(Second(msg)) \in Nat /\ e = a + Len(Second(msg))
      BY <1>1, <1>2, <1>3, UriOrder
    <3>4. v = <<a + 1, a + Len(Second(msg)) + 1>> /\ v = ViewAt(msg.portstr, PortOff(msg) + 1)
      <4>1. v = <<a + 1, a + Len(Second(msg)) + 1>>
        BY <2>1, <2>4, <3>2, <3>3
      <4>2. QED
        BY <2>1, <4>1 DEF ViewAt
    <3>5. Text(buf, v) = msg.portstr
      <4>1. msg.portstr \in Seq(Symbols)
        BY <1>1, UriTexts
      <4>2. QED
        BY <1>1, <1>4, <2>1, <3>4, <4>1, LiesText, SMTT(20)
    <3>6. Ur!IsPort
      <4>1. Ur!View = v /\ Ur!Text(buf, v) = msg.portstr
        BY <3>2, <3>5, SameUriText DEF Ur!View
      <4>2. msg.portstr \in Seq(Digit)
        BY <1>1 DEF Readable
      <4>3. Ur!ToSet(msg.portstr) \subseteq Digit
        BY <4>2, LenProperties, ElementOfSeq DEF Ur!ToSet
      <4>4. QED
        BY <1>5, <3>1, <4>1, <4>3 DEF Ur!IsPort, Ur!Cur
    <3>7. ~Ur!Follow
      <4>1. \A r \in Ur!Rules : r.from = "PortOrPassword" => "/" \notin r.on
        BY DEF Ur!Rules, Ur!Rule, Ur!Alnum, Ur!Alpha, Ur!Method, Ur!Digit
      <4>2. QED
        BY <1>9, <3>1, <4>1 DEF Ur!Follow, Ur!Cur
    <3>8. ~Ur!Reject /\ ~Ur!PortEnd /\ ~Ur!Fragment /\ ~Ur!EndOfText /\ ~Ur!EndOfQueries
      <4>1. ~Ur!Reject
        BY <1>9, <3>6 DEF Ur!Reject, Ur!Accepts
      <4>2. ~Ur!PortEnd /\ ~Ur!Fragment
        BY <1>9 DEF Ur!PortEnd, Ur!Fragment
      <4>3. ~(it >= loc.end)
        BY <1>1, <2>2
      <4>4. QED
        BY <4>1, <4>2, <4>3 DEF Ur!EndOfText, Ur!EndOfQueries
    <3>9. Ur!PortOrPassword
      BY <1>1, <3>7, <3>8 DEF Ur!Next, Ur!Read
    <3>10. PICK port : /\ out' = [out EXCEPT !.hostname = out.username, !.username = out.hostname,
                                             !.portstr = v, !.port = port]
                       /\ loc' = [loc EXCEPT !.prev = it] /\ state' = "Path" /\ it' = it + 1
                       /\ buf' = buf
      BY <3>2, <3>9 DEF Ur!PortOrPassword, Ur!View
    <3>11. msg.password = <<>>
      BY <1>1, <1>9 DEF Readable
    <3>12. Taken(out', msg, 5) /\ out'.queries = <<>> /\ loc'.prev = it
      BY <1>1, <1>2, <1>9, <2>1, <3>4, <3>10, <3>11
      DEF Taken, HostAsUser, Locators, LocatorLocals, ViewAt
    <3>13. e < QueryOff(msg) /\ QueryOff(msg) \in Nat
      BY <1>1, <2>1, UriOrder, UriOffsets
    <3>14. QED
      BY <1>3, <2>1, <2>4, <3>10, <3>12, <3>13
      DEF UriGoesOn, UriWay, AuthorityWay, RestWay, QueriesWay, InQuery
  <2>5. QED
    BY <2>1, <2>3, <2>4
<1>10. QED
  BY <1>6, <1>7, <1>8, <1>9

\* In the host behind a user.
LEMMA HostStep ==
  ASSUME UriAtWork, state \in {"HostnameStart", "Hostname"}
  PROVE  UriGoesOn
<1>1. /\ UriTypes /\ Readable(msg) /\ UriLaid(buf, msg) /\ Ur!Next
      /\ UriWay(buf, msg, it, state, out, loc)
      /\ it \in Int /\ 1 <= it /\ out \in Locators /\ loc \in LocatorLocals /\ buf \in Seq(Symbols)
      /\ Len(buf) \in Nat /\ loc.end = Len(buf) + 1 /\ loc.prev \in Int /\ state \notin Verdicts
  BY UriHere DEF InQuery, Verdicts
<1>2. msg.username # <<>> /\ Taken(out, msg, 3) /\ out.queries = <<>>
  BY <1>1 DEF UriWay, AuthorityWay, InQuery
<1>3. PICK h \in Nat, p \in Nat : h = HostOff(msg) /\ p = PortOff(msg) /\ h < p /\ p < Len(buf)
  <2>1. PICK h \in Nat, p \in Nat, x \in Nat, y \in Nat, z \in Nat :
          /\ h = HostOff(msg) /\ p = PortOff(msg) /\ x = PathOff(msg) /\ y = QueryOff(msg)
          /\ z = FragmentOff(msg)
    BY <1>1, UriOffsets
  <2>2. h < p /\ p <= x /\ x < y /\ y <= z /\ z <= Len(buf)
    BY <1>1, <2>1, UriOrder
  <2>3. QED
    BY <1>1, <2>1, <2>2
<1>4. /\ buf[h + 1] \in Ur!Name /\ \A i \in h + 2 .. p : buf[i] \in Ur!Name
      /\ msg.portstr # <<>> => buf[p + 1] = ":"
      /\ msg.portstr = <<>> => PathOff(msg) = p
      /\ buf[PathOff(msg) + 1] = "/" /\ PathOff(msg) < QueryOff(msg) /\ QueryOff(msg) \in Nat
  <2>1. /\ buf[h + 1] \in Ur!Name /\ \A i \in h + 2 .. p : buf[i] \in Ur!Name
        /\ msg.portstr # <<>> => buf[p + 1] = ":"
    BY <1>1, <1>3, HostSymbols
  <2>2. buf[PathOff(msg) + 1] = "/" /\ PathOff(msg) < QueryOff(msg) /\ QueryOff(msg) \in Nat
    BY <1>1, RestSymbols, UriOrder, UriOffsets
  <2>3. msg.portstr = <<>> => PathOff(msg) = p
    BY <1>1, <1>3, UriOffsets
  <2>4. QED
    BY <2>1, <2>2, <2>3
<1>5. CASE state = "HostnameStart"
  <2>1. it = h + 1
    BY <1>1, <1>3, <1>5 DEF UriWay, AuthorityWay
  <2>2. UriRow("HostnameStart", Ur!Name, "Hostname", "mark")
    BY Zenon DEF UriRow, Ur!Rules
  <2>3. it < loc.end
    BY <1>1, <1>3, <2>1
  <2>4. /\ state' = "Hostname" /\ out' = out /\ loc' = [loc EXCEPT !.prev = it]
        /\ it' = it + 1 /\ buf' = buf
    BY <1>1, <1>4, <1>5, <2>1, <2>2, <2>3, UriReads, UriDoes
  <2>5. loc'.prev = it
    BY <1>1, <2>4 DEF LocatorLocals
  <2>6. QED
    BY <1>2, <1>3, <2>1, <2>4, <2>5
    DEF UriGoesOn, UriWay, AuthorityWay, RestWay, QueriesWay, InQuery
<1>6. CASE state = "Hostname"
  <2>1. loc.prev = h + 1 /\ it \in h + 2 .. p + 1
    BY <1>1, <1>3, <1>6 DEF UriWay, AuthorityWay
  <2>2. it < loc.end
    BY <1>1, <1>3, <2>1
  <2>3. CASE it <= p
    <3>1. UriRow("Hostname", Ur!Name, "Hostname", "none")
      BY Zenon DEF UriRow, Ur!Rules
    <3>2. buf[it] \in Ur!Name
      BY <1>4, <2>1, <2>3
    <3>3. state' = "Hostname" /\ out' = out /\ loc' = loc /\ it' = it + 1 /\ buf' = buf
      BY <1>1, <1>6, <2>2, <3>1, <3>2, UriReads, UriDoes
    <3>4. QED
      BY <1>2, <1>3, <2>1, <2>3, <3>3
      DEF UriGoesOn, UriWay, AuthorityWay, RestWay, QueriesWay, InQuery
  <2>4. CASE it = p + 1
    <3>1. <<loc.prev, it>> = ViewAt(msg.hostname, HostOff(msg))
      <4>1. msg.hostname # <<>> /\ p = h + Len(msg.hostname)
        BY <1>1, <1>3, HostSymbols, UriOffsets
      <4>2. loc.prev = HostOff(msg) + 1 /\ it = HostOff(msg) + Len(msg.hostname) + 1
        BY <1>3, <2>1, <2>4, <4>1
      <4>3. QED
        BY <4>1, <4>2, ViewIs
    <3>2. CASE msg.portstr = <<>>
      <4>1. buf[it] = "/" /\ it = PathOff(msg) + 1
        BY <1>4, <2>4, <3>2
      <4>2. UriRow("Hostname", {"/"}, "Path", "hostname")
        BY Zenon DEF UriRow, Ur!Rules
      <4>3. /\ state' = "Path" /\ out' = [out EXCEPT !.hostname = <<loc.prev, it>>]
            /\ loc' = [loc EXCEPT !.prev = it] /\ it' = it + 1 /\ buf' = buf
        BY <1>1, <1>6, <2>2, <4>1, <4>2, UriReads, UriDoes
      <4>4. Taken(out', msg, 5) /\ out'.queries = <<>> /\ loc'.prev = it
        BY <1>1, <1>2, <3>1, <3>2, <4>3 DEF Taken, Locators, LocatorLocals, ViewAt
      <4>5. QED
        BY <1>3, <1>4, <2>4, <3>2, <4>1, <4>3, <4>4
        DEF UriGoesOn, UriWay, AuthorityWay, RestWay, QueriesWay, InQuery
    <3>3. CASE msg.portstr # <<>>
      <4>1. buf[it] = ":"
        BY <1>4, <2>4, <3>3
      <4>2. UriRow("Hostname", {":"}, "PortStart", "hostname")
        BY Zenon DEF UriRow, Ur!Rules
      <4>3. /\ state' = "PortStart" /\ out' = [out EXCEPT !.hostname = <<loc.prev, it>>]
            /\ loc' = loc /\ it' = it + 1 /\ buf' = buf
        BY <1>1, <1>6, <2>2, <4>1, <4>2, UriReads, UriDoes
      <4>4. Taken(out', msg, 4) /\ out'.queries = <<>>
        BY <1>1, <1>2, <3>1, <4>3 DEF Taken, Locators
      <4>5. QED
        BY <1>3, <2>4, <3>3, <4>3, <4>4
        DEF UriGoesOn, UriWay, AuthorityWay, RestWay, QueriesWay, InQuery
    <3>4. QED
      BY <3>2, <3>3
  <2>5. QED
    BY <2>1, <2>3, <2>4
<1>7. QED
  BY <1>5, <1>6

\* In the port behind a user and a host.
LEMMA PortStep ==
  ASSUME UriAtWork, state \in {"PortStart", "Port"}
  PROVE  UriGoesOn
<1>1. /\ UriTypes /\ Readable(msg) /\ UriLaid(buf, msg) /\ Ur!Next
      /\ UriWay(buf, msg, it, state, out, loc)
      /\ it \in Int /\ 1 <= it /\ out \in Locators /\ loc \in LocatorLocals /\ buf \in Seq(Symbols)
      /\ Len(buf) \in Nat /\ loc.end = Len(buf) + 1 /\ loc.prev \in Int /\ state \notin Verdicts
  BY UriHere DEF InQuery, Verdicts
<1>2. msg.portstr # <<>> /\ Taken(out, msg, 4) /\ out.queries = <<>>
  BY <1>1 DEF UriWay, AuthorityWay, InQuery
<1>3. PICK p \in Nat, x \in Nat, w \in Nat, q \in Nat :
        /\ p = PortOff(msg) /\ x = PathOff(msg) /\ w = Len(msg.portstr) /\ q = QueryOff(msg)
        /\ x = p + w + 1 /\ w > 0 /\ x < q /\ q <= Len(buf)
  <2>1. PICK p \in Nat, x \in Nat, y \in Nat, z \in Nat, w \in Nat :
          /\ p = PortOff(msg) /\ x = PathOff(msg) /\ y = QueryOff(msg)
          /\ z = FragmentOff(msg) /\ w = Len(msg.portstr)
    BY <1>1, UriOffsets
  <2>2. x < y /\ y <= z /\ z <= Len(buf)
    BY <1>1, <2>1, UriOrder
  <2>3. x = p + (w + 1) /\ w > 0
    <3>1. PathOff(msg) = PortOff(msg) + (Len(msg.portstr) + 1) /\ Len(msg.portstr) > 0
      BY <1>1, <1>2, UriOffsets, HostSymbols
    <3>2. QED
      BY <2>1, <3>1
  <2>4. x = p + w + 1 /\ y <= Len(buf)
    BY <1>1, <2>2, <2>3
  <2>5. QED
    BY <2>1, <2>2, <2>3, <2>4
<1>4. /\ \A i \in p + 2 .. x : buf[i] \in Digit
      /\ buf[x + 1] = "/"
  BY <1>1, <1>2, <1>3, HostSymbols, RestSymbols
<1>5. Ur!Digit = Digit
  BY DEF Ur!Digit, Digit
<1>6. CASE state = "PortStart"
  <2>1. it = p + 2
    BY <1>1, <1>3, <1>6 DEF UriWay, AuthorityWay
  <2>2. UriRow("PortStart", Ur!Digit, "Port", "mark")
    BY Zenon DEF UriRow, Ur!Rules
  <2>3. it < loc.end /\ buf[it] \in Ur!Digit
    <3>1. p + 2 \in p + 2 .. x /\ p + 2 < Len(buf) + 1
      <4>1. PICK n \in Nat : n = Len(buf)
        BY <1>1, LenProperties
      <4>2. x <= n
        BY <1>3, <4>1
      <4>3. QED
        BY <1>3, <4>1, <4>2
    <3>2. buf[p + 2] \in Digit
      BY <1>4, <3>1
    <3>3. QED
      BY <1>1, <1>5, <2>1, <3>1, <3>2
  <2>4. /\ state' = "Port" /\ out' = out /\ loc' = [loc EXCEPT !.prev = it]
        /\ it' = it + 1 /\ buf' = buf
    BY <1>1, <1>6, <2>1, <2>2, <2>3, UriReads, UriDoes
  <2>5. loc'.prev = it
    BY <1>1, <2>4 DEF LocatorLocals
  <2>6. QED
    BY <1>2, <1>3, <2>1, <2>4, <2>5, SMTT(20)
    DEF UriGoesOn, UriWay, AuthorityWay, RestWay, QueriesWay, InQuery
<1>7. CASE state = "Port"
  <2>1. loc.prev = p + 2 /\ it \in p + 3 .. x + 1
    BY <1>1, <1>3, <1>7 DEF UriWay, AuthorityWay
  <2>2. it < loc.end
    BY <1>1, <1>3, <2>1, SMTT(20)
  <2>3. CASE it <= x
    <3>1. UriRow("Port", Ur!Digit, "Port", "none")
      BY Zenon DEF UriRow, Ur!Rules
    <3>2. buf[it] \in Ur!Digit
      BY <1>4, <1>5, <2>1, <2>3
    <3>3. buf[it] # "/"
      BY <3>2 DEF Ur!Digit
    <3>4. state' = "Port" /\ out' = out /\ loc' = loc /\ it' = it + 1 /\ buf' = buf
      BY <1>1, <1>7, <2>2, <3>1, <3>2, <3>3, UriReads, UriDoes
    <3>5. loc'.prev = PortOff(msg) + 2 /\ it' \in PortOff(msg) + 3 .. PathOff(msg) + 1
      <4>1. loc'.prev = p + 2 /\ it' = it + 1
        BY <2>1, <3>4
      <4>2. it' \in p + 3 .. x + 1
        BY <2>1, <2>3, <4>1
      <4>3. QED
        BY <1>3, <4>1, <4>2
    <3>6. QED
      BY <1>2, <3>4, <3>5
      DEF UriGoesOn, UriWay, AuthorityWay, RestWay, QueriesWay, InQuery
  <2>4. CASE it = x + 1
    <3>1. PICK v : v = <<loc.prev, it>> /\ v = ViewAt(msg.portstr, PortOff(msg) + 1)
      <4>1. loc.prev = (p + 1) + 1 /\ it = (p + 1) + w + 1
        <5>1. x = p + w + 1
          BY <1>3
        <5>2. loc.prev = p + 2 /\ it = x + 1
          BY <2>1, <2>4
        <5>3. QED
          BY <5>1, <5>2
      <4>2. <<loc.prev, it>> = ViewAt(msg.portstr, p + 1)
        BY <1>2, <1>3, <4>1, ViewIs, Zenon
      <4>3. QED
        BY <1>3, <4>2
    <3>2. buf[it] = "/"
      BY <1>4, <2>4
    <3>3. ~Ur!Follow
      <4>1. \A r \in Ur!Rules : r.from = "Port" => "/" \notin r.on
        BY DEF Ur!Rules, Ur!Rule, Ur!Digit
      <4>2. QED
        BY <1>7, <3>2, <4>1 DEF Ur!Follow, Ur!Cur
    <3>4. ~Ur!Reject /\ ~Ur!PortOrPassword /\ ~Ur!Fragment /\ ~Ur!EndOfText /\ ~Ur!EndOfQueries
      <4>1. ~Ur!Reject
        BY <1>7, <3>2 DEF Ur!Reject, Ur!Accepts, Ur!Cur
      <4>2. ~Ur!PortOrPassword /\ ~Ur!Fragment
        BY <1>7 DEF Ur!PortOrPassword, Ur!Fragment
      <4>3. ~(it >= loc.end)
        BY <1>1, <2>2
      <4>4. QED
        BY <4>1, <4>2, <4>3 DEF Ur!EndOfText, Ur!EndOfQueries
    <3>5. Ur!PortEnd
      BY <1>1, <3>3, <3>4 DEF Ur!Next, Ur!Read
    <3>6. PICK port : /\ out' = [out EXCEPT !.portstr = v, !.port = port]
                      /\ loc' = [loc EXCEPT !.prev = it] /\ state' = "Path" /\ it' = it + 1
                      /\ buf' = buf
      BY <3>1, <3>5 DEF Ur!PortEnd, Ur!View
    <3>7. Taken(out', msg, 5) /\ out'.queries = <<>> /\ loc'.prev = it
      BY <1>1, <1>2, <3>1, <3>6 DEF Taken, Locators, LocatorLocals
    <3>8. QED
      BY <1>3, <2>4, <3>6, <3>7
      DEF UriGoesOn, UriWay, AuthorityWay, RestWay, QueriesWay, InQuery
  <2>5. QED
    BY <2>1, <2>3, <2>4
<1>8. QED
  BY <1>6, <1>7

\* There is a query string if there are queries.
LEMMA SomeQueries ==
  ASSUME NEW m, Readable(m), NEW b \in Seq(Symbols), UriLaid(b, m)
  PROVE  /\ Len(m.queries) \in Nat
         /\ QueryText(m) = <<>> <=> Len(m.queries) = 0
<1>1. PICK ss : ss = QueryPieces(m)
  OBVIOUS
<1>2. /\ ss \in Seq(Seq(Symbols)) /\ Len(ss) = Len(m.queries) /\ QueryText(m) = FlattenSeq(ss)
      /\ QueryText(m) \in Seq(Symbols)
  BY <1>1, QueryIsText
<1>3. Len(m.queries) \in Nat
  BY <1>2, LenProperties
<1>4. CASE Len(m.queries) = 0
  <2>1. Len(QueryText(m)) = 0
    <3>1. Len(FlattenSeq(ss)) = Offset(ss, Len(ss)) /\ Offset(ss, 0) = 0
      BY <1>2, Laid
    <3>2. Len(ss) = 0
      BY <1>2, <1>4
    <3>3. QED
      BY <1>2, <3>1, <3>2
  <2>2. QED
    BY <1>2, <1>3, <1>4, <2>1, EmptySeq
<1>5. CASE Len(m.queries) # 0
  <2>1. 1 \in 1 .. Len(m.queries)
    BY <1>3, <1>5
  <2>2. QED
    BY <1>3, <1>5, <2>1, QueryLies
<1>6. QED
  BY <1>4, <1>5

\* At the end of the text the parser ends, or turns to the queries.
LEMMA UriAtEnd ==
  ASSUME UriAtWork, state \notin InQuery \union Verdicts, it = loc.end
  PROVE  /\ buf' = buf
         /\ \/ /\ out.path[1] = out.path[2]
               /\ out' = [out EXCEPT !.path = <<loc.prev, Len(buf) + 1>>]
               /\ state' = "Completed"
            \/ /\ out.path[1] # out.path[2] /\ out.querystr[1] = out.querystr[2]
               /\ out' = [out EXCEPT !.querystr = <<loc.prev, Len(buf) + 1>>]
               /\ Ur!StartQueries(<<loc.prev, Len(buf) + 1>>)
            \/ out.path[1] # out.path[2] /\ out.querystr[1] # out.querystr[2]
<1>1. Ur!Next /\ it \in Int /\ loc.end \in Int
  BY UriHere
<1>2. ~(it < loc.end) /\ ~Ur!InQueries
  BY <1>1 DEF Ur!InQueries, InQuery
<1>3. ~Ur!Read /\ ~Ur!Reject /\ ~Ur!EndOfQueries
  BY <1>2 DEF Ur!Read, Ur!Follow, Ur!PortOrPassword, Ur!PortEnd, Ur!Fragment, Ur!Reject,
     Ur!EndOfQueries, Ur!Reading
<1>4. Ur!EndOfText
  BY <1>1, <1>3 DEF Ur!Next
<1>5. QED
  BY <1>4 DEF Ur!EndOfText, Ur!IsEmpty

\* The parser turns to the queries, if there are any.
LEMMA QueriesBegin ==
  ASSUME UriAtWork, NEW v, Ur!StartQueries(v), v = ViewAt(QueryText(msg), QueryOff(msg) + 1),
         Taken(out', msg, 8), out'.queries = <<>>, buf' = buf
  PROVE  UriGoesOn
<1>1. Readable(msg) /\ UriLaid(buf, msg) /\ buf \in Seq(Symbols)
  BY UriHere
<1>2. /\ Len(msg.queries) \in Nat /\ QueryOff(msg) \in Nat /\ FragmentOff(msg) \in Nat
      /\ Len(QueryText(msg)) \in Nat
  BY <1>1, SomeQueries, UriOffsets
<1>3. QueriesRead(buf, out', msg, 0)
  BY <1>2, EmptySeq DEF QueriesRead
<1>4. CASE QueryText(msg) = <<>>
  <2>1. v[1] = v[2]
    BY <1>4 DEF ViewAt, Empty
  <2>2. state' = "Completed"
    BY <2>1 DEF Ur!StartQueries, Ur!IsEmpty
  <2>3. Len(msg.queries) = 0
    BY <1>1, <1>4, SomeQueries
  <2>4. QED
    BY <1>3, <2>2, <2>3 DEF UriGoesOn, UriWay, AuthorityWay, RestWay, QueriesWay, InQuery
<1>5. CASE QueryText(msg) # <<>>
  <2>1. PICK q \in Nat, x \in Nat : q = QueryOff(msg) /\ x = Len(QueryText(msg)) /\ x > 0
    BY <1>1, <1>2, <1>5, RestSymbols
  <2>2. FragmentOff(msg) = q + x + 1
    <3>1. FragmentOff(msg) = QueryOff(msg) + (Len(QueryText(msg)) + 1)
      BY <1>1, <1>5, UriOffsets
    <3>2. QED
      BY <2>1, <3>1
  <2>3. v[1] = q + 2 /\ v[2] = q + x + 2
    <3>1. v = <<(q + 1) + 1, (q + 1) + x + 1>>
      BY <1>5, <2>1 DEF ViewAt
    <3>2. QED
      BY <3>1
  <2>4. Len(msg.queries) # 0 /\ 1 \in 1 .. Len(msg.queries)
    BY <1>1, <1>2, <1>5, SomeQueries
  <2>5. PICK n \in Nat \ {0} :
          n = Len(msg.queries[1].name) /\ ValueOff(msg, 1) = NameOff(msg, 1) + n + 1
    BY <1>1, <2>4, QueryLies, SMTT(20)
  <2>6. NameOff(msg, 1) = q + 1 /\ buf[q + 2] \in Ur!Name
    <3>1. /\ NameOff(msg, 1) = q + 1
          /\ \A i \in NameOff(msg, 1) + 1 .. NameOff(msg, 1) + Len(msg.queries[1].name) :
               buf[i] \in Ur!Name
      BY <1>1, <2>1, <2>4, QueryLies
    <3>2. q + 2 \in NameOff(msg, 1) + 1 .. NameOff(msg, 1) + Len(msg.queries[1].name)
      BY <2>1, <2>5, <3>1, SMTT(20)
    <3>3. QED
      BY <3>1, <3>2
  <2>7. v[1] # v[2]
    BY <2>1, <2>3
  <2>8. /\ state' = "QueryName" /\ it' = q + 2
        /\ loc' = [prev |-> q + 2, name |-> Empty, end |-> q + x + 2]
    BY <2>3, <2>6, <2>7, SameUriText DEF Ur!StartQueries, Ur!IsEmpty
  <2>9. loc'.prev = NameOff(msg, 1) + 1 /\ loc'.end = FragmentOff(msg) + 1
    BY <2>1, <2>2, <2>6, <2>8
  <2>10. it' \in NameOff(msg, 1) + 1 .. ValueOff(msg, 1)
    BY <2>1, <2>5, <2>6, <2>8, SMTT(20)
  <2>11. QueriesRead(buf, out', msg, 1 - 1)
    BY <1>3
  <2>12. QED
    BY <2>4, <2>8, <2>9, <2>10, <2>11
    DEF UriGoesOn, UriWay, AuthorityWay, RestWay, QueriesWay, InQuery
<1>6. QED
  BY <1>4, <1>5

\* In the path.
LEMMA PathStep ==
  ASSUME UriAtWork, state = "Path"
  PROVE  UriGoesOn
<1>1. /\ UriTypes /\ Readable(msg) /\ UriLaid(buf, msg) /\ Ur!Next
      /\ UriWay(buf, msg, it, state, out, loc)
      /\ it \in Int /\ 1 <= it /\ out \in Locators /\ loc \in LocatorLocals /\ buf \in Seq(Symbols)
      /\ Len(buf) \in Nat /\ loc.end = Len(buf) + 1 /\ loc.prev \in Int /\ state \notin Verdicts
  BY UriHere DEF InQuery, Verdicts
<1>2. PICK a \in Nat, q \in Nat, f \in Nat, n \in Nat :
        /\ a = PathOff(msg) /\ q = QueryOff(msg) /\ f = FragmentOff(msg) /\ n = Len(msg.path)
        /\ q = a + n /\ a < q /\ q <= f /\ f <= Len(buf) /\ n > 0
  <2>1. PICK a \in Nat, q \in Nat, f \in Nat, n \in Nat :
          /\ a = PathOff(msg) /\ q = QueryOff(msg) /\ f = FragmentOff(msg) /\ n = Len(msg.path)
    BY <1>1, UriOffsets
  <2>2. q = a + n
    BY <1>1, <2>1, UriOffsets
  <2>3. a < q /\ q <= f /\ f <= Len(buf)
    BY <1>1, <2>1, UriOrder
  <2>4. n > 0
    BY <2>2, <2>3
  <2>5. QED
    BY <2>1, <2>2, <2>3, <2>4
<1>3. Taken(out, msg, 5) /\ loc.prev = a + 1 /\ it \in a + 2 .. q + 1 /\ out.queries = <<>>
  BY <1>1, <1>2 DEF UriWay, RestWay, InQuery
<1>4. /\ \A i \in a + 2 .. q : buf[i] \in Symbols \ {"#", "?"}
      /\ QueryText(msg) # <<>> => buf[q + 1] = "?"
      /\ msg.fragment # <<>> => buf[f + 1] = "#"
      /\ msg.path # <<>>
  <2>1. /\ Len(msg.path) > 0
        /\ \A i \in PathOff(msg) + 2 .. QueryOff(msg) : buf[i] \in Symbols \ {"#", "?"}
        /\ QueryText(msg) # <<>> => buf[QueryOff(msg) + 1] = "?"
        /\ msg.fragment # <<>> => buf[FragmentOff(msg) + 1] = "#"
    BY <1>1, RestSymbols
  <2>2. msg.path # <<>>
    BY <1>2
  <2>3. QED
    BY <1>2, <2>1, <2>2
<1>5. CASE it <= q
  <2>1. it < loc.end
    BY <1>1, <1>2, <1>5
  <2>2. UriRow("Path", Symbols \ {"#", "?"}, "Path", "none")
    <3>1. UriRow("Path", Ur!Symbols \ {"#", "?"}, "Path", "none")
      BY Zenon DEF UriRow, Ur!Rules
    <3>2. Ur!Symbols = Symbols
      BY DEF Ur!Symbols, Ur!Control, Ur!Alnum, Ur!Alpha, Ur!Method, Ur!Digit, Ur!HeaderName,
         Ur!Word, Ur!Mark, Ur!Signed, Symbols, Control, Alnum, Alpha, Method, Digit, HeaderName,
         Word, Mark, Signed
    <3>3. QED
      BY <3>1, <3>2
  <2>3. buf[it] \in Symbols \ {"#", "?"}
    BY <1>3, <1>4, <1>5
  <2>4. state' = "Path" /\ out' = out /\ loc' = loc /\ it' = it + 1 /\ buf' = buf
    BY <1>1, <2>1, <2>2, <2>3, UriReads, UriDoes
  <2>5. QED
    BY <1>2, <1>3, <1>5, <2>4, SMTT(20)
    DEF UriGoesOn, UriWay, AuthorityWay, RestWay, QueriesWay, InQuery
<1>6. CASE it = q + 1
  <2>1. PICK v : v = <<loc.prev, it>> /\ v = ViewAt(msg.path, PathOff(msg))
    <3>1. it = a + n + 1
      BY <1>2, <1>6
    <3>2. <<loc.prev, it>> = ViewAt(msg.path, PathOff(msg))
      BY <1>2, <1>3, <1>4, <3>1, ViewIs
    <3>3. QED
      BY <3>2
  <2>2. CASE QueryText(msg) # <<>>
    <3>1. buf[it] = "?"
      BY <1>4, <1>6, <2>2
    <3>2. it < loc.end
      <4>1. PICK x \in Nat : x = Len(QueryText(msg)) /\ f = q + (x + 1)
        BY <1>1, <1>2, <2>2, UriOffsets
      <4>2. q < f
        BY <4>1
      <4>3. QED
        BY <1>1, <1>2, <1>6, <4>2
    <3>3. UriRow("Path", {"?"}, "QueryStart", "path")
      BY Zenon DEF UriRow, Ur!Rules
    <3>4. /\ state' = "QueryStart" /\ out' = [out EXCEPT !["path"] = <<loc.prev, it>>]
          /\ loc' = loc /\ it' = it + 1 /\ buf' = buf
      BY <1>1, <3>1, <3>2, <3>3, UriReads, UriDoes
    <3>5. Taken(out', msg, 6) /\ out'.queries = <<>>
      BY <1>1, <1>3, <2>1, <3>4 DEF Taken, Locators
    <3>6. QED
      BY <1>2, <1>6, <2>2, <3>4, <3>5
      DEF UriGoesOn, UriWay, AuthorityWay, RestWay, QueriesWay, InQuery
  <2>3. CASE QueryText(msg) = <<>> /\ msg.fragment # <<>>
    <3>1. f = q
      BY <1>1, <1>2, <2>3, UriOffsets
    <3>2. buf[it] = "#"
      BY <1>4, <1>6, <2>3, <3>1
    <3>3. it < loc.end
      <4>1. PICK x \in Nat : x = Len(msg.fragment) /\ Len(buf) = f + (x + 1)
        BY <1>1, <1>2, <2>3, UriOffsets
      <4>2. f < Len(buf)
        BY <1>1, <4>1
      <4>3. QED
        BY <1>1, <1>2, <1>6, <3>1, <4>2
    <3>4. UriRow("Path", {"#"}, "HashStart", "path")
      BY Zenon DEF UriRow, Ur!Rules
    <3>5. /\ state' = "HashStart" /\ out' = [out EXCEPT !["path"] = <<loc.prev, it>>]
          /\ loc' = loc /\ it' = it + 1 /\ buf' = buf
      BY <1>1, <3>2, <3>3, <3>4, UriReads, UriDoes
    <3>6. Taken(out', msg, 7) /\ out'.queries = <<>>
      BY <1>1, <1>3, <2>1, <2>3, <3>5 DEF Taken, Locators, ViewAt
    <3>7. QED
      BY <1>2, <1>6, <2>3, <3>1, <3>5, <3>6
      DEF UriGoesOn, UriWay, AuthorityWay, RestWay, QueriesWay, InQuery
  <2>4. CASE QueryText(msg) = <<>> /\ msg.fragment = <<>>
    <3>1. f = q /\ Len(buf) = f
      BY <1>1, <1>2, <2>4, UriOffsets
    <3>2. it = loc.end /\ it = Len(buf) + 1
      BY <1>1, <1>6, <3>1
    <3>3. out.path[1] = out.path[2]
      BY <1>3 DEF Taken, Empty
    <3>4. buf' = buf /\ out' = [out EXCEPT !.path = v] /\ state' = "Completed"
      BY <1>1, <2>1, <3>2, <3>3, UriAtEnd DEF InQuery, Verdicts
    <3>5. Taken(out', msg, 8) /\ out'.queries = <<>>
      BY <1>1, <1>3, <2>1, <2>4, <3>4 DEF Taken, Locators, ViewAt
    <3>6. QueriesRead(buf, out', msg, Len(msg.queries))
      <4>1. Len(msg.queries) = 0
        BY <1>1, <2>4, SomeQueries
      <4>2. QED
        BY <3>5, <4>1, EmptySeq DEF QueriesRead
    <3>7. QED
      BY <3>4, <3>5, <3>6 DEF UriGoesOn, UriWay, AuthorityWay, RestWay, QueriesWay, InQuery
  <2>5. QED
    BY <2>2, <2>3, <2>4
<1>7. QED
  BY <1>3, <1>5, <1>6

\* In the query string.
LEMMA QueryStep ==
  ASSUME UriAtWork, state \in {"QueryStart", "Query"}
  PROVE  UriGoesOn
<1>1. /\ UriTypes /\ Readable(msg) /\ UriLaid(buf, msg) /\ Ur!Next
      /\ UriWay(buf, msg, it, state, out, loc)
      /\ it \in Int /\ 1 <= it /\ out \in Locators /\ loc \in LocatorLocals /\ buf \in Seq(Symbols)
      /\ Len(buf) \in Nat /\ loc.end = Len(buf) + 1 /\ loc.prev \in Int /\ state \notin Verdicts
  BY UriHere DEF InQuery, Verdicts
<1>2. QueryText(msg) # <<>> /\ Taken(out, msg, 6) /\ out.queries = <<>>
  BY <1>1 DEF UriWay, RestWay, InQuery
<1>3. PICK q \in Nat, f \in Nat, n \in Nat :
        /\ q = QueryOff(msg) /\ f = FragmentOff(msg) /\ n = Len(QueryText(msg))
        /\ f = q + (n + 1) /\ f <= Len(buf) /\ n > 0
  <2>1. PICK q \in Nat, f \in Nat, n \in Nat :
          q = QueryOff(msg) /\ f = FragmentOff(msg) /\ n = Len(QueryText(msg))
    BY <1>1, UriOffsets
  <2>2. f = q + (n + 1)
    BY <1>1, <1>2, <2>1, UriOffsets
  <2>3. f <= Len(buf)
    BY <1>1, <2>1, UriOrder
  <2>4. n > 0
    BY <1>1, <1>2, <2>1, RestSymbols
  <2>5. QED
    BY <2>1, <2>2, <2>3, <2>4
<1>4. q + 2 <= f
  BY <1>3
<1>5. /\ \A i \in q + 2 .. f : buf[i] \in QuerySymbols
      /\ msg.fragment # <<>> => buf[f + 1] = "#"
  BY <1>1, <1>2, <1>3, RestSymbols
<1>6. QuerySymbols \subseteq Symbols \ {"#"} /\ Ur!Symbols = Symbols
  <2>1. Ur!Symbols = Symbols
    BY DEF Ur!Symbols, Ur!Control, Ur!Alnum, Ur!Alpha, Ur!Method, Ur!Digit, Ur!HeaderName,
       Ur!Word, Ur!Mark, Ur!Signed, Symbols, Control, Alnum, Alpha, Method, Digit, HeaderName,
       Word, Mark, Signed
  <2>2. QuerySymbols \subseteq Symbols \ {"#"}
    BY DEF QuerySymbols, Symbols, Mark, Ur!Name, Ur!Unreserved, Ur!Alnum, Ur!Alpha, Ur!Method,
       Ur!Digit, Ur!HeaderName, Alnum, Alpha, Method, Digit, HeaderName, Word
  <2>3. QED
    BY <2>1, <2>2
<1>7. CASE state = "QueryStart"
  <2>1. it = q + 2
    BY <1>1, <1>3, <1>7 DEF UriWay, RestWay
  <2>2. UriRow("QueryStart", Ur!Symbols, "Query", "mark")
    BY Zenon DEF UriRow, Ur!Rules
  <2>3. it < loc.end /\ buf[it] \in Ur!Symbols
    BY <1>1, <1>3, <1>4, <1>5, <1>6, <2>1
  <2>4. /\ state' = "Query" /\ out' = out /\ loc' = [loc EXCEPT !.prev = it]
        /\ it' = it + 1 /\ buf' = buf
    BY <1>1, <1>7, <2>2, <2>3, UriReads, UriDoes
  <2>5. loc'.prev = it
    BY <1>1, <2>4 DEF LocatorLocals
  <2>6. loc'.prev = QueryOff(msg) + 2 /\ it' \in QueryOff(msg) + 3 .. FragmentOff(msg) + 1
    BY <1>3, <1>4, <2>1, <2>4, <2>5
  <2>7. QED
    BY <1>2, <2>4, <2>6 DEF UriGoesOn, UriWay, AuthorityWay, RestWay, QueriesWay, InQuery
<1>8. CASE state = "Query"
  <2>1. loc.prev = q + 2 /\ it \in q + 3 .. f + 1
    BY <1>1, <1>3, <1>8 DEF UriWay, RestWay
  <2>2. CASE it <= f
    <3>1. UriRow("Query", Ur!Symbols \ {"#"}, "Query", "none")
      BY Zenon DEF UriRow, Ur!Rules
    <3>2. it < loc.end /\ buf[it] \in Ur!Symbols \ {"#"}
      BY <1>1, <1>3, <1>5, <1>6, <2>1, <2>2
    <3>3. state' = "Query" /\ out' = out /\ loc' = loc /\ it' = it + 1 /\ buf' = buf
      BY <1>1, <1>8, <3>1, <3>2, UriReads, UriDoes
    <3>4. loc'.prev = QueryOff(msg) + 2 /\ it' \in QueryOff(msg) + 3 .. FragmentOff(msg) + 1
      BY <1>3, <2>1, <2>2, <3>3, SMTT(20)
    <3>5. QED
      BY <1>2, <3>3, <3>4 DEF UriGoesOn, UriWay, AuthorityWay, RestWay, QueriesWay, InQuery
  <2>3. CASE it = f + 1
    <3>1. PICK v : v = <<loc.prev, it>> /\ v = ViewAt(QueryText(msg), QueryOff(msg) + 1)
      <4>1. loc.prev = (q + 1) + 1 /\ it = (q + 1) + n + 1
        <5>1. f = q + n + 1
          BY <1>3
        <5>2. loc.prev = q + 2 /\ it = f + 1
          BY <2>1, <2>3
        <5>3. QED
          BY <5>1, <5>2
      <4>2. <<loc.prev, it>> = ViewAt(QueryText(msg), q + 1)
        BY <1>2, <1>3, <4>1, ViewIs
      <4>3. QED
        BY <1>3, <4>2
    <3>2. CASE msg.fragment # <<>>
      <4>1. buf[it] = "#"
        BY <1>5, <2>3, <3>2
      <4>2. it < loc.end
        <5>1. PICK x \in Nat : x = Len(msg.fragment) /\ Len(buf) = f + (x + 1)
          BY <1>1, <1>3, <3>2, UriOffsets
        <5>2. f < Len(buf)
          BY <1>1, <5>1
        <5>3. QED
          BY <1>1, <1>3, <2>3, <5>2
      <4>3. UriRow("Query", {"#"}, "HashStart", "querystr")
        BY Zenon DEF UriRow, Ur!Rules
      <4>4. /\ state' = "HashStart" /\ out' = [out EXCEPT !["querystr"] = <<loc.prev, it>>]
            /\ loc' = loc /\ it' = it + 1 /\ buf' = buf
        BY <1>1, <1>8, <4>1, <4>2, <4>3, UriReads, UriDoes
      <4>5. Taken(out', msg, 7) /\ out'.queries = <<>>
        BY <1>1, <1>2, <3>1, <4>4 DEF Taken, Locators
      <4>6. QED
        BY <1>3, <2>3, <3>2, <4>4, <4>5
        DEF UriGoesOn, UriWay, AuthorityWay, RestWay, QueriesWay, InQuery
    <3>3. CASE msg.fragment = <<>>
      <4>1. Len(buf) = f
        BY <1>1, <1>3, <3>3, UriOffsets
      <4>2. it = loc.end /\ it = Len(buf) + 1
        BY <1>1, <2>3, <4>1
      <4>3. out.path[1] # out.path[2] /\ out.querystr[1] = out.querystr[2]
        <5>1. PICK a \in Nat, n1 \in Nat : a = PathOff(msg) /\ n1 = Len(msg.path) /\ n1 > 0
          BY <1>1, UriOffsets, RestSymbols
        <5>2. msg.path # <<>>
          BY <5>1
        <5>3. out.path = <<a + 1, a + n1 + 1>>
          BY <1>2, <5>1, <5>2 DEF Taken, ViewAt
        <5>4. out.path[1] # out.path[2]
          BY <5>1, <5>3
        <5>5. QED
          BY <1>2, <5>4 DEF Taken, Empty
      <4>4. buf' = buf /\ out' = [out EXCEPT !.querystr = v] /\ Ur!StartQueries(v)
        BY <1>8, <3>1, <4>2, <4>3, UriAtEnd DEF InQuery, Verdicts
      <4>5. Taken(out', msg, 8) /\ out'.queries = <<>>
        BY <1>1, <1>2, <3>1, <3>3, <4>4 DEF Taken, Locators, ViewAt
      <4>6. QED
        BY <3>1, <4>4, <4>5, QueriesBegin
    <3>4. QED
      BY <3>2, <3>3
  <2>4. QED
    BY <2>1, <2>2, <2>3
<1>9. QED
  BY <1>7, <1>8

\* In the fragment, which is the rest.
LEMMA FragmentStep ==
  ASSUME UriAtWork, state = "HashStart"
  PROVE  UriGoesOn
<1>1. /\ UriTypes /\ Readable(msg) /\ UriLaid(buf, msg) /\ Ur!Next
      /\ UriWay(buf, msg, it, state, out, loc)
      /\ it \in Int /\ 1 <= it /\ out \in Locators /\ loc \in LocatorLocals /\ buf \in Seq(Symbols)
      /\ Len(buf) \in Nat /\ loc.end = Len(buf) + 1 /\ loc.prev \in Int /\ state \notin Verdicts
  BY UriHere DEF InQuery, Verdicts
<1>2. msg.fragment # <<>> /\ Taken(out, msg, 7) /\ out.queries = <<>> /\ it = FragmentOff(msg) + 2
  BY <1>1 DEF UriWay, RestWay, InQuery
<1>3. PICK f \in Nat, n \in Nat :
        f = FragmentOff(msg) /\ n = Len(msg.fragment) /\ Len(buf) = f + (n + 1) /\ n > 0
  BY <1>1, <1>2, UriOffsets, RestSymbols
<1>4. it < loc.end /\ ~(it >= loc.end)
  BY <1>1, <1>2, <1>3
<1>5. Ur!Fragment
  <2>1. ~Ur!Reject /\ ~Ur!PortOrPassword /\ ~Ur!PortEnd /\ ~Ur!EndOfText /\ ~Ur!EndOfQueries
    BY <1>4 DEF Ur!Reject, Ur!Accepts, Ur!PortOrPassword, Ur!PortEnd, Ur!EndOfText, Ur!EndOfQueries
  <2>2. ~Ur!Follow
    <3>1. \A r \in Ur!Rules : r.from # "HashStart"
      BY DEF Ur!Rules, Ur!Rule
    <3>2. QED
      BY <3>1 DEF Ur!Follow
  <2>3. QED
    BY <1>1, <2>1, <2>2 DEF Ur!Next, Ur!Read
<1>6. PICK v : v = <<it, Len(buf) + 1>> /\ v = ViewAt(msg.fragment, FragmentOff(msg) + 1)
  <2>1. it = (f + 1) + 1 /\ Len(buf) + 1 = (f + 1) + n + 1
    BY <1>1, <1>2, <1>3, SMTT(20)
  <2>2. <<it, Len(buf) + 1>> = ViewAt(msg.fragment, f + 1)
    BY <1>2, <1>3, <2>1, ViewIs, SMTT(20)
  <2>3. QED
    BY <1>3, <2>2
<1>7. out' = [out EXCEPT !.fragment = v] /\ Ur!StartQueries(out.querystr) /\ buf' = buf
  BY <1>5, <1>6 DEF Ur!Fragment
<1>8. Taken(out', msg, 8) /\ out'.queries = <<>>
  BY <1>1, <1>2, <1>6, <1>7 DEF Taken, Locators
<1>9. out.querystr = ViewAt(QueryText(msg), QueryOff(msg) + 1)
  BY <1>2 DEF Taken
<1>10. QED
  BY <1>7, <1>8, <1>9, QueriesBegin

\* No query ends behind the query string.
LEMMA QueryEnds ==
  ASSUME NEW m, Readable(m), NEW b \in Seq(Symbols), UriLaid(b, m), NEW j \in 1 .. Len(m.queries)
  PROVE  ValueOff(m, j) + Len(m.queries[j].value) <= FragmentOff(m)
<1>1. PICK ss : ss = QueryPieces(m)
  OBVIOUS
<1>2. /\ ss \in Seq(Seq(Symbols)) /\ Len(ss) = Len(m.queries) /\ QueryText(m) = FlattenSeq(ss)
      /\ QueryText(m) \in Seq(Symbols) /\ QueryText(m) # <<>>
  BY <1>1, QueryIsText, QueryLies
<1>3. PICK x \in Nat, y \in Nat : x = Len(m.queries[j].name) /\ y = Len(m.queries[j].value)
  BY QueryLies
<1>4. PICK first \in {0, 1} : first = IF j = 1 THEN 0 ELSE 1
  OBVIOUS
<1>5. Len(ss[j]) = first + x + 1 + y
  BY <1>1, <1>3, <1>4, QueryIsText
<1>6. PICK k \in Nat : k = Offset(ss, j - 1)
  BY <1>2, Laid
<1>7. k + Len(ss[j]) <= Len(QueryText(m))
  <2>1. Lies(FlattenSeq(ss), QueryText(m), 0)
    BY <1>2, LiesInItself
  <2>2. Lies(ss[j], QueryText(m), 0 + Offset(ss, j - 1))
    BY <1>2, <2>1, LiesAll
  <2>3. 0 + Offset(ss, j - 1) = k
    BY <1>6
  <2>4. QED
    BY <2>2, <2>3 DEF Lies
<1>8. PICK q \in Nat, f \in Nat, n \in Nat :
        q = QueryOff(m) /\ f = FragmentOff(m) /\ n = Len(QueryText(m)) /\ f = q + (n + 1)
  BY <1>2, UriOffsets
<1>9. NameOff(m, j) = q + 1 + k + first
  BY <1>1, <1>4, <1>6, <1>8 DEF NameOff
<1>10. ValueOff(m, j) = q + 1 + k + first + x + 1
  BY <1>3, <1>9 DEF ValueOff
<1>11. k + (first + x + 1 + y) <= n
  BY <1>5, <1>7, <1>8
<1>14. first \in Nat
  BY <1>4
<1>12. (q + 1 + k + first + x + 1) + y <= f
  <2>1. PICK z \in Nat : z = k + (first + x + 1 + y) /\ z <= n
    BY <1>11, <1>14
  <2>2. (q + 1 + k + first + x + 1) + y = q + 1 + z
    BY <1>14, <2>1
  <2>3. q + 1 + z <= f
    BY <1>8, <2>1
  <2>4. QED
    BY <2>2, <2>3
<1>13. QED
  BY <1>3, <1>8, <1>10, <1>12

\* A query read behind the others.
LEMMA QueryAdded ==
  ASSUME NEW b, NEW m, NEW j \in 1 .. Len(m.queries), NEW o \in Locators,
         QueriesRead(b, o, m, j - 1),
         NEW v \in Views, NEW w \in Views,
         Text(b, v) = m.queries[j].name, Text(b, w) = m.queries[j].value,
         NEW p, p = [o EXCEPT !.queries = Append(@, [name |-> v, value |-> w])]
  PROVE  QueriesRead(b, p, m, j)
<1>1. PICK q : q = o.queries
  OBVIOUS
<1>2. q \in Seq(Headers) /\ Len(q) = j - 1 /\ j - 1 <= Len(m.queries)
  BY <1>1 DEF Locators, QueriesRead
<1>3. PICK h : h = [name |-> v, value |-> w]
  OBVIOUS
<1>4. h \in Headers /\ h.name = v /\ h.value = w
  BY <1>3 DEF Headers
<1>5. p.queries = Append(q, h)
  BY <1>1, <1>3 DEF Locators
<1>6. /\ Len(p.queries) = j /\ p.queries[j] = h
      /\ \A i \in 1 .. j - 1 : p.queries[i] = q[i]
  BY <1>2, <1>4, <1>5, AppendProperties
<1>7. ASSUME NEW i \in 1 .. j
      PROVE  /\ Text(b, p.queries[i].name) = m.queries[i].name
             /\ Text(b, p.queries[i].value) = m.queries[i].value
  <2>1. CASE i = j
    BY <1>4, <1>6, <2>1
  <2>2. CASE i # j
    <3>1. i \in 1 .. j - 1
      BY <2>2
    <3>2. p.queries[i] = o.queries[i]
      BY <1>1, <1>6, <3>1
    <3>3. QED
      BY <3>1, <3>2 DEF QueriesRead
  <2>3. QED
    BY <2>1, <2>2
<1>8. j <= Len(m.queries)
  BY <1>2
<1>9. QED
  BY <1>6, <1>7, <1>8 DEF QueriesRead

\* What holds of a parser at work in the queries.
LEMMA QueryHere ==
  ASSUME UriAtWork, state \in InQuery
  PROVE  /\ Taken(out, msg, 8) /\ loc.end = FragmentOff(msg) + 1 /\ state \notin Verdicts
         /\ loc.name \in Views /\ Len(msg.queries) \in Nat /\ FragmentOff(msg) \in Nat
<1>1. /\ UriWay(buf, msg, it, state, out, loc) /\ loc \in LocatorLocals
      /\ Readable(msg) /\ UriLaid(buf, msg) /\ buf \in Seq(Symbols)
  BY UriHere
<1>2. QED
  BY <1>1, SomeQueries, UriOffsets DEF UriWay, QueriesWay, LocatorLocals, InQuery, Verdicts

\* The parser stays in the queries.
LEMMA QueriesGoOn ==
  ASSUME state' \in InQuery, buf' = buf, QueriesWay(buf, msg, it', state', out', loc')
  PROVE  UriGoesOn
<1>1. state' \notin {"Error", "InCompleted", "Completed"}
  BY DEF InQuery
<1>2. AuthorityWay(msg, it', state', out', loc'.prev) /\ RestWay(msg, it', state', out', loc'.prev)
  BY DEF InQuery, AuthorityWay, RestWay
<1>3. QED
  BY <1>1, <1>2 DEF UriGoesOn, UriWay

\* In the name of a query.
LEMMA QueryNameStep ==
  ASSUME UriAtWork, state \in {"QueryName", "NewQueryStart"}
  PROVE  UriGoesOn
<1>1. /\ UriTypes /\ Readable(msg) /\ UriLaid(buf, msg) /\ Ur!Next
      /\ UriWay(buf, msg, it, state, out, loc)
      /\ it \in Int /\ 1 <= it /\ out \in Locators /\ loc \in LocatorLocals /\ buf \in Seq(Symbols)
      /\ Len(buf) \in Nat /\ loc.prev \in Int
  BY UriHere
<1>2. /\ Taken(out, msg, 8) /\ loc.end = FragmentOff(msg) + 1 /\ state \notin Verdicts
      /\ loc.name \in Views /\ Len(msg.queries) \in Nat /\ FragmentOff(msg) \in Nat
  BY QueryHere DEF InQuery
<1>3. CASE state = "QueryName"
  <2>1. PICK j \in 1 .. Len(msg.queries) :
          /\ QueriesRead(buf, out, msg, j - 1) /\ loc.prev = NameOff(msg, j) + 1
          /\ it \in NameOff(msg, j) + 1 .. ValueOff(msg, j)
    BY <1>1, <1>3 DEF UriWay, QueriesWay
  <2>2. PICK a \in Nat, d \in Nat, n \in Nat, k \in Nat :
          /\ a = NameOff(msg, j) /\ d = ValueOff(msg, j) /\ n = Len(msg.queries[j].name)
          /\ k = Len(msg.queries[j].value) /\ n > 0 /\ k > 0 /\ d = a + n + 1
    <3>1. PICK a \in Nat, d \in Nat, n \in Nat \ {0}, k \in Nat \ {0} :
            /\ a = NameOff(msg, j) /\ d = ValueOff(msg, j) /\ n = Len(msg.queries[j].name)
            /\ k = Len(msg.queries[j].value)
      BY <1>1, QueryLies
    <3>2. d = a + n + 1
      BY <1>1, <3>1, QueryLies
    <3>3. QED
      BY <3>1, <3>2
  <2>3. it < loc.end
    <3>1. PICK f \in Nat : f = FragmentOff(msg) /\ d + k <= f
      BY <1>1, <1>2, <2>2, QueryEnds
    <3>2. it \in a + 1 .. d /\ loc.end = f + 1
      BY <1>2, <2>1, <2>2, <3>1
    <3>3. d <= f
      BY <2>2, <3>1, SMTT(20)
    <3>4. QED
      BY <3>2, <3>3
  <2>4. CASE it < d
    <3>1. buf[it] \in Ur!Name
      <4>1. \A i \in a + 1 .. a + n : buf[i] \in Ur!Name
        BY <1>1, <2>2, QueryLies
      <4>2. it \in a + 1 .. a + n
        BY <2>1, <2>2, <2>4
      <4>3. QED
        BY <4>1, <4>2
    <3>2. UriRow("QueryName", Ur!Name, "QueryName", "none")
      BY Zenon DEF UriRow, Ur!Rules
    <3>3. state' = "QueryName" /\ out' = out /\ loc' = loc /\ it' = it + 1 /\ buf' = buf
      BY <1>1, <1>2, <1>3, <2>3, <3>1, <3>2, UriReads, UriDoes
    <3>4. it' \in NameOff(msg, j) + 1 .. ValueOff(msg, j)
      BY <2>1, <2>2, <2>4, <3>3, SMTT(20)
    <3>5. QED
      BY <1>2, <2>1, <3>3, <3>4 DEF UriGoesOn, UriWay, AuthorityWay, RestWay, QueriesWay, InQuery
  <2>5. CASE it = d
    <3>1. buf[it] = "="
      BY <1>1, <2>2, <2>5, QueryLies
    <3>2. UriRow("QueryName", {"="}, "QueryValueStart", "name")
      BY Zenon DEF UriRow, Ur!Rules
    <3>3. PICK v : v = <<loc.prev, it>> /\ v = <<a + 1, a + n + 1>>
      BY <2>1, <2>2, <2>5
    <3>4. /\ state' = "QueryValueStart" /\ out' = out /\ loc' = [loc EXCEPT !.name = v]
          /\ it' = it + 1 /\ buf' = buf
      BY <1>1, <1>2, <1>3, <2>3, <3>1, <3>2, <3>3, UriReads, UriDoes
    <3>5. loc'.name = v /\ loc'.end = loc.end
      BY <1>1, <3>4 DEF LocatorLocals
    <3>6. Text(buf, v) = msg.queries[j].name
      <4>1. /\ msg.queries[j].name \in Seq(Symbols) /\ Lies(msg.queries[j].name, buf, a)
        BY <1>1, <2>2, QueryLies
      <4>2. v = <<a + 1, a + Len(msg.queries[j].name) + 1>>
        BY <2>2, <3>3
      <4>3. QED
        BY <1>1, <4>1, <4>2, LiesText, Zenon
    <3>7. it' = ValueOff(msg, j) + 1
      BY <2>2, <2>5, <3>4
    <3>8. QueriesWay(buf, msg, it', state', out', loc')
      BY <1>2, <2>1, <3>4, <3>5, <3>6, <3>7 DEF QueriesWay
    <3>9. QED
      BY <3>4, <3>8, QueriesGoOn DEF InQuery
  <2>6. it \in a + 1 .. d
    BY <2>1, <2>2
  <2>7. QED
    BY <2>4, <2>5, <2>6
<1>4. CASE state = "NewQueryStart"
  <2>1. PICK j \in 2 .. Len(msg.queries) :
          QueriesRead(buf, out, msg, j - 1) /\ it = NameOff(msg, j) + 1
    BY <1>1, <1>4 DEF UriWay, QueriesWay
  <2>2. j \in 1 .. Len(msg.queries)
    BY <1>2
  <2>3. PICK a \in Nat, d \in Nat, n \in Nat, k \in Nat :
          /\ a = NameOff(msg, j) /\ d = ValueOff(msg, j) /\ n = Len(msg.queries[j].name)
          /\ k = Len(msg.queries[j].value) /\ n > 0 /\ k > 0 /\ d = a + n + 1
    <3>1. PICK a \in Nat, d \in Nat, n \in Nat \ {0}, k \in Nat \ {0} :
            /\ a = NameOff(msg, j) /\ d = ValueOff(msg, j) /\ n = Len(msg.queries[j].name)
            /\ k = Len(msg.queries[j].value)
      BY <1>1, <2>2, QueryLies
    <3>2. d = a + n + 1
      BY <1>1, <2>2, <3>1, QueryLies
    <3>3. QED
      BY <3>1, <3>2, SMTT(20)
  <2>4. it < loc.end
    <3>1. PICK f \in Nat : f = FragmentOff(msg) /\ d + k <= f
      BY <1>1, <1>2, <2>2, <2>3, QueryEnds
    <3>2. it = a + 1 /\ loc.end = f + 1
      BY <1>2, <2>1, <2>3, <3>1
    <3>3. d <= f
      BY <2>3, <3>1, SMTT(20)
    <3>4. a + 1 <= d
      BY <2>3
    <3>5. QED
      BY <3>2, <3>3, <3>4
  <2>5. buf[it] \in Ur!Name
    <3>1. \A i \in a + 1 .. a + n : buf[i] \in Ur!Name
      BY <1>1, <2>2, <2>3, QueryLies
    <3>2. it \in a + 1 .. a + n
      BY <2>1, <2>3, SMTT(20)
    <3>3. QED
      BY <3>1, <3>2
  <2>6. UriRow("NewQueryStart", Ur!Name, "QueryName", "mark")
    BY Zenon DEF UriRow, Ur!Rules
  <2>7. /\ state' = "QueryName" /\ out' = out /\ loc' = [loc EXCEPT !.prev = it]
        /\ it' = it + 1 /\ buf' = buf
    BY <1>1, <1>2, <1>4, <2>4, <2>5, <2>6, UriReads, UriDoes
  <2>8. loc'.prev = NameOff(msg, j) + 1 /\ loc'.end = loc.end
    BY <1>1, <2>1, <2>7 DEF LocatorLocals
  <2>9. it' \in NameOff(msg, j) + 1 .. ValueOff(msg, j)
    <3>1. it' = (a + 1) + 1
      BY <2>1, <2>3, <2>7
    <3>4. a + 2 <= d
      BY <2>3
    <3>2. it' \in a + 1 .. d
      BY <3>1, <3>4
    <3>3. QED
      BY <2>3, <3>2
  <2>10. QED
    BY <1>2, <2>1, <2>2, <2>7, <2>8, <2>9
    DEF UriGoesOn, UriWay, AuthorityWay, RestWay, QueriesWay, InQuery
<1>5. QED
  BY <1>3, <1>4

\* In the value of a query.
LEMMA QueryValueStep ==
  ASSUME UriAtWork, state \in {"QueryValueStart", "QueryValue"}
  PROVE  UriGoesOn
<1>1. /\ UriTypes /\ Readable(msg) /\ UriLaid(buf, msg) /\ Ur!Next
      /\ UriWay(buf, msg, it, state, out, loc)
      /\ it \in Int /\ 1 <= it /\ out \in Locators /\ loc \in LocatorLocals /\ buf \in Seq(Symbols)
      /\ Len(buf) \in Nat /\ loc.prev \in Int
  BY UriHere
<1>2. /\ Taken(out, msg, 8) /\ loc.end = FragmentOff(msg) + 1 /\ state \notin Verdicts
      /\ loc.name \in Views /\ Len(msg.queries) \in Nat /\ FragmentOff(msg) \in Nat
  BY QueryHere DEF InQuery
<1>3. PICK j \in 1 .. Len(msg.queries) :
        /\ QueriesRead(buf, out, msg, j - 1) /\ Text(buf, loc.name) = msg.queries[j].name
        /\ state = "QueryValueStart" => it = ValueOff(msg, j) + 1
        /\ state = "QueryValue" =>
             /\ loc.prev = ValueOff(msg, j) + 1
             /\ it \in ValueOff(msg, j) + 2 .. ValueOff(msg, j) + Len(msg.queries[j].value) + 1
  BY <1>1 DEF UriWay, QueriesWay
<1>4. PICK d \in Nat, k \in Nat, f \in Nat :
        /\ d = ValueOff(msg, j) /\ k = Len(msg.queries[j].value) /\ f = FragmentOff(msg)
        /\ k > 0 /\ d + k <= f
  <2>1. PICK d \in Nat, k \in Nat \ {0} :
          d = ValueOff(msg, j) /\ k = Len(msg.queries[j].value)
    BY <1>1, QueryLies
  <2>2. d + k <= FragmentOff(msg)
    BY <1>1, <2>1, QueryEnds
  <2>3. QED
    BY <1>2, <2>1, <2>2
<1>5. \A i \in d + 1 .. d + k : buf[i] \in Ur!Name
  BY <1>1, <1>4, QueryLies
<1>6. loc.end = f + 1
  BY <1>2, <1>4
<1>7. CASE state = "QueryValueStart"
  <2>1. it = d + 1
    BY <1>3, <1>4, <1>7
  <2>2. it < loc.end /\ it \in d + 1 .. d + k
    BY <1>4, <1>6, <2>1, SMTT(20)
  <2>3. buf[it] \in Ur!Name
    BY <1>5, <2>2
  <2>4. UriRow("QueryValueStart", Ur!Name, "QueryValue", "mark")
    BY Zenon DEF UriRow, Ur!Rules
  <2>5. /\ state' = "QueryValue" /\ out' = out /\ loc' = [loc EXCEPT !.prev = it]
        /\ it' = it + 1 /\ buf' = buf
    BY <1>1, <1>2, <1>7, <2>2, <2>3, <2>4, UriReads, UriDoes
  <2>6. loc'.prev = ValueOff(msg, j) + 1 /\ loc'.end = loc.end /\ loc'.name = loc.name
    BY <1>1, <1>4, <2>1, <2>5 DEF LocatorLocals
  <2>7. it' \in ValueOff(msg, j) + 2 .. ValueOff(msg, j) + Len(msg.queries[j].value) + 1
    <3>1. it' = d + 2 /\ d + 2 <= d + k + 1
      <4>1. it' = it + 1 /\ k > 0
        BY <1>4, <2>5
      <4>2. QED
        BY <2>1, <4>1
    <3>2. PICK e \in Nat : e = d + k + 1 /\ d + 2 <= e
      BY <1>4, <3>1
    <3>3. ValueOff(msg, j) + Len(msg.queries[j].value) + 1 = e
      BY <1>4, <3>2
    <3>4. ValueOff(msg, j) + 2 = d + 2
      BY <1>4
    <3>5. it' \in d + 2 .. e
      BY <1>4, <3>1, <3>2
    <3>6. QED
      BY <3>3, <3>4, <3>5
  <2>8. QueriesWay(buf, msg, it', state', out', loc')
    BY <1>2, <1>3, <2>5, <2>6, <2>7 DEF QueriesWay
  <2>9. QED
    BY <2>5, <2>8, QueriesGoOn DEF InQuery
<1>8. CASE state = "QueryValue"
  <2>1. loc.prev = d + 1 /\ it \in d + 2 .. d + k + 1
    BY <1>3, <1>4, <1>8
  <2>2. CASE it <= d + k
    <3>1. it < loc.end /\ it \in d + 1 .. d + k
      BY <1>4, <1>6, <2>1, <2>2, SMTT(20)
    <3>2. buf[it] \in Ur!Name
      BY <1>5, <3>1
    <3>3. UriRow("QueryValue", Ur!Name, "QueryValue", "none")
      BY Zenon DEF UriRow, Ur!Rules
    <3>4. state' = "QueryValue" /\ out' = out /\ loc' = loc /\ it' = it + 1 /\ buf' = buf
      BY <1>1, <1>2, <1>8, <3>1, <3>2, <3>3, UriReads, UriDoes
    <3>5. it' \in ValueOff(msg, j) + 2 .. ValueOff(msg, j) + Len(msg.queries[j].value) + 1
      <4>1. PICK e \in Nat : e = d + k + 1
        OBVIOUS
      <4>2. ValueOff(msg, j) + Len(msg.queries[j].value) + 1 = e /\ ValueOff(msg, j) + 2 = d + 2
        BY <1>4, <4>1
      <4>3. it' \in d + 2 .. e
        BY <2>1, <2>2, <3>4, <4>1
      <4>4. QED
        BY <4>2, <4>3
    <3>6. QueriesWay(buf, msg, it', state', out', loc')
      BY <1>2, <1>3, <1>8, <3>4, <3>5 DEF QueriesWay
    <3>7. QED
      BY <3>4, <3>6, QueriesGoOn DEF InQuery
  <2>3. CASE it = d + k + 1
    <3>1. PICK v \in Views : v = <<loc.prev, it>> /\ v = <<d + 1, d + k + 1>>
      BY <1>1, <2>1, <2>3 DEF Views
    <3>2. Text(buf, v) = msg.queries[j].value
      <4>1. msg.queries[j].value \in Seq(Symbols) /\ Lies(msg.queries[j].value, buf, d)
        BY <1>1, <1>4, QueryLies
      <4>2. v = <<d + 1, d + Len(msg.queries[j].value) + 1>>
        BY <1>4, <3>1
      <4>3. QED
        BY <1>1, <4>1, <4>2, LiesText, Zenon
    <3>3. ASSUME out' = [out EXCEPT !.queries = Append(@, [name |-> loc.name, value |-> v])]
          PROVE  QueriesRead(buf, out', msg, j) /\ Taken(out', msg, 8)
      <4>1. QueriesRead(buf, out', msg, j)
        BY <1>1, <1>2, <1>3, <3>2, <3>3, QueryAdded
      <4>2. Taken(out', msg, 8)
        BY <1>1, <1>2, <3>3 DEF Taken, Locators
      <4>3. QED
        BY <4>1, <4>2
    <3>4. CASE j < Len(msg.queries)
      <4>1. j + 1 \in 2 .. Len(msg.queries) /\ j + 1 \in 1 .. Len(msg.queries) /\ j + 1 > 1
            /\ (j + 1) - 1 = j
        BY <1>2, <3>4
      <4>2. NameOff(msg, j + 1) = it
        <5>1. NameOff(msg, j + 1) = d + k + 1
          BY <1>1, <1>4, <3>4, QueryLies
        <5>2. QED
          BY <2>3, <5>1
      <4>3. buf[it] = "&"
        BY <1>1, <4>1, <4>2, QueryLies
      <4>4. it < loc.end
        <5>1. PICK x \in Nat, y \in Nat :
                x = ValueOff(msg, j + 1) /\ y = Len(msg.queries[j + 1].value)
          BY <1>1, <4>1, QueryLies
        <5>5. PICK z \in Nat \ {0} : z = Len(msg.queries[j + 1].name)
          BY <1>1, <4>1, QueryLies
        <5>6. ValueOff(msg, j + 1) = NameOff(msg, j + 1) + Len(msg.queries[j + 1].name) + 1
          BY <1>1, <4>1, QueryLies
        <5>2. x = it + z + 1
          BY <4>2, <5>1, <5>5, <5>6
        <5>3. x + y <= f
          BY <1>1, <1>4, <4>1, <5>1, QueryEnds
        <5>4. QED
          BY <1>1, <1>6, <5>2, <5>3
      <4>5. UriRow("QueryValue", {"&"}, "NewQueryStart", "query")
        BY Zenon DEF UriRow, Ur!Rules
      <4>6. /\ state' = "NewQueryStart" /\ it' = it + 1 /\ buf' = buf /\ loc' = loc
            /\ out' = [out EXCEPT !.queries = Append(@, [name |-> loc.name, value |-> v])]
        <5>1. /\ state' = "NewQueryStart" /\ it' = it + 1 /\ buf' = buf /\ loc' = loc
              /\ out' = [out EXCEPT !.queries = Append(@, Ur!Query(<<loc.prev, it>>))]
          BY <1>1, <1>2, <1>8, <4>3, <4>4, <4>5, UriReads, UriDoes
        <5>2. Ur!Query(<<loc.prev, it>>) = [name |-> loc.name, value |-> v]
          BY <3>1 DEF Ur!Query
        <5>3. QED
          BY <5>1, <5>2
      <4>7. QueriesRead(buf, out', msg, (j + 1) - 1) /\ it' = NameOff(msg, j + 1) + 1
        BY <3>3, <4>1, <4>2, <4>6
      <4>8. QueriesWay(buf, msg, it', state', out', loc')
        BY <1>2, <3>3, <4>1, <4>6, <4>7 DEF QueriesWay
      <4>9. QED
        BY <4>6, <4>8, QueriesGoOn DEF InQuery
    <3>5. CASE j = Len(msg.queries)
      <4>1. d + k = f
        BY <1>1, <1>4, <3>5, QueryLies
      <4>2. it = loc.end /\ ~(it < loc.end)
        BY <1>1, <1>6, <2>3, <4>1
      <4>3. Ur!EndOfQueries
        <5>1. ~Ur!Read /\ ~Ur!Reject
          BY <4>2 DEF Ur!Read, Ur!Follow, Ur!PortOrPassword, Ur!PortEnd, Ur!Fragment, Ur!Reject,
             Ur!Reading
        <5>2. ~Ur!EndOfText
          BY <1>8 DEF Ur!EndOfText, Ur!InQueries
        <5>3. QED
          BY <1>1, <5>1, <5>2 DEF Ur!Next
      <4>4. /\ out' = [out EXCEPT !.queries = Append(@, [name |-> loc.name, value |-> v])]
            /\ state' = "Completed" /\ buf' = buf
        BY <1>8, <3>1, <4>2, <4>3 DEF Ur!EndOfQueries, Ur!Query
      <4>5. Taken(out', msg, 8) /\ QueriesRead(buf, out', msg, Len(msg.queries))
        BY <3>3, <3>5, <4>4
      <4>6. QED
        BY <4>4, <4>5 DEF UriGoesOn, UriWay, AuthorityWay, RestWay, QueriesWay, InQuery
    <3>6. QED
      BY <1>2, <3>4, <3>5
  <2>4. it <= d + k \/ it = d + k + 1
    BY <2>1
  <2>5. QED
    BY <2>2, <2>3, <2>4
<1>9. QED
  BY <1>7, <1>8

\* Wherever it is.
LEMMA UriStep ==
  ASSUME UriAtWork
  PROVE  UriGoesOn
<1>1. UriTypes /\ Ur!Next /\ UriWay(buf, msg, it, state, out, loc)
  BY UriHere
<1>2. state \notin Verdicts
  BY <1>1, SameUriText DEF Ur!Next, Ur!Read, Ur!Follow, Ur!PortOrPassword, Ur!PortEnd, Ur!Fragment,
     Ur!Reject, Ur!EndOfText, Ur!EndOfQueries, Ur!InQueries, Ur!Reading, Verdicts
<1>3. state \in UriStates
  BY <1>1 DEF UriTypes
<1>4. state \in InScheme \union InUser \union InHost \union {"Path"} \union InRest \union InQuery
  BY <1>2, <1>3 DEF UriStates
<1>5. QED
  BY <1>4, SchemeStep, FirstStep, SecondStep, HostStep, PortStep, PathStep, QueryStep, FragmentStep,
     QueryNameStep, QueryValueStep DEF InUser, InHost, InRest, InQuery
\* A parser that begins with all of a URI.
LEMMA UriStarts ==
  ASSUME NEW m, Readable(m), Ur!Begin, buf = UriText(m), buf \in Seq(Symbols)
  PROVE  UriLaid(buf, m) /\ UriWay(buf, m, it, state, out, loc)
<1>1. UriLaid(buf, m)
  BY UriIsLaid
<1>2. /\ it = 1 /\ state = "SchemeStart"
      /\ out = [scheme |-> Empty, username |-> Empty, password |-> Empty, hostname |-> Empty,
                portstr |-> Empty, port |-> 80, path |-> Empty, querystr |-> Empty,
                queries |-> <<>>, fragment |-> Empty]
      /\ loc = [prev |-> 1, name |-> Empty, end |-> Len(buf) + 1]
  BY SameUriText DEF Ur!Begin, Ur!NewUri
<1>3. Len(m.scheme) \in Nat
  BY <1>1, UriOffsets
<1>4. Taken(out, m, 0)
  BY <1>2 DEF Taken
<1>5. QED
  BY <1>1, <1>2, <1>3, <1>4 DEF UriWay, AuthorityWay, RestWay, QueriesWay, InQuery

\* The text of an absent part.
LEMMA EmptyText == \A b : Text(b, Empty) = <<>>
<1>1. ASSUME NEW b PROVE Text(b, Empty) = <<>>
  <2>1. Empty[1] = 0 /\ Empty[2] - 1 = -1
    BY DEF Empty
  <2>2. SubSeq(b, 0, -1) = <<>>
    BY SubSeqEmpty
  <2>3. QED
    BY <2>1, <2>2 DEF Text
<1>2. QED
  BY <1>1

\* The pairs of texts in a have been read to the pairs of views in q.
PairsRead(b, q, a) ==
  /\ Len(q) = Len(a)
  /\ \A j \in 1 .. Len(a) : /\ Text(b, q[j].name) = a[j].name
                            /\ Text(b, q[j].value) = a[j].value

\* The texts of the pairs of views in q.
ReadPairs(b, q) ==
  [i \in DOMAIN q |-> [name |-> Text(b, q[i].name), value |-> Text(b, q[i].value)]]

\* Pairs of texts that have been read one after the other.
LEMMA SamePairs ==
  ASSUME NEW b, NEW a \in Seq([name : Seq(Symbols), value : Seq(Symbols)]),
         NEW q \in Seq(Headers), PairsRead(b, q, a)
  PROVE  a = ReadPairs(b, q)
<1>7. PICK r : r = ReadPairs(b, q)
  OBVIOUS
<1>1. PICK n \in Nat : n = Len(a) /\ DOMAIN q = 1 .. n /\ DOMAIN a = 1 .. n
  BY LenProperties DEF PairsRead
<1>2. PICK V : V = Seq(Symbols)
  OBVIOUS
<1>3. a \in [1 .. n -> [name : V, value : V]]
  BY <1>1, <1>2, LenProperties
<1>4. ASSUME NEW i \in 1 .. n PROVE a[i] = r[i]
  <2>1. a[i] \in [name : V, value : V]
    BY <1>3
  <2>2. a[i] = [name |-> a[i].name, value |-> a[i].value]
    BY <2>1
  <2>3. r[i] = [name |-> Text(b, q[i].name), value |-> Text(b, q[i].value)]
    BY <1>1, <1>7 DEF ReadPairs
  <2>4. Text(b, q[i].name) = a[i].name /\ Text(b, q[i].value) = a[i].value
    BY <1>1 DEF PairsRead
  <2>5. QED
    BY <2>2, <2>3, <2>4
<1>5. r = [i \in 1 .. n |-> r[i]] /\ a = [i \in 1 .. n |-> a[i]]
  BY <1>1, <1>3, <1>7 DEF ReadPairs
<1>6. QED
  BY <1>4, <1>5, <1>7

\* Where the view of a part is, its text can be read; an absent part is empty.
LEMMA ViewedText ==
  ASSUME NEW b \in Seq(Symbols), NEW t \in Seq(Symbols), NEW p, t # <<>> => Lies(t, b, p)
  PROVE  Text(b, ViewAt(t, p)) = t
<1>1. CASE t = <<>>
  BY <1>1, EmptyText DEF ViewAt
<1>2. CASE t # <<>>
  BY <1>2, LiesText DEF ViewAt
<1>3. QED
  BY <1>1, <1>2

\* A parser that has gone all the way has read the URI.
LEMMA UriArrived ==
  ASSUME NEW m, Readable(m), NEW b \in Seq(Symbols), UriLaid(b, m), NEW o \in Locators,
         Taken(o, m, 8), QueriesRead(b, o, m, Len(m.queries))
  PROVE  m = [scheme |-> Text(b, o.scheme), username |-> Text(b, o.username),
              password |-> Text(b, o.password), hostname |-> Text(b, o.hostname),
              portstr |-> Text(b, o.portstr), path |-> Text(b, o.path),
              queries |-> [i \in DOMAIN o.queries |->
                             [name |-> Text(b, o.queries[i].name),
                              value |-> Text(b, o.queries[i].value)]],
              fragment |-> Text(b, o.fragment)]
<1>1. /\ m.scheme \in Seq(Symbols) /\ m.username \in Seq(Symbols) /\ m.password \in Seq(Symbols)
      /\ m.hostname \in Seq(Symbols) /\ m.portstr \in Seq(Symbols) /\ m.path \in Seq(Symbols)
      /\ m.fragment \in Seq(Symbols)
  BY UriTexts
<1>2. Text(b, o.scheme) = m.scheme
  <2>1. Lies(m.scheme, b, 0)
    BY DEF UriLaid
  <2>2. PICK n \in Nat : n = Len(m.scheme)
    BY UriOffsets
  <2>3. PICK p : p = 0
    OBVIOUS
  <2>4. PICK v : v = o.scheme
    OBVIOUS
  <2>5. v = <<p + 1, p + Len(m.scheme) + 1>>
    <3>1. v = <<1, n + 1>>
      BY <2>2, <2>4 DEF Taken
    <3>2. p + 1 = 1 /\ p + Len(m.scheme) + 1 = n + 1
      BY <2>2, <2>3
    <3>3. QED
      BY <3>1, <3>2
  <2>6. Lies(m.scheme, b, p)
    BY <2>1, <2>3
  <2>7. Text(b, v) = m.scheme
    BY <1>1, <2>5, <2>6, LiesText
  <2>8. QED
    BY <2>4, <2>7
<1>3. Text(b, o.username) = m.username
  BY <1>1, UserSymbols, ViewedText DEF Taken
<1>4. Text(b, o.password) = m.password
  BY <1>1, UserSymbols, ViewedText DEF Taken
<1>5. Text(b, o.hostname) = m.hostname
  BY <1>1, HostSymbols, ViewedText DEF Taken
<1>6. Text(b, o.portstr) = m.portstr
  BY <1>1, HostSymbols, ViewedText DEF Taken
<1>7. Text(b, o.path) = m.path
  BY <1>1, RestSymbols, ViewedText DEF Taken
<1>8. Text(b, o.fragment) = m.fragment
  BY <1>1, RestSymbols, ViewedText DEF Taken
<1>10. m.queries = ReadPairs(b, o.queries)
  <2>1. /\ m.queries \in Seq([name : Seq(Symbols), value : Seq(Symbols)])
        /\ o.queries \in Seq(Headers) /\ PairsRead(b, o.queries, m.queries)
    BY DEF QueriesRead, Readable, Locators, PairsRead
  <2>2. QED
    BY <2>1, SamePairs
<1>11. /\ m = [scheme |-> m.scheme, username |-> m.username, password |-> m.password,
               hostname |-> m.hostname, portstr |-> m.portstr, path |-> m.path,
               queries |-> m.queries, fragment |-> m.fragment]
  BY DEF Readable
<1>12. QED
  BY <1>2, <1>3, <1>4, <1>5, <1>6, <1>7, <1>8, <1>10, <1>11, Zenon DEF ReadPairs

\* A parser that reads all of a URI is on its way.
WholeUriWay ==
  kind = "whole" /\ parser = "uri" /\ ReadsUri(msg) =>
    Readable(msg) /\ UriLaid(buf, msg) /\ UriWay(buf, msg, it, state, out, loc)

\* All of a URI is read as the URI it is.
LEMMA WholeUriIsParsed ==
  ASSUME parser = "uri", ReadsUri(msg), UriTypes, WholeUriWay
  PROVE  WholeIsParsed
<1>1. SUFFICES ASSUME kind = "whole", state \in Verdicts
               PROVE  state = "Completed" /\ msg = ParsedUri
  BY DEF WholeIsParsed, IsParsed, Decided
<1>2. Readable(msg) /\ UriLaid(buf, msg) /\ UriWay(buf, msg, it, state, out, loc)
  BY <1>1 DEF WholeUriWay
<1>3. state = "Completed"
  BY <1>1, <1>2 DEF UriWay, Verdicts
<1>4. Taken(out, msg, 8) /\ QueriesRead(buf, out, msg, Len(msg.queries))
  BY <1>2, <1>3 DEF UriWay
<1>5. buf \in Seq(Symbols) /\ out \in Locators
  BY DEF UriTypes
<1>6. msg = ParsedUri
  BY <1>2, <1>4, <1>5, UriArrived, Zenon DEF ParsedUri, T
<1>7. QED
  BY <1>3, <1>6

(***************************************************************************)
(* Every URI with a host and a path, and with the symbols in its parts     *)
(* that ReadsUri allows, is parsed into the parts it was made from, for    *)
(* any such URI and of any length.                                         *)
(***************************************************************************)
THEOREM WholeUrisAreParsed ==
  Spec => [](parser = "uri" /\ ReadsUri(msg) => WholeIsParsed)
<1>1. Init => WholeUriWay
  <2>1. SUFFICES ASSUME Init, kind = "whole", parser = "uri", ReadsUri(msg)
                 PROVE  Readable(msg) /\ UriLaid(buf, msg) /\ UriWay(buf, msg, it, state, out, loc)
    BY DEF WholeUriWay
  <2>2. msg \in Uris /\ buf = UriText(msg) /\ Ur!Begin
    BY <2>1 DEF Init, Take
  <2>3. Readable(msg) /\ buf \in Seq(Symbols)
    BY <2>1, <2>2, ReadableUri, UrisAssumption, ParsersAssumption
  <2>4. QED
    BY <2>2, <2>3, UriStarts
<1>2. ParsersInv /\ WholeUriWay /\ [Next]_vars => WholeUriWay'
  <2>1. SUFFICES ASSUME ParsersInv, WholeUriWay, [Next]_vars, kind' = "whole", parser' = "uri",
                        ReadsUri(msg)'
                 PROVE  (/\ Readable(msg) /\ UriLaid(buf, msg)
                         /\ UriWay(buf, msg, it, state, out, loc))'
    BY DEF WholeUriWay
  <2>2. CASE Next
    <3>1. kind = "whole" /\ parser = "uri" /\ msg' = msg /\ ReadsUri(msg)
      <4>1. kind = "whole" /\ parser = "uri" /\ msg' = msg
        BY <2>1, <2>2 DEF Next, caseVars
      <4>2. ReadsUri(msg')
        BY <2>1
      <4>3. QED
        BY <4>1, <4>2
    <3>2. UriAtWork
      BY <2>1, <2>2, <3>1 DEF WholeUriWay, ParsersInv, UriInv, UriAtWork, Next
    <3>3. buf' = buf /\ UriWay(buf, msg, it', state', out', loc')
      BY <3>2, UriStep DEF UriGoesOn
    <3>4. Readable(msg)' /\ UriLaid(buf, msg)' /\ UriWay(buf, msg, it, state, out, loc)'
      <4>1. Readable(msg') /\ UriLaid(buf', msg') /\ UriWay(buf', msg', it', state', out', loc')
        BY <3>1, <3>2, <3>3 DEF UriAtWork
      <4>2. QED
        BY <4>1
    <3>5. QED
      BY <3>4
  <2>3. CASE UNCHANGED vars
    <3>1. /\ buf' = buf /\ it' = it /\ state' = state /\ out' = out /\ loc' = loc
          /\ parser' = parser /\ kind' = kind /\ msg' = msg
      BY <2>3 DEF vars, parserVars, caseVars
    <3>2. Readable(msg) /\ UriLaid(buf, msg) /\ UriWay(buf, msg, it, state, out, loc)
      <4>1. ReadsUri(msg')
        BY <2>1
      <4>2. QED
        BY <2>1, <3>1, <4>1 DEF WholeUriWay
    <3>3. Readable(msg') /\ UriLaid(buf', msg') /\ UriWay(buf', msg', it', state', out', loc')
      BY <3>1, <3>2
    <3>4. QED
      BY <3>3
  <2>4. QED
    BY <2>1, <2>2, <2>3
<1>3. ParsersInv /\ WholeUriWay => (parser = "uri" /\ ReadsUri(msg) => WholeIsParsed)
  BY WholeUriIsParsed DEF ParsersInv, UriInv
<1>4. QED
  BY <1>1, <1>2, <1>3, ParsersInvariance, PTL DEF Spec
=============================================================================
