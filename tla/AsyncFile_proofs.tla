---------------------------- MODULE AsyncFile_proofs ----------------------------
(***************************************************************************)
(* Proofs about IoService and AsyncFile: for any number of coroutines and  *)
(* any sizes of the queues, no completion is lost or handled twice, each   *)
(* coroutine is resumed with the result of the operation it awaits, the    *)
(* thread never waits for what it has not submitted, and a file's size is  *)
(* looked up once.                                                         *)
(***************************************************************************)
EXTENDS AsyncFile, SequenceTheorems, TLAPS

(***************************************************************************)
(* Sequences and the sets of their elements.                               *)
(***************************************************************************)

\* The set of the elements of a sequence.
LEMMA ElementsOf ==
  ASSUME NEW T, NEW s \in Seq(T)
  PROVE  /\ \A x : x \in ToSet(s) <=> \E i \in 1 .. Len(s) : x = s[i]
         /\ ToSet(s) \subseteq T
         /\ IsInjective(s) <=> \A i, j \in 1 .. Len(s) : s[i] = s[j] => i = j
         /\ ToSet(s) = {} <=> s = <<>>
<1>1. DOMAIN s = 1 .. Len(s) /\ Len(s) \in Nat /\ \A i \in 1 .. Len(s) : s[i] \in T
  BY LenProperties, ElementOfSeq
<1>2. s = <<>> <=> Len(s) = 0
  BY EmptySeq
<1>3. \A x : x \in ToSet(s) <=> \E i \in 1 .. Len(s) : x = s[i]
  BY <1>1 DEF ToSet
<1>4. ToSet(s) = {} <=> Len(s) = 0
  <2>1. CASE Len(s) = 0
    BY <1>3, <2>1
  <2>2. CASE Len(s) # 0
    <3>1. 1 \in 1 .. Len(s)
      BY <1>1, <2>2
    <3>2. s[1] \in ToSet(s)
      BY <1>3, <3>1
    <3>3. QED
      BY <2>2, <3>2
  <2>3. QED
    BY <2>1, <2>2
<1>5. QED
  BY <1>1, <1>2, <1>3, <1>4 DEF IsInjective

\* Two sequences in a row hold what the two hold, each element once if the
\* two have no element in common.
LEMMA ConcatElements ==
  ASSUME NEW T, NEW s \in Seq(T), NEW t \in Seq(T)
  PROVE  /\ s \o t \in Seq(T) /\ Len(s \o t) = Len(s) + Len(t)
         /\ ToSet(s \o t) = ToSet(s) \union ToSet(t)
         /\ IsInjective(s \o t) <=>
              IsInjective(s) /\ IsInjective(t) /\ ToSet(s) \intersect ToSet(t) = {}
<1>0. PICK z : z = s \o t
  OBVIOUS
<1>1. /\ z \in Seq(T) /\ Len(z) = Len(s) + Len(t)
      /\ Len(s) \in Nat /\ Len(t) \in Nat
      /\ \A i \in 1 .. Len(s) : z[i] = s[i]
      /\ \A i \in 1 .. Len(t) : z[Len(s) + i] = t[i]
  BY <1>0, ConcatProperties, LenProperties
<1>2. \A i \in 1 .. Len(s) + Len(t) :
        i \in 1 .. Len(s) \/ \E j \in 1 .. Len(t) : i = Len(s) + j
  <2>1. TAKE i \in 1 .. Len(s) + Len(t)
  <2>2. i > Len(s) => i - Len(s) \in 1 .. Len(t) /\ i = Len(s) + (i - Len(s))
    BY <1>1
  <2>3. QED
    BY <1>1, <2>2
<1>3. ToSet(z) = ToSet(s) \union ToSet(t)
  <2>1. \A i \in 1 .. Len(s) : i \in 1 .. Len(s) + Len(t)
    BY <1>1
  <2>2. \A j \in 1 .. Len(t) : Len(s) + j \in 1 .. Len(s) + Len(t)
    BY <1>1
  <2>3. /\ \A x : x \in ToSet(s) <=> \E i \in 1 .. Len(s) : x = s[i]
        /\ \A x : x \in ToSet(t) <=> \E i \in 1 .. Len(t) : x = t[i]
        /\ \A x : x \in ToSet(z) <=> \E i \in 1 .. Len(s) + Len(t) : x = z[i]
    <3>1. \A x : x \in ToSet(s) <=> \E i \in 1 .. Len(s) : x = s[i]
      BY ElementsOf
    <3>2. \A x : x \in ToSet(t) <=> \E i \in 1 .. Len(t) : x = t[i]
      BY ElementsOf
    <3>3. \A x : x \in ToSet(z) <=> \E i \in 1 .. Len(z) : x = z[i]
      BY <1>1, ElementsOf
    <3>4. QED
      BY <1>1, <3>1, <3>2, <3>3
  <2>4. \A x \in ToSet(s) : x \in ToSet(z)
    BY <1>1, <2>1, <2>3
  <2>5. ASSUME NEW x \in ToSet(t) PROVE x \in ToSet(z)
    <3>1. PICK j \in 1 .. Len(t) : x = t[j]
      BY <2>3
    <3>2. z[Len(s) + j] = x /\ Len(s) + j \in 1 .. Len(s) + Len(t)
      BY <1>1, <2>2, <3>1
    <3>3. QED
      BY <2>3, <3>2
  <2>6. ASSUME NEW x \in ToSet(z) PROVE x \in ToSet(s) \union ToSet(t)
    <3>1. PICK i \in 1 .. Len(s) + Len(t) : x = z[i]
      BY <2>3
    <3>2. CASE i \in 1 .. Len(s)
      <4>1. x = s[i]
        BY <1>1, <3>1, <3>2
      <4>2. QED
        BY <2>3, <3>2, <4>1
    <3>3. CASE \E j \in 1 .. Len(t) : i = Len(s) + j
      <4>1. PICK j \in 1 .. Len(t) : i = Len(s) + j
        BY <3>3
      <4>2. x = t[j]
        BY <1>1, <3>1, <4>1
      <4>3. QED
        BY <2>3, <4>2
    <3>4. QED
      BY <1>2, <3>2, <3>3
  <2>7. QED
    BY <2>4, <2>5, <2>6
<1>4. ASSUME IsInjective(z)
      PROVE  IsInjective(s) /\ IsInjective(t) /\ ToSet(s) \intersect ToSet(t) = {}
  <2>1. \A i, j \in 1 .. Len(s) + Len(t) : z[i] = z[j] => i = j
    <3>1. IsInjective(z) <=> \A i, j \in 1 .. Len(z) : z[i] = z[j] => i = j
      BY <1>1, ElementsOf
    <3>2. QED
      BY <1>1, <1>4, <3>1
  <2>2. \A i, j \in 1 .. Len(s) : s[i] = s[j] => i = j
    BY <1>1, <2>1
  <2>3. \A i, j \in 1 .. Len(t) : t[i] = t[j] => i = j
    <3>1. SUFFICES ASSUME NEW i \in 1 .. Len(t), NEW j \in 1 .. Len(t), t[i] = t[j] PROVE i = j
      OBVIOUS
    <3>0. Len(s) + i \in 1 .. Len(s) + Len(t) /\ Len(s) + j \in 1 .. Len(s) + Len(t)
      BY <1>1
    <3>2. PICK k \in 1 .. Len(s) + Len(t), l \in 1 .. Len(s) + Len(t) :
                k = Len(s) + i /\ l = Len(s) + j
      BY <3>0
    <3>3. z[k] = z[l]
      BY <1>1, <3>1, <3>2
    <3>4. k = l
      BY <2>1, <3>3
    <3>5. QED
      BY <1>1, <3>2, <3>4
  <2>4. \A i \in 1 .. Len(s), j \in 1 .. Len(t) : s[i] # t[j]
    <3>1. SUFFICES ASSUME NEW i \in 1 .. Len(s), NEW j \in 1 .. Len(t), s[i] = t[j] PROVE FALSE
      OBVIOUS
    <3>2. PICK k \in 1 .. Len(s) + Len(t) : k = Len(s) + j
      BY <1>1
    <3>3. z[i] = z[k] /\ i \in 1 .. Len(s) + Len(t)
      BY <1>1, <3>1, <3>2
    <3>4. i = k
      BY <2>1, <3>3
    <3>5. QED
      BY <1>1, <3>2, <3>4
  <2>5. QED
    BY <2>2, <2>3, <2>4, ElementsOf
<1>5. ASSUME IsInjective(s), IsInjective(t), ToSet(s) \intersect ToSet(t) = {}
      PROVE  IsInjective(z)
  <2>1. /\ \A i, j \in 1 .. Len(s) : s[i] = s[j] => i = j
        /\ \A i, j \in 1 .. Len(t) : t[i] = t[j] => i = j
        /\ \A i \in 1 .. Len(s), j \in 1 .. Len(t) : s[i] # t[j]
    BY <1>5, ElementsOf
  <2>2. SUFFICES ASSUME NEW i \in 1 .. Len(s) + Len(t), NEW j \in 1 .. Len(s) + Len(t),
                        z[i] = z[j]
                 PROVE  i = j
    BY <1>1, ElementsOf
  <2>3. CASE i \in 1 .. Len(s) /\ j \in 1 .. Len(s)
    BY <1>1, <2>1, <2>2, <2>3
  <2>4. ASSUME NEW k \in 1 .. Len(s), NEW l \in 1 .. Len(t) PROVE z[k] # z[Len(s) + l]
    <3>1. z[k] = s[k] /\ z[Len(s) + l] = t[l]
      BY <1>1
    <3>2. QED
      BY <2>1, <3>1
  <2>5. ASSUME NEW k \in 1 .. Len(t), NEW l \in 1 .. Len(t), z[Len(s) + k] = z[Len(s) + l]
        PROVE  k = l
    <3>1. z[Len(s) + k] = t[k] /\ z[Len(s) + l] = t[l]
      BY <1>1
    <3>2. QED
      BY <2>1, <2>5, <3>1
  <2>6. QED
    BY <1>2, <2>2, <2>3, <2>4, <2>5
<1>6. QED
  BY <1>0, <1>1, <1>3, <1>4, <1>5

\* An element appended.
LEMMA AppendElements ==
  ASSUME NEW T, NEW s \in Seq(T), NEW x \in T
  PROVE  /\ Append(s, x) \in Seq(T) /\ Len(Append(s, x)) = Len(s) + 1
         /\ ToSet(Append(s, x)) = ToSet(s) \union {x}
         /\ IsInjective(Append(s, x)) <=> IsInjective(s) /\ x \notin ToSet(s)
<1>0. PICK t : t = <<x>>
  OBVIOUS
<1>1. t \in Seq(T) /\ Len(t) = 1 /\ t[1] = x
  BY <1>0
<1>2. ToSet(t) = {x} /\ IsInjective(t)
  <2>1. /\ \A y : y \in ToSet(t) <=> \E i \in 1 .. 1 : y = t[i]
        /\ IsInjective(t) <=> \A i, j \in 1 .. 1 : t[i] = t[j] => i = j
    BY <1>1, ElementsOf
  <2>2. QED
    BY <1>1, <2>1
<1>3. Append(s, x) = s \o t
  BY <1>0, AppendIsConcat
<1>4. /\ s \o t \in Seq(T) /\ Len(s \o t) = Len(s) + Len(t)
      /\ ToSet(s \o t) = ToSet(s) \union ToSet(t)
      /\ IsInjective(s \o t) <=>
           IsInjective(s) /\ IsInjective(t) /\ ToSet(s) \intersect ToSet(t) = {}
  BY <1>1, ConcatElements
<1>5. PICK z : z = s \o t
  OBVIOUS
<1>6. QED
  BY <1>1, <1>2, <1>3, <1>4, <1>5

\* The first n elements of a sequence, and those after them.
FirstOf(s, n) == SubSeq(s, 1, n)
After(s, n) == SubSeq(s, n + 1, Len(s))

\* A sequence falls into its first n elements and the rest.
LEMMA Split ==
  ASSUME NEW s \in Seq(Entries), NEW n \in 0 .. Len(s)
  PROVE  /\ FirstOf(s, n) \in Seq(Entries) /\ Len(FirstOf(s, n)) = n
         /\ After(s, n) \in Seq(Entries) /\ Len(After(s, n)) = Len(s) - n
         /\ s = FirstOf(s, n) \o After(s, n)
<1>1. Len(s) \in Nat /\ \A i \in 1 .. Len(s) : s[i] \in Entries
  BY LenProperties, ElementOfSeq
<1>2. FirstOf(s, n) \in Seq(Entries) /\ Len(FirstOf(s, n)) = n
  BY <1>1, SubSeqProperties DEF FirstOf
<1>3. After(s, n) \in Seq(Entries) /\ Len(After(s, n)) = Len(s) - n
  BY <1>1, SubSeqProperties DEF After
<1>4. SubSeq(s, 1, n) \o SubSeq(s, n + 1, Len(s)) = SubSeq(s, 1, Len(s))
  <2>1. 1 \in 1 .. Len(s) + 1 /\ n \in 1 - 1 .. Len(s) /\ Len(s) \in n .. Len(s)
    BY <1>1
  <2>2. QED
    BY <2>1, ConcatAdjacentSubSeq
<1>5. SubSeq(s, 1, Len(s)) = s
  BY SubSeqFull
<1>6. s = FirstOf(s, n) \o After(s, n)
  BY <1>4, <1>5 DEF FirstOf, After
<1>7. QED
  BY <1>2, <1>3, <1>6

\* What follows the first r elements, when the sequence is continued.
LEMMA RestOfConcat ==
  ASSUME NEW s \in Seq(Entries), NEW t \in Seq(Entries), NEW r \in 0 .. Len(s)
  PROVE  After(s \o t, r) = After(s, r) \o t
<1>1. PICK a, b : a = FirstOf(s, r) /\ b = After(s, r)
  OBVIOUS
<1>2. a \in Seq(Entries) /\ Len(a) = r /\ b \in Seq(Entries) /\ s = a \o b
  BY <1>1, Split
<1>3. s \o t = a \o (b \o t) /\ b \o t \in Seq(Entries)
  BY <1>2, ConcatAssociative, ConcatProperties
<1>4. PICK c : c = b \o t
  OBVIOUS
<1>5. PICK z, y : z = a \o c /\ y = After(z, r)
  OBVIOUS
<1>6. /\ c \in Seq(Entries) /\ z \in Seq(Entries) /\ Len(z) = r + Len(c) /\ Len(c) \in Nat
      /\ \A i \in 1 .. Len(c) : z[r + i] = c[i]
  <2>1. c \in Seq(Entries) /\ Len(c) \in Nat
    BY <1>3, <1>4, LenProperties
  <2>2. z \in Seq(Entries) /\ Len(z) = Len(a) + Len(c)
    BY <1>2, <1>5, <2>1, ConcatProperties
  <2>3. ASSUME NEW i \in 1 .. Len(c) PROVE z[r + i] = c[i]
    <3>1. r + i \in 1 .. Len(a) + Len(c) /\ ~(r + i <= Len(a)) /\ (r + i) - Len(a) = i
      BY <1>2, <2>1
    <3>2. (a \o c)[r + i] = IF r + i <= Len(a) THEN a[r + i] ELSE c[(r + i) - Len(a)]
      BY <1>2, <2>1, <3>1, ConcatProperties
    <3>3. QED
      BY <1>5, <3>1, <3>2
  <2>4. QED
    BY <1>2, <2>1, <2>2, <2>3
<1>7. y \in Seq(Entries) /\ Len(y) = Len(c)
  <2>1. r \in 0 .. Len(z) /\ z \in Seq(Entries)
    BY <1>6
  <2>2. After(z, r) \in Seq(Entries) /\ Len(After(z, r)) = Len(z) - r
    BY <2>1, Split
  <2>3. QED
    BY <1>5, <1>6, <2>2
<1>8. \A i \in 1 .. Len(c) : y[i] = c[i]
  <2>1. SUFFICES ASSUME NEW i \in 1 .. Len(c) PROVE y[i] = c[i]
    OBVIOUS
  <2>2. /\ r + 1 \in Int /\ Len(z) \in Int /\ i \in 1 .. Len(z) - (r + 1) + 1
        /\ (r + 1) + i - 1 = r + i
    BY <1>6
  <2>3. \A j \in r + 1 .. Len(z) : z[j] \in Entries
    BY <1>6, ElementOfSeq
  <2>4. y[i] = z[(r + 1) + i - 1]
    BY <1>5, <2>2, <2>3, SubSeqProperties DEF After
  <2>5. QED
    BY <1>6, <2>2, <2>4
<1>9. y = c
  BY <1>6, <1>7, <1>8, SeqEqual
<1>10. QED
  BY <1>1, <1>3, <1>4, <1>5, <1>9


(***************************************************************************)
(* The inductive invariant of the ring.                                    *)
(***************************************************************************)

\* The operations before the kernel completed them, and those after, when
\* the thread has handled the first r entries of cq.
Pending == ToSet(sq) \union inflight
Rest(r) == After(cq, r)
Completed(r) == ToSet(Rest(r)) \union ToSet(backlog)

\* Each of them is there once.
PendingOnce == IsInjective(sq) /\ ToSet(sq) \intersect inflight = {}
CompletedOnce(r) ==
  /\ IsInjective(Rest(r)) /\ IsInjective(backlog)
  /\ ToSet(Rest(r)) \intersect ToSet(backlog) = {}

Suspended == {c \in Coros : st[c] = "suspended"}
Awaited(C) == {[coro |-> c, op |-> ops[c]] : c \in C}

\* What is under way is what the coroutines in C await.
Places(r, C) ==
  /\ Pending \union Completed(r) = Awaited(C)
  /\ Pending \intersect Completed(r) = {}
  /\ PendingOnce /\ CompletedOnce(r)

\* The thread waits only with a coroutine to wait for; it has handled no
\* completion outside its loop over them; and the kernel has no backlog
\* while the completion queue is empty and the thread blocks.
Passes ==
  /\ pc \in {"idle", "submit", "blocked"} => reaped = 0
  /\ pc \in {"submit", "blocked"} => Suspended # {}
  /\ until # None => st[until] # "new"
  /\ pc = "blocked" /\ backlog # <<>> => cq # <<>>

IoInv == TypeOK /\ OneOperationEach /\ Passes /\ WaitsForKernel

\* OneOperationEach in these terms.
LEMMA OneOperationIs == OneOperationEach <=> Places(reaped, Suspended)
BY DEF OneOperationEach, Places, Outstanding, Unhandled, Pending, Completed, Rest, After,
       PendingOnce, CompletedOnce, Suspended, Awaited

(***************************************************************************)
(* What the calls do to the operations.                                    *)
(***************************************************************************)

\* The rings have their types.
RingTypes ==
  /\ sq \in Seq(Entries) /\ Len(sq) <= Depth
  /\ inflight \in SUBSET Entries
  /\ cq \in Seq(Entries) /\ Len(cq) <= CqSize
  /\ backlog \in Seq(Entries)

\* The kernel moves completions from the backlog to the queue: none is lost,
\* and the queue is not empty if any stays behind.
LEMMA Moves ==
  ASSUME RingTypes, MoveBacklog, NEW r \in 0 .. Len(cq)
  PROVE  /\ cq' \in Seq(Entries) /\ Len(cq') <= CqSize /\ backlog' \in Seq(Entries)
         /\ r \in 0 .. Len(cq')
         /\ backlog' # <<>> => cq' # <<>>
         /\ Completed(r)' = Completed(r)
         /\ CompletedOnce(r) => CompletedOnce(r)'
<1> USE IoAssumption
<1>1. Len(cq) \in Nat /\ Len(backlog) \in Nat /\ CqSize \in Nat \ {0} /\ Len(cq) <= CqSize
  BY LenProperties DEF RingTypes
<1>2. PICK n : n = Moved
  OBVIOUS
<1>3. n \in 0 .. Len(backlog) /\ n <= CqSize - Len(cq)
      /\ (n = CqSize - Len(cq) \/ n = Len(backlog))
  BY <1>1, <1>2 DEF Moved, Room
<1>4. PICK a, b : a = FirstOf(backlog, n) /\ b = After(backlog, n)
  OBVIOUS
<1>5. /\ a \in Seq(Entries) /\ Len(a) = n /\ b \in Seq(Entries) /\ Len(b) = Len(backlog) - n
      /\ backlog = a \o b
  <2>1. n \in 0 .. Len(backlog)
    BY <1>3
  <2>2. backlog \in Seq(Entries)
    BY DEF RingTypes
  <2>3. QED
    BY <1>4, <2>1, <2>2, Split
<1>6. cq' = cq \o a /\ backlog' = b
  BY <1>2, <1>4 DEF MoveBacklog, FirstOf, After
<1>7. cq' \in Seq(Entries) /\ Len(cq') = Len(cq) + n
  BY <1>5, <1>6, ConcatProperties DEF RingTypes
<1>8. backlog' # <<>> => cq' # <<>>
  <2>1. SUFFICES ASSUME backlog' # <<>> PROVE cq' # <<>>
    OBVIOUS
  <2>2. Len(b) # 0
    BY <1>5, <1>6, <2>1, EmptySeq
  <2>3. Len(cq') = CqSize
    BY <1>1, <1>3, <1>5, <1>7, <2>2
  <2>4. QED
    BY <1>1, <2>3, EmptySeq
<1>9. Rest(r)' = Rest(r) \o a
  BY <1>5, <1>6, RestOfConcat DEF Rest, RingTypes
<1>10. Rest(r) \in Seq(Entries)
  BY Split DEF Rest, RingTypes
<1>11. PICK u : u = Rest(r)
  OBVIOUS
<1>12. /\ ToSet(u \o a) = ToSet(u) \union ToSet(a)
       /\ IsInjective(u \o a) <=>
            IsInjective(u) /\ IsInjective(a) /\ ToSet(u) \intersect ToSet(a) = {}
  BY <1>5, <1>10, <1>11, ConcatElements
<1>13. /\ ToSet(a \o b) = ToSet(a) \union ToSet(b)
       /\ IsInjective(a \o b) <=>
            IsInjective(a) /\ IsInjective(b) /\ ToSet(a) \intersect ToSet(b) = {}
  BY <1>5, ConcatElements
<1>14. Completed(r)' = Completed(r)
  BY <1>5, <1>6, <1>9, <1>11, <1>12, <1>13 DEF Completed
<1>15. CompletedOnce(r) => CompletedOnce(r)'
  BY <1>5, <1>6, <1>9, <1>11, <1>12, <1>13 DEF CompletedOnce
<1>16. QED
  BY <1>1, <1>3, <1>5, <1>6, <1>7, <1>8, <1>14, <1>15

\* A submission: entries go to the kernel or stay where they are.
LEMMA Submits ==
  ASSUME RingTypes, Submit, NEW r \in 0 .. Len(cq)
  PROVE  /\ RingTypes' /\ r \in 0 .. Len(cq')
         /\ backlog' # <<>> => cq' # <<>>
         /\ Pending' = Pending /\ Completed(r)' = Completed(r)
         /\ PendingOnce => PendingOnce'
         /\ CompletedOnce(r) => CompletedOnce(r)'
<1> USE IoAssumption
<1>1. /\ cq' \in Seq(Entries) /\ Len(cq') <= CqSize /\ backlog' \in Seq(Entries)
      /\ r \in 0 .. Len(cq')
      /\ backlog' # <<>> => cq' # <<>>
      /\ Completed(r)' = Completed(r)
      /\ CompletedOnce(r) => CompletedOnce(r)'
  BY Moves DEF Submit
<1>2. CASE UNCHANGED <<sq, inflight>>
  BY <1>1, <1>2 DEF RingTypes, Pending, PendingOnce
<1>3. CASE TakeEntries
  <2>1. sq' = <<>> /\ inflight' = inflight \union ToSet(sq) /\ ToSet(sq) \subseteq Entries
    BY <1>3, ElementsOf DEF TakeEntries, RingTypes
  <2>2. /\ <<>> \in Seq(Entries) /\ Len(<<>>) = 0 /\ ToSet(<<>>) = {} /\ IsInjective(<<>>)
    BY EmptySeq DEF ToSet, IsInjective
  <2>3. RingTypes'
    BY <1>1, <2>1, <2>2 DEF RingTypes
  <2>4. Pending' = Pending /\ PendingOnce'
    BY <2>1, <2>2 DEF Pending, PendingOnce
  <2>5. QED
    BY <1>1, <2>3, <2>4
<1>4. QED
  BY <1>2, <1>3 DEF Submit, Refuse

\* get_sqe, also through a full queue: one operation more is under way.
LEMMA GetsSqe ==
  ASSUME RingTypes, NEW e \in Entries, GetSqe(e), NEW r \in 0 .. Len(cq)
  PROVE  /\ RingTypes' /\ r \in 0 .. Len(cq')
         /\ Pending' = Pending \union {e} /\ Completed(r)' = Completed(r)
         /\ PendingOnce /\ e \notin Pending => PendingOnce'
         /\ CompletedOnce(r) => CompletedOnce(r)'
<1> USE IoAssumption
<1>1. Len(sq) \in Nat
  BY LenProperties DEF RingTypes
<1>2. CASE Len(sq) < Depth /\ sq' = Append(sq, e) /\ UNCHANGED <<inflight, cq, backlog>>
  <2>1. /\ Append(sq, e) \in Seq(Entries) /\ Len(Append(sq, e)) = Len(sq) + 1
        /\ ToSet(Append(sq, e)) = ToSet(sq) \union {e}
        /\ IsInjective(Append(sq, e)) <=> IsInjective(sq) /\ e \notin ToSet(sq)
    BY AppendElements DEF RingTypes
  <2>2. RingTypes'
    BY <1>1, <1>2, <2>1 DEF RingTypes
  <2>3. Pending' = Pending \union {e} /\ (PendingOnce /\ e \notin Pending => PendingOnce')
    BY <1>2, <2>1 DEF Pending, PendingOnce
  <2>4. Completed(r)' = Completed(r) /\ (CompletedOnce(r) => CompletedOnce(r)')
    BY <1>2 DEF Completed, CompletedOnce, Rest
  <2>5. QED
    BY <1>2, <2>2, <2>3, <2>4
<1>3. CASE MoveBacklog /\ inflight' = inflight \union ToSet(sq) /\ sq' = <<e>>
  <2>1. /\ cq' \in Seq(Entries) /\ Len(cq') <= CqSize /\ backlog' \in Seq(Entries)
        /\ r \in 0 .. Len(cq')
        /\ Completed(r)' = Completed(r)
        /\ CompletedOnce(r) => CompletedOnce(r)'
    BY <1>3, Moves
  <2>2. PICK s : s = <<>>
    OBVIOUS
  <2>3. s \in Seq(Entries) /\ Len(s) = 0 /\ ToSet(s) = {} /\ IsInjective(s)
    BY <2>2, EmptySeq DEF ToSet, IsInjective
  <2>4. PICK t : t = Append(s, e)
    OBVIOUS
  <2>5. /\ sq' = t /\ t \in Seq(Entries) /\ Len(t) = 1 /\ ToSet(t) = {e} /\ IsInjective(t)
    <3>1. sq' = t
      BY <1>3, <2>2, <2>4
    <3>2. /\ t \in Seq(Entries) /\ Len(t) = Len(s) + 1
          /\ ToSet(t) = ToSet(s) \union {e}
          /\ IsInjective(t) <=> IsInjective(s) /\ e \notin ToSet(s)
      <4>1. e \in Entries
        OBVIOUS
      <4>2. QED
        <5>1. /\ Append(s, e) \in Seq(Entries) /\ Len(Append(s, e)) = Len(s) + 1
              /\ ToSet(Append(s, e)) = ToSet(s) \union {e}
              /\ IsInjective(Append(s, e)) <=> IsInjective(s) /\ e \notin ToSet(s)
          BY <2>3, <4>1, AppendElements
        <5>2. QED
          BY <2>4, <5>1
    <3>3. QED
      BY <2>3, <3>1, <3>2
  <2>6. ToSet(sq) \subseteq Entries
    BY ElementsOf DEF RingTypes
  <2>7. RingTypes'
    BY <1>3, <2>1, <2>5, <2>6 DEF RingTypes
  <2>8. Pending' = Pending \union {e} /\ (e \notin Pending => PendingOnce')
    BY <1>3, <2>5 DEF Pending, PendingOnce
  <2>9. QED
    BY <2>1, <2>7, <2>8
<1>4. QED
  BY <1>2, <1>3 DEF GetSqe

\* The kernel completes an operation.
LEMMA Completes ==
  ASSUME RingTypes, NEW e \in inflight, Complete(e), NEW r \in 0 .. Len(cq), PendingOnce
  PROVE  /\ RingTypes' /\ r \in 0 .. Len(cq')
         /\ Pending' = Pending \ {e} /\ Completed(r)' = Completed(r) \union {e}
         /\ PendingOnce'
         /\ CompletedOnce(r) /\ e \notin Completed(r) => CompletedOnce(r)'
         /\ cq' # <<>> \/ backlog # <<>>
         /\ cq # <<>> => cq' # <<>>
<1> USE IoAssumption
<1>1. inflight' = inflight \ {e} /\ sq' = sq /\ e \in Entries /\ Len(cq) \in Nat
  BY LenProperties DEF Complete, RingTypes
<1>2. Pending' = Pending \ {e} /\ PendingOnce'
  BY <1>1 DEF Pending, PendingOnce
<1>3. PICK u : u = Rest(r)
  OBVIOUS
<1>4. u \in Seq(Entries)
  BY <1>3, Split DEF Rest, RingTypes
<1>5. CASE Room > 0 /\ cq' = Append(cq, e) /\ UNCHANGED backlog
  <2>1. PICK t : t = Append(<<>>, e)
    OBVIOUS
  <2>2. /\ t \in Seq(Entries) /\ t = <<e>>
    BY <1>1, <2>1
  <2>3. cq' = cq \o t
    BY <1>1, <1>5, <2>2, AppendIsConcat DEF RingTypes
  <2>4. Rest(r)' = u \o t
    BY <1>3, <2>2, <2>3, RestOfConcat DEF Rest, RingTypes
  <2>5. u \o t = Append(u, e)
    BY <1>1, <1>4, <2>2, AppendIsConcat
  <2>6. /\ ToSet(Append(u, e)) = ToSet(u) \union {e}
        /\ IsInjective(Append(u, e)) <=> IsInjective(u) /\ e \notin ToSet(u)
    BY <1>1, <1>4, AppendElements
  <2>7. cq' \in Seq(Entries) /\ Len(cq') = Len(cq) + 1
    BY <1>1, <1>5, AppendElements DEF RingTypes
  <2>8. RingTypes' /\ r \in 0 .. Len(cq') /\ cq' # <<>>
    BY <1>1, <1>5, <2>7, EmptySeq DEF RingTypes, Room
  <2>9. Completed(r)' = Completed(r) \union {e}
    BY <1>3, <1>5, <2>4, <2>5, <2>6 DEF Completed
  <2>10. CompletedOnce(r) /\ e \notin Completed(r) => CompletedOnce(r)'
    BY <1>3, <1>5, <2>4, <2>5, <2>6 DEF Completed, CompletedOnce
  <2>11. QED
    BY <1>2, <2>8, <2>9, <2>10
<1>6. CASE (Room = 0 \/ backlog # <<>>) /\ backlog' = Append(backlog, e) /\ UNCHANGED cq
  <2>1. /\ Append(backlog, e) \in Seq(Entries)
        /\ ToSet(Append(backlog, e)) = ToSet(backlog) \union {e}
        /\ IsInjective(Append(backlog, e)) <=> IsInjective(backlog) /\ e \notin ToSet(backlog)
    BY <1>1, AppendElements DEF RingTypes
  <2>2. RingTypes' /\ r \in 0 .. Len(cq')
    BY <1>1, <1>6, <2>1 DEF RingTypes
  <2>3. Rest(r)' = Rest(r)
    BY <1>6 DEF Rest
  <2>4. Completed(r)' = Completed(r) \union {e}
    BY <1>6, <2>1, <2>3 DEF Completed
  <2>5. CompletedOnce(r) /\ e \notin Completed(r) => CompletedOnce(r)'
    BY <1>6, <2>1, <2>3 DEF Completed, CompletedOnce
  <2>6. cq' # <<>> \/ backlog # <<>>
    <3>1. Room = 0 => Len(cq) # 0
      BY <1>1 DEF Room
    <3>2. QED
      BY <1>6, <3>1, EmptySeq DEF RingTypes
  <2>7. QED
    BY <1>2, <1>6, <2>2, <2>4, <2>5, <2>6
<1>7. QED
  BY <1>5, <1>6 DEF Complete


\* The thread takes the next completion in its loop.
LEMMA Handles ==
  ASSUME RingTypes, NEW r \in 0 .. Len(cq), r < Len(cq), CompletedOnce(r)
  PROVE  /\ r + 1 \in 0 .. Len(cq) /\ cq[r + 1] \in Entries
         /\ Completed(r) = Completed(r + 1) \union {cq[r + 1]}
         /\ cq[r + 1] \notin Completed(r + 1)
         /\ CompletedOnce(r + 1)
<1>1. Len(cq) \in Nat /\ r + 1 \in 1 .. Len(cq) /\ r + 1 \in 0 .. Len(cq)
      /\ Len(cq) \in r + 1 .. Len(cq) /\ cq[r + 1] \in Entries
  BY LenProperties, ElementOfSeq DEF RingTypes
<1>2. Rest(r) = <<cq[r + 1]>> \o Rest(r + 1)
  BY <1>1, SubSeqRecursiveFirst DEF Rest, After, RingTypes
<1>3. PICK e : e = cq[r + 1]
  OBVIOUS
<1>4. PICK v : v = Rest(r + 1)
  OBVIOUS
<1>5. v \in Seq(Entries)
  BY <1>1, <1>4, Split DEF Rest, RingTypes
<1>6. PICK t : t = <<e>>
  OBVIOUS
<1>7. /\ t \in Seq(Entries) /\ ToSet(t) = {e}
  <2>1. t \in Seq(Entries) /\ Len(t) = 1 /\ t[1] = e
    BY <1>1, <1>3, <1>6
  <2>2. \A x : x \in ToSet(t) <=> \E i \in 1 .. Len(t) : x = t[i]
    BY <2>1, ElementsOf
  <2>3. \A x : x \in ToSet(t) <=> x = e
    BY <2>1, <2>2
  <2>4. QED
    BY <2>1, <2>3
<1>8. Rest(r) = t \o v
  BY <1>2, <1>3, <1>4, <1>6
<1>9. /\ ToSet(t \o v) = ToSet(t) \union ToSet(v)
      /\ IsInjective(t \o v) <=>
           IsInjective(t) /\ IsInjective(v) /\ ToSet(t) \intersect ToSet(v) = {}
  BY <1>5, <1>7, ConcatElements
<1>10. QED
  BY <1>1, <1>3, <1>4, <1>7, <1>8, <1>9 DEF Completed, CompletedOnce

\* The entries the thread has handled are given back to the kernel.
LEMMA Advances ==
  ASSUME RingTypes, Advance, NEW r \in 0 .. Len(cq), r = reaped
  PROVE  /\ RingTypes' /\ reaped' = 0
         /\ Pending' = Pending /\ Completed(0)' = Completed(r)
         /\ PendingOnce => PendingOnce'
         /\ CompletedOnce(r) => CompletedOnce(0)'
<1>1. cq' = Rest(r) /\ reaped' = 0 /\ UNCHANGED <<sq, inflight, backlog>>
  BY DEF Advance, Rest, After
<1>2. PICK u : u = Rest(r)
  OBVIOUS
<1>3. Len(cq) \in Nat /\ u \in Seq(Entries) /\ Len(u) = Len(cq) - r
  BY <1>2, LenProperties, Split DEF Rest, RingTypes
<1>4. Rest(0)' = u
  BY <1>1, <1>2, <1>3, SubSeqFull DEF Rest, After
<1>5. RingTypes'
  BY <1>1, <1>2, <1>3, IoAssumption DEF RingTypes
<1>6. QED
  BY <1>1, <1>2, <1>4, <1>5 DEF Completed, CompletedOnce, Pending, PendingOnce

\* Awaited, pointwise.
LEMMA AwaitedIs ==
  ASSUME NEW C \in SUBSET Coros
  PROVE  \A e : e \in Awaited(C) <=> \E c \in C : e = [coro |-> c, op |-> ops[c]]
BY DEF Awaited

\* The coroutines have their types.
CoroTypes == st \in [Coros -> {"new", "suspended", "done"}] /\ ops \in [Coros -> 0 .. MaxOps]

\* A coroutine of which nothing is under way runs: it ends, or starts one
\* operation and suspends.
LEMMA Runs ==
  ASSUME RingTypes, CoroTypes, NEW c \in Coros, Run(c),
         NEW r \in 0 .. Len(cq), Places(r, Suspended \ {c})
  PROVE  /\ RingTypes' /\ CoroTypes' /\ r \in 0 .. Len(cq')
         /\ Places(r, Suspended)'
         /\ \A d \in Coros : d # c => st'[d] = st[d] /\ ops'[d] = ops[d]
         /\ Completed(r)' = Completed(r)
         /\ \/ /\ st'[c] = "done" /\ ops'[c] = ops[c] /\ Pending' = Pending
            \/ /\ st'[c] = "suspended" /\ ops'[c] = ops[c] + 1 /\ ops[c] < MaxOps
               /\ Pending' = Pending \union {[coro |-> c, op |-> ops[c] + 1]}
<1> USE IoAssumption
<1>1. \A e \in Awaited(Suspended \ {c}) : \E d \in Coros \ {c} : e = [coro |-> d, op |-> ops[d]]
  BY DEF Suspended, Awaited
<1>2. CASE st' = [st EXCEPT ![c] = "done"] /\ UNCHANGED <<ringVars, ops>>
  <2>1. UNCHANGED <<sq, inflight, cq, backlog, ops>>
    BY <1>2 DEF ringVars
  <2>2. st'[c] = "done" /\ \A d \in Coros : d # c => st'[d] = st[d]
    BY <1>2 DEF CoroTypes
  <2>3. Suspended' = Suspended \ {c}
    BY <2>2 DEF Suspended
  <2>4. RingTypes' /\ CoroTypes'
    BY <1>2, <2>1 DEF RingTypes, CoroTypes
  <2>5. Pending' = Pending /\ Completed(r)' = Completed(r)
    BY <2>1 DEF Pending, Completed, Rest
  <2>6. Places(r, Suspended)'
    BY <2>1, <2>3 DEF Places, Pending, Completed, Rest, PendingOnce, CompletedOnce, Awaited
  <2>7. QED
    BY <2>1, <2>2, <2>4, <2>5, <2>6
<1>3. CASE AwaitOperation(c)
  <2>1. PICK e : e = [coro |-> c, op |-> ops[c] + 1]
    OBVIOUS
  <2>2. /\ ops[c] < MaxOps /\ GetSqe(e) /\ st' = [st EXCEPT ![c] = "suspended"]
        /\ ops' = [ops EXCEPT ![c] = ops[c] + 1]
    BY <1>3, <2>1 DEF AwaitOperation
  <2>3. e \in Entries /\ ops[c] + 1 \in 0 .. MaxOps
    BY <2>1, <2>2 DEF Entries, CoroTypes
  <2>4. /\ st'[c] = "suspended" /\ ops'[c] = ops[c] + 1
        /\ \A d \in Coros : d # c => st'[d] = st[d] /\ ops'[d] = ops[d]
    BY <2>2 DEF CoroTypes
  <2>5. CoroTypes'
    BY <2>2, <2>3 DEF CoroTypes
  <2>6. e \notin Awaited(Suspended \ {c})
    BY <1>1, <2>1
  <2>7. e \notin Pending /\ e \notin Completed(r)
    BY <2>6 DEF Places
  <2>8. /\ RingTypes' /\ r \in 0 .. Len(cq')
        /\ Pending' = Pending \union {e} /\ Completed(r)' = Completed(r)
        /\ PendingOnce' /\ CompletedOnce(r)'
    BY <2>2, <2>3, <2>7, GetsSqe DEF Places
  <2>9. Suspended' = (Suspended \ {c}) \union {c}
    BY <2>4 DEF Suspended
  <2>10. Awaited(Suspended)' = Awaited(Suspended \ {c}) \union {e}
    <3>1. \A x : x \in Awaited(Suspended)' <=> \E d \in Suspended' : x = [coro |-> d, op |-> ops'[d]]
      BY DEF Awaited
    <3>2. \A x : x \in Awaited(Suspended \ {c}) <=>
                   \E d \in Suspended \ {c} : x = [coro |-> d, op |-> ops[d]]
      BY DEF Awaited
    <3>3. \A d \in Suspended \ {c} : ops'[d] = ops[d]
      BY <2>4 DEF Suspended
    <3>4. [coro |-> c, op |-> ops'[c]] = e
      BY <2>1, <2>4
    <3>5. ASSUME NEW d \in Suspended'
          PROVE  [coro |-> d, op |-> ops'[d]] \in Awaited(Suspended \ {c}) \union {e}
      <4>1. CASE d = c
        BY <3>4, <4>1
      <4>2. CASE d # c
        BY <2>9, <3>2, <3>3, <4>2
      <4>3. QED
        BY <4>1, <4>2
    <3>6. ASSUME NEW d \in Suspended \ {c}
          PROVE  [coro |-> d, op |-> ops[d]] \in Awaited(Suspended)'
      <4>1. d \in Suspended' /\ ops'[d] = ops[d]
        BY <2>9, <3>3
      <4>2. QED
        BY <3>1, <4>1
    <3>7. e \in Awaited(Suspended)'
      BY <2>9, <3>1, <3>4
    <3>8. ASSUME NEW x \in Awaited(Suspended)' PROVE x \in Awaited(Suspended \ {c}) \union {e}
      <4>1. PICK d \in Suspended' : x = [coro |-> d, op |-> ops'[d]]
        BY <3>1, <3>8
      <4>2. QED
        BY <3>5, <4>1
    <3>9. ASSUME NEW x \in Awaited(Suspended \ {c}) PROVE x \in Awaited(Suspended)'
      BY <3>2, <3>6
    <3>10. QED
      BY <3>7, <3>8, <3>9
  <2>11. Places(r, Suspended)'
    BY <2>7, <2>8, <2>10 DEF Places
  <2>12. QED
    BY <2>1, <2>2, <2>4, <2>5, <2>8, <2>11
<1>4. QED
  BY <1>2, <1>3 DEF Run


(***************************************************************************)
(* The steps of the ring.                                                  *)
(***************************************************************************)

\* The invariant before a step, and after it, with the value of reaped.
LEMMA PlacedNow ==
  ASSUME OneOperationEach, NEW r, r = reaped
  PROVE  Places(r, Suspended)
BY OneOperationIs

LEMMA PlacedNext ==
  ASSUME NEW r, reaped' = r, Places(r, Suspended)'
  PROVE  OneOperationEach'
<1>1. Places(reaped, Suspended)'
  BY DEF Places, Completed, CompletedOnce, Rest
<1>2. QED
  BY <1>1 DEF OneOperationEach, Places, Outstanding, Unhandled, Pending, Completed, Rest, After,
              PendingOnce, CompletedOnce, Suspended, Awaited

\* Initially nothing is under way.
LEMMA InitIo == Init => IoInv
<1> SUFFICES ASSUME Init PROVE IoInv
  OBVIOUS
<1> USE IoAssumption
<1>1. /\ sq = <<>> /\ inflight = {} /\ cq = <<>> /\ backlog = <<>> /\ reaped = 0
      /\ pc = "idle" /\ until = None /\ \A c \in Coros : st[c] = "new"
  BY DEF Init
<1>2. <<>> \in Seq(Entries) /\ Len(<<>>) = 0 /\ ToSet(<<>>) = {} /\ IsInjective(<<>>)
  BY EmptySeq DEF ToSet, IsInjective
<1>3. TypeOK
  <2>1. /\ st \in [Coros -> {"new", "suspended", "done"}]
        /\ ops \in [Coros -> 0 .. MaxOps] /\ result \in [Coros -> 0 .. MaxOps]
    BY DEF Init
  <2>2. QED
    BY <1>1, <1>2, <2>1 DEF TypeOK
<1>4. SubSeq(cq, reaped + 1, Len(cq)) = <<>>
  BY <1>1, <1>2, SubSeqEmpty
<1>5. OneOperationEach
  BY <1>1, <1>2, <1>4 DEF OneOperationEach, Outstanding, Unhandled
<1>6. QED
  BY <1>1, <1>3, <1>5 DEF IoInv, Passes, WaitsForKernel

\* The types, taken apart.
LEMMA IoTypes ==
  TypeOK <=> /\ RingTypes /\ CoroTypes
             /\ reaped \in 0 .. Len(cq)
             /\ pc \in {"idle", "submit", "blocked", "reap", "advance", "crashed"}
             /\ until \in Coros \union {None}
             /\ result \in [Coros -> 0 .. MaxOps]
BY DEF TypeOK, RingTypes, CoroTypes

\* A coroutine is resumed for the first time.
LEMMA StartStep ==
  ASSUME IoInv, NEW c \in Coros, Start(c)
  PROVE  IoInv'
<1> USE IoAssumption
<1> USE IoTypes DEF IoInv
<1>1. PICK r : r = reaped
  OBVIOUS
<1>2. /\ pc = "idle" /\ st[c] = "new" /\ Run(c) /\ UNCHANGED <<reaped, result>>
      /\ \/ UNCHANGED <<pc, until>>
         \/ st'[c] = "suspended" /\ until' = c /\ pc' = "submit"
  BY DEF Start
<1>3. r \in 0 .. Len(cq) /\ r = 0 /\ reaped' = 0
  BY <1>1, <1>2 DEF Passes
<1>4. Suspended \ {c} = Suspended
  BY <1>2 DEF Suspended
<1>5. Places(r, Suspended \ {c})
  BY <1>1, <1>4, PlacedNow
<1>6. /\ RingTypes' /\ CoroTypes' /\ r \in 0 .. Len(cq')
      /\ Places(r, Suspended)'
      /\ \A d \in Coros : d # c => st'[d] = st[d]
      /\ st'[c] \in {"done", "suspended"}
  BY <1>2, <1>3, <1>5, Runs
<1>7. TypeOK'
  BY <1>2, <1>3, <1>6 DEF TypeOK, RingTypes, CoroTypes
<1>8. OneOperationEach'
  BY <1>1, <1>2, <1>6, PlacedNext
<1>9. Passes' /\ WaitsForKernel'
  BY <1>2, <1>3, <1>6 DEF Passes, WaitsForKernel, Suspended
<1>10. QED
  BY <1>7, <1>8, <1>9

\* What is under way after the next completion was taken.
LEMMA TakesNext ==
  ASSUME RingTypes, CoroTypes, NEW r \in 0 .. Len(cq), r < Len(cq), Places(r, Suspended)
  PROVE  LET e == cq[r + 1] IN
         /\ r + 1 \in 0 .. Len(cq) /\ e.coro \in Coros /\ st[e.coro] = "suspended"
         /\ e = [coro |-> e.coro, op |-> ops[e.coro]] /\ e.op \in 0 .. MaxOps
         /\ Places(r + 1, Suspended \ {e.coro})
         /\ Completed(r) = Completed(r + 1) \union {e} /\ e \notin Completed(r + 1)
<1>1. PICK e : e = cq[r + 1]
  OBVIOUS
<1>2. /\ r + 1 \in 0 .. Len(cq) /\ e \in Entries
      /\ Completed(r) = Completed(r + 1) \union {e}
      /\ e \notin Completed(r + 1)
      /\ CompletedOnce(r + 1)
  BY <1>1, Handles DEF Places
<1>3. e \in Awaited(Suspended)
  BY <1>2 DEF Places
<1>4. PICK c \in Suspended : e = [coro |-> c, op |-> ops[c]]
  BY <1>3 DEF Awaited
<1>5. c \in Coros /\ st[c] = "suspended" /\ e.coro = c /\ e.op = ops[c] /\ e.op \in 0 .. MaxOps
  BY <1>4 DEF Suspended, CoroTypes
<1>6. Awaited(Suspended \ {c}) = Awaited(Suspended) \ {e}
  <2>1. \A x \in Awaited(Suspended \ {c}) : x \in Awaited(Suspended) /\ x # e
    BY <1>4 DEF Awaited
  <2>2. \A x \in Awaited(Suspended) \ {e} : x \in Awaited(Suspended \ {c})
    BY <1>4 DEF Awaited
  <2>3. QED
    BY <2>1, <2>2
<1>7. Places(r + 1, Suspended \ {c})
  BY <1>2, <1>6 DEF Places
<1>8. QED
  BY <1>1, <1>2, <1>4, <1>5, <1>7

\* The thread handles a completion: its coroutine gets the result and runs.
LEMMA ReapStep ==
  ASSUME IoInv, Reap
  PROVE  IoInv'
<1> USE IoAssumption
<1> USE IoTypes DEF IoInv
<1>1. PICK r : r = reaped
  OBVIOUS
<1>2. PICK e : e = cq[r + 1]
  OBVIOUS
<1>3. /\ pc = "reap" /\ r < Len(cq) /\ result' = [result EXCEPT ![e.coro] = e.op]
      /\ reaped' = r + 1 /\ Run(e.coro) /\ UNCHANGED <<pc, until>>
  BY <1>1, <1>2 DEF Reap
<1>4. Places(r, Suspended)
  BY <1>1, PlacedNow
<1>5. /\ r + 1 \in 0 .. Len(cq) /\ e.coro \in Coros /\ st[e.coro] = "suspended"
      /\ e.op \in 0 .. MaxOps
      /\ Places(r + 1, Suspended \ {e.coro})
  BY <1>1, <1>2, <1>3, <1>4, TakesNext
<1>6. PICK q : q = r + 1
  OBVIOUS
<1>7. /\ RingTypes' /\ CoroTypes' /\ q \in 0 .. Len(cq')
      /\ Places(q, Suspended)'
      /\ \A d \in Coros : d # e.coro => st'[d] = st[d]
      /\ st'[e.coro] \in {"done", "suspended"}
  BY <1>3, <1>5, <1>6, Runs
<1>8. TypeOK'
  <2>1. result' \in [Coros -> 0 .. MaxOps]
    BY <1>3, <1>5
  <2>2. QED
    BY <1>3, <1>6, <1>7, <2>1 DEF TypeOK, RingTypes, CoroTypes
<1>9. OneOperationEach'
  BY <1>3, <1>6, <1>7, PlacedNext
<1>10. Passes' /\ WaitsForKernel'
  BY <1>3, <1>5, <1>7 DEF Passes, WaitsForKernel
<1>11. QED
  BY <1>8, <1>9, <1>10


\* The thread submits, before it waits or in a pass that does not wait, or
\* meets a full queue that the kernel does not empty.
LEMMA SubmitStep ==
  ASSUME IoInv, CallConsume \/ SubmitAndWait \/ NullEntry
  PROVE  IoInv'
<1> USE IoAssumption
<1> USE IoTypes DEF IoInv
<1>1. /\ Submit /\ UNCHANGED <<reaped, until, st, ops, result>>
      /\ pc' \in {"reap", "blocked", "crashed"}
      /\ pc' = "blocked" => pc = "submit" /\ sq' = <<>>
  BY DEF CallConsume, SubmitAndWait, NullEntry, GetsNoSqe, Submit, coroVars
<1>2. PICK r : r = reaped
  OBVIOUS
<1>3. /\ RingTypes' /\ r \in 0 .. Len(cq')
      /\ backlog' # <<>> => cq' # <<>>
      /\ Pending' = Pending /\ Completed(r)' = Completed(r)
      /\ PendingOnce => PendingOnce'
      /\ CompletedOnce(r) => CompletedOnce(r)'
  BY <1>1, <1>2, Submits
<1>4. Suspended' = Suspended /\ Awaited(Suspended)' = Awaited(Suspended)
  BY <1>1 DEF Suspended, Awaited
<1>5. Places(r, Suspended)
  BY <1>2, PlacedNow
<1>6. Places(r, Suspended)'
  BY <1>3, <1>4, <1>5 DEF Places
<1>7. OneOperationEach'
  BY <1>1, <1>2, <1>6, PlacedNext
<1>8. TypeOK'
  BY <1>1, <1>2, <1>3 DEF TypeOK, RingTypes, CoroTypes
<1>9. Passes'
  BY <1>1, <1>3, <1>4 DEF Passes
<1>10. WaitsForKernel'
  <2>1. SUFFICES ASSUME pc' = "blocked" PROVE sq' = <<>> /\ (inflight' # {} \/ cq' # <<>>)
    BY DEF WaitsForKernel
  <2>2. PICK c \in Coros : st[c] = "suspended"
    BY <1>1, <2>1 DEF Passes, Suspended
  <2>3. [coro |-> c, op |-> ops[c]] \in Pending' \union Completed(r)'
    BY <1>3, <1>5, <2>2 DEF Places, Awaited, Suspended
  <2>4. sq' = <<>> /\ ToSet(sq') = {}
    BY <1>1, <2>1 DEF ToSet
  <2>5. CASE inflight' = {} /\ cq' = <<>>
    <3>1. backlog' = <<>> /\ ToSet(backlog') = {}
      BY <1>3, <2>5 DEF ToSet
    <3>2. r = 0 /\ Len(cq') = 0
      BY <1>1, <1>2, <2>1, <2>5 DEF Passes
    <3>3. Rest(r)' = <<>>
      BY <3>2, SubSeqEmpty DEF Rest, After
    <3>4. ToSet(Rest(r)') = {}
      BY <3>3 DEF ToSet
    <3>5. Pending' = {} /\ Completed(r)' = {}
      BY <2>4, <2>5, <3>1, <3>4 DEF Pending, Completed
    <3>6. QED
      BY <2>3, <3>5
  <2>6. QED
    BY <2>4, <2>5
<1>11. QED
  BY <1>7, <1>8, <1>9, <1>10

\* The pass ends, and the next one begins if run_task goes on.
LEMMA AdvanceStep ==
  ASSUME IoInv, Advance
  PROVE  IoInv'
<1> USE IoAssumption
<1> USE IoTypes DEF IoInv
<1>1. /\ UNCHANGED <<st, ops, result>>
      /\ \/ pc' = "idle" /\ until' = None
         \/ pc' = "submit" /\ until' = until /\ until # None /\ st[until] # "done"
  BY DEF Advance, Returns, coroVars
<1>2. PICK r : r = reaped
  OBVIOUS
<1>3. Places(r, Suspended) /\ r \in 0 .. Len(cq)
  BY <1>2, PlacedNow
<1>4. /\ RingTypes' /\ reaped' = 0
      /\ Pending' = Pending /\ Completed(0)' = Completed(r)
      /\ PendingOnce' /\ CompletedOnce(0)'
  BY <1>2, <1>3, Advances DEF Places
<1>5. Suspended' = Suspended /\ Awaited(Suspended)' = Awaited(Suspended)
  BY <1>1 DEF Suspended, Awaited
<1>6. Places(0, Suspended)'
  BY <1>3, <1>4, <1>5 DEF Places
<1>7. OneOperationEach'
  BY <1>4, <1>6, PlacedNext
<1>8. TypeOK'
  <2>1. Len(cq') \in Nat
    BY <1>4, LenProperties DEF RingTypes
  <2>2. QED
    BY <1>1, <1>4, <2>1 DEF TypeOK, RingTypes, CoroTypes
<1>9. pc' = "submit" => until \in Suspended
  BY <1>1 DEF Passes, CoroTypes, Suspended
<1>10. Passes' /\ WaitsForKernel'
  BY <1>1, <1>4, <1>5, <1>9 DEF Passes, WaitsForKernel
<1>11. QED
  BY <1>7, <1>8, <1>10

\* The steps that move only the thread.
LEMMA PassStep ==
  ASSUME IoInv,
         CallWait \/ WaitReturns \/ Interrupted \/ ReapEnds \/ UNCHANGED vars
  PROVE  IoInv'
<1> USE DEF IoInv
<1>1. UNCHANGED <<sq, inflight, cq, backlog, reaped, until, st, ops, result>>
  BY DEF CallWait, WaitReturns, Interrupted, ReapEnds, vars, ringVars, coroVars
<1>2. \/ pc' = "submit" /\ pc = "idle" /\ Suspended # {}
      \/ pc' \in {"reap", "advance"}
      \/ pc' = pc
  BY DEF CallWait, WaitReturns, Interrupted, ReapEnds, Suspended, vars
<1>3. Suspended' = Suspended
  BY <1>1 DEF Suspended
<1>4. TypeOK'
  BY <1>1, <1>2 DEF TypeOK
<1>5. OneOperationEach'
  BY <1>1 DEF OneOperationEach, Outstanding, Unhandled
<1>6. Passes' /\ WaitsForKernel'
  BY <1>1, <1>2, <1>3 DEF Passes, WaitsForKernel
<1>7. QED
  BY <1>4, <1>5, <1>6

\* The kernel completes an operation, whatever the thread does.
LEMMA CompleteStep ==
  ASSUME IoInv, NEW e \in inflight, Complete(e)
  PROVE  IoInv'
<1> USE IoAssumption
<1> USE IoTypes DEF IoInv
<1>1. UNCHANGED <<sq, reaped, pc, until, st, ops, result>>
  BY DEF Complete, coroVars
<1>2. PICK r : r = reaped
  OBVIOUS
<1>3. Places(r, Suspended) /\ r \in 0 .. Len(cq)
  BY <1>2, PlacedNow
<1>4. e \in Pending /\ e \notin Completed(r)
  BY <1>3 DEF Pending, Places
<1>5. /\ RingTypes' /\ r \in 0 .. Len(cq')
      /\ Pending' = Pending \ {e} /\ Completed(r)' = Completed(r) \union {e}
      /\ PendingOnce' /\ CompletedOnce(r)'
      /\ cq' # <<>> \/ backlog # <<>>
      /\ cq # <<>> => cq' # <<>>
  BY <1>3, <1>4, Completes DEF Places
<1>6. Suspended' = Suspended /\ Awaited(Suspended)' = Awaited(Suspended)
  BY <1>1 DEF Suspended, Awaited
<1>7. Places(r, Suspended)'
  BY <1>3, <1>4, <1>5, <1>6 DEF Places
<1>8. OneOperationEach'
  BY <1>1, <1>2, <1>7, PlacedNext
<1>9. TypeOK'
  BY <1>1, <1>2, <1>5 DEF TypeOK, RingTypes, CoroTypes
<1>10. pc = "blocked" => cq' # <<>>
  BY <1>5 DEF Passes
<1>11. Passes' /\ WaitsForKernel'
  BY <1>1, <1>6, <1>10 DEF Passes, WaitsForKernel
<1>12. QED
  BY <1>8, <1>9, <1>11


\* Every step preserves the invariant.
LEMMA IoInvStep == IoInv /\ [Next]_vars => IoInv'
<1> SUFFICES ASSUME IoInv, [Next]_vars PROVE IoInv'
  OBVIOUS
<1>1. ASSUME NEW c \in Coros, Start(c) PROVE IoInv'
  BY <1>1, StartStep
<1>2. CASE Ring
  BY <1>2, PassStep, SubmitStep, AdvanceStep DEF Ring
<1>3. CASE Reap
  BY <1>3, ReapStep
<1>4. CASE Mishap
  BY <1>4, PassStep, SubmitStep DEF Mishap
<1>5. ASSUME NEW e \in inflight, Complete(e) PROVE IoInv'
  BY <1>5, CompleteStep
<1>6. CASE UNCHANGED vars
  BY <1>6, PassStep
<1>7. QED
  BY <1>1, <1>2, <1>3, <1>4, <1>5, <1>6 DEF Next

(***************************************************************************)
(* The theorems about the ring.                                            *)
(***************************************************************************)

\* The inductive invariant holds in every state.
THEOREM IoInvariance == Spec => []IoInv
BY InitIo, IoInvStep, PTL DEF Spec

\* Every variable keeps its type: the queues do not grow beyond their sizes,
\* the loop does not run past the completions that are there, and what they
\* carry are operations.
THEOREM IoTypesHold == Spec => []TypeOK
<1>1. IoInv => TypeOK
  BY DEF IoInv
<1>2. QED
  BY <1>1, IoInvariance, PTL

\* Over full queues, the backlog, refused submissions and the late advance,
\* what is under way is exactly what the suspended coroutines await: no
\* completion is lost or handled twice.
THEOREM OnePlaceEach == Spec => []OneOperationEach
<1>1. IoInv => OneOperationEach
  BY DEF IoInv
<1>2. QED
  BY <1>1, IoInvariance, PTL

\* The thread never blocks on the kernel while what it waits for is still
\* in its own submission queue or nowhere.
THEOREM BlocksOnKernel == Spec => []WaitsForKernel
<1>1. IoInv => WaitsForKernel
  BY DEF IoInv
<1>2. QED
  BY <1>1, IoInvariance, PTL


(***************************************************************************)
(* The ring implements AsyncIo.                                            *)
(***************************************************************************)

\* Whether an operation of a coroutine is on its way to completion, or on
\* its way back.
HasPending(c) == \E e \in Pending : e.coro = c
HasCompleted(c) == \E e \in Completed(reaped) : e.coro = c

\* Status in these terms, before and after a step.
LEMMA StatusIs ==
  ASSUME NEW c \in Coros
  PROVE  /\ Status[c] = IF HasPending(c) THEN "pending"
                        ELSE IF HasCompleted(c) THEN "completed" ELSE "none"
         /\ Status'[c] = IF HasPending(c)' THEN "pending"
                         ELSE IF HasCompleted(c)' THEN "completed" ELSE "none"
BY DEF Status, HasPending, HasCompleted, Pending, Completed, Rest, After, Unhandled

\* A step changes the status of one coroutine, or of none.
LEMMA StatusChanges ==
  ASSUME NEW c \in Coros, NEW v, Status'[c] = v,
         \A d \in Coros : d # c => Status'[d] = Status[d]
  PROVE  Status' = [Status EXCEPT ![c] = v]
<1>1. PICK f, g : f = Status /\ g = Status'
  OBVIOUS
<1>2. f = [d \in Coros |-> f[d]] /\ g = [d \in Coros |-> g[d]]
  BY <1>1 DEF Status
<1>3. g = [f EXCEPT ![c] = v]
  BY <1>1, <1>2
<1>4. QED
  BY <1>1, <1>3

LEMMA StatusStays ==
  ASSUME \A d \in Coros : Status'[d] = Status[d]
  PROVE  Status' = Status
<1>1. PICK f, g : f = Status /\ g = Status'
  OBVIOUS
<1>2. f = [d \in Coros |-> f[d]] /\ g = [d \in Coros |-> g[d]]
  BY <1>1 DEF Status
<1>3. QED
  BY <1>1, <1>2

\* The operations of other coroutines than c are where they were.
LEMMA OthersKeepStatus ==
  ASSUME NEW c \in Coros,
         \A e : e.coro # c => (e \in Pending' <=> e \in Pending),
         \A e : e.coro # c => (e \in Completed(reaped)' <=> e \in Completed(reaped))
  PROVE  \A d \in Coros : d # c => Status'[d] = Status[d]
<1>1. SUFFICES ASSUME NEW d \in Coros, d # c PROVE Status'[d] = Status[d]
  OBVIOUS
<1>2. HasPending(d)' <=> HasPending(d)
  BY <1>1 DEF HasPending
<1>3. HasCompleted(d)' <=> HasCompleted(d)
  BY <1>1 DEF HasCompleted
<1>4. QED
  BY <1>2, <1>3, StatusIs

\* Every operation under way is the current one of a suspended coroutine.
LEMMA OnlyCurrent ==
  ASSUME OneOperationEach
  PROVE  /\ \A e \in Pending \union Completed(reaped) :
              /\ e.coro \in Coros /\ st[e.coro] = "suspended"
              /\ e = [coro |-> e.coro, op |-> ops[e.coro]]
         /\ Pending \intersect Completed(reaped) = {}
<1>1. Places(reaped, Suspended)
  BY OneOperationIs
<1>2. \A e \in Awaited(Suspended) : /\ e.coro \in Coros /\ st[e.coro] = "suspended"
                                    /\ e = [coro |-> e.coro, op |-> ops[e.coro]]
  BY DEF Awaited, Suspended
<1>3. QED
  BY <1>1, <1>2 DEF Places


\* A coroutine that runs, seen from AsyncIo.
LEMMA RunMaps ==
  ASSUME RingTypes, CoroTypes, NEW c \in Coros, Run(c),
         NEW r \in 0 .. Len(cq), reaped' = r, Places(r, Suspended \ {c}),
         \A e : e.coro # c => (e \in Completed(r) <=> e \in Completed(reaped))
  PROVE  Io!Run(c)
<1>1. /\ \A d \in Coros : d # c => st'[d] = st[d] /\ ops'[d] = ops[d]
      /\ Completed(r)' = Completed(r)
      /\ \/ /\ st'[c] = "done" /\ ops'[c] = ops[c] /\ Pending' = Pending
         \/ /\ st'[c] = "suspended" /\ ops'[c] = ops[c] + 1 /\ ops[c] < MaxOps
            /\ Pending' = Pending \union {[coro |-> c, op |-> ops[c] + 1]}
      /\ Places(r, Suspended)'
  BY Runs
<1>2. Completed(reaped)' = Completed(r)
  BY <1>1 DEF Completed, Rest
<1>3. \A d \in Coros : d # c => Status'[d] = Status[d]
  BY <1>1, <1>2, OthersKeepStatus
<1>4. \A e \in Pending \union Completed(r) : e.coro # c
  BY DEF Places, Awaited
<1>5. CASE st' = [st EXCEPT ![c] = "done"] /\ UNCHANGED <<ringVars, ops>>
  <2>1. Pending' = Pending
    BY <1>5 DEF Pending, ringVars
  <2>2. ~HasPending(c)' /\ ~HasCompleted(c)'
    BY <1>2, <1>4, <2>1 DEF HasPending, HasCompleted
  <2>3. Status'[c] = "none"
    BY <2>2, StatusIs
  <2>4. Status' = [Status EXCEPT ![c] = "none"]
    BY <1>3, <2>3, StatusChanges
  <2>5. QED
    BY <1>5, <2>4 DEF Io!Run
<1>6. CASE AwaitOperation(c)
  <2>1. /\ ops[c] < MaxOps /\ st' = [st EXCEPT ![c] = "suspended"]
        /\ ops' = [ops EXCEPT ![c] = @ + 1]
    BY <1>6 DEF AwaitOperation
  <2>2. st'[c] # "done"
    BY <2>1 DEF CoroTypes
  <2>3. [coro |-> c, op |-> ops[c] + 1] \in Pending'
    BY <1>1, <2>2
  <2>4. HasPending(c)'
    BY <2>3 DEF HasPending
  <2>5. Status'[c] = "pending"
    BY <2>4, StatusIs
  <2>6. Status' = [Status EXCEPT ![c] = "pending"]
    BY <1>3, <2>5, StatusChanges
  <2>7. QED
    BY <2>1, <2>6 DEF Io!Run
<1>7. QED
  BY <1>5, <1>6 DEF Run

\* The first resume of a coroutine is its start.
LEMMA StartMaps ==
  ASSUME IoInv, NEW c \in Coros, Start(c)
  PROVE  Io!Start(c)
<1> USE IoTypes DEF IoInv
<1>1. PICK r : r = reaped
  OBVIOUS
<1>2. st[c] = "new" /\ Run(c) /\ reaped' = r /\ result' = result
  BY <1>1 DEF Start
<1>3. Suspended \ {c} = Suspended
  BY <1>2 DEF Suspended
<1>4. Places(r, Suspended \ {c})
  BY <1>1, <1>3, PlacedNow
<1>5. Io!Run(c)
  BY <1>1, <1>2, <1>4, RunMaps
<1>6. QED
  BY <1>2, <1>5 DEF Io!Start

\* A completion that is handled resumes its coroutine with the result of the
\* operation it awaits.
LEMMA ReapMaps ==
  ASSUME IoInv, Reap
  PROVE  \E c \in Coros : Io!Resume(c)
<1> USE IoTypes DEF IoInv
<1>1. PICK r, q, e : r = reaped /\ q = r + 1 /\ e = cq[q]
  OBVIOUS
<1>2. PICK c : c = e.coro
  OBVIOUS
<1>3. /\ r \in 0 .. Len(cq) /\ r < Len(cq) /\ result' = [result EXCEPT ![c] = e.op]
      /\ reaped' = q /\ Run(c)
  BY <1>1, <1>2 DEF Reap
<1>4. Places(r, Suspended)
  BY <1>1, PlacedNow
<1>5. /\ q \in 0 .. Len(cq) /\ c \in Coros /\ st[c] = "suspended"
      /\ e = [coro |-> c, op |-> ops[c]]
      /\ Places(q, Suspended \ {c})
      /\ Completed(r) = Completed(q) \union {e} /\ e \notin Completed(q)
  BY <1>1, <1>2, <1>3, <1>4, TakesNext
<1>6. e.op = ops[c] /\ e.coro = c
  BY <1>5
<1>7. Status[c] = "completed"
  <2>1. e \in Completed(reaped)
    BY <1>1, <1>5
  <2>2. HasCompleted(c)
    BY <1>6, <2>1 DEF HasCompleted
  <2>3. ~HasPending(c)
    <3>1. SUFFICES ASSUME NEW f \in Pending, f.coro = c PROVE FALSE
      BY DEF HasPending
    <3>2. f = [coro |-> c, op |-> ops[c]] /\ f \notin Completed(reaped)
      BY <3>1, OnlyCurrent
    <3>3. QED
      BY <1>5, <2>1, <3>2
  <2>4. QED
    BY <1>5, <2>2, <2>3, StatusIs
<1>8. \A f : f.coro # c => (f \in Completed(q) <=> f \in Completed(reaped))
  BY <1>1, <1>5, <1>6
<1>9. Io!Run(c)
  BY <1>3, <1>5, <1>8, RunMaps
<1>10. Io!Resume(c)
  BY <1>3, <1>5, <1>6, <1>7, <1>9 DEF Io!Resume
<1>11. QED
  BY <1>5, <1>10

\* The kernel completes the operation that its coroutine awaits.
LEMMA CompleteMaps ==
  ASSUME IoInv, NEW e \in inflight, Complete(e)
  PROVE  \E c \in Coros : Io!Complete(c)
<1> USE IoTypes DEF IoInv
<1>1. UNCHANGED <<reaped, st, ops, result>>
  BY DEF Complete, coroVars
<1>2. PICK r, c : r = reaped /\ c = e.coro
  OBVIOUS
<1>3. Places(r, Suspended)
  BY <1>2, PlacedNow
<1>4. Pending' = Pending \ {e} /\ Completed(r)' = Completed(r) \union {e}
  BY <1>2, <1>3, Completes DEF Places
<1>5. Completed(reaped)' = Completed(reaped) \union {e}
  BY <1>1, <1>2, <1>4 DEF Completed, Rest
<1>6. e \in Pending
  BY DEF Pending
<1>7. c \in Coros /\ e = [coro |-> c, op |-> ops[c]]
  BY <1>2, <1>6, OnlyCurrent
<1>8. Status[c] = "pending"
  <2>1. HasPending(c)
    BY <1>2, <1>6 DEF HasPending
  <2>2. QED
    BY <1>7, <2>1, StatusIs
<1>9. Status'[c] = "completed"
  <2>1. ~HasPending(c)'
    <3>1. SUFFICES ASSUME NEW f \in Pending, f # e, f.coro = c PROVE FALSE
      BY <1>4 DEF HasPending
    <3>2. f = [coro |-> c, op |-> ops[c]]
      BY <3>1, OnlyCurrent
    <3>3. QED
      BY <1>7, <3>1, <3>2
  <2>2. HasCompleted(c)'
    BY <1>2, <1>5 DEF HasCompleted
  <2>3. QED
    BY <1>7, <2>1, <2>2, StatusIs
<1>10. \A d \in Coros : d # c => Status'[d] = Status[d]
  BY <1>2, <1>4, <1>5, <1>7, OthersKeepStatus
<1>11. Status' = [Status EXCEPT ![c] = "completed"]
  BY <1>7, <1>9, <1>10, StatusChanges
<1>12. Io!Complete(c)
  BY <1>1, <1>8, <1>11 DEF Io!Complete
<1>13. QED
  BY <1>7, <1>12

\* Everything else is invisible to the coroutines.
LEMMA QuietMaps ==
  ASSUME IoInv, Ring \/ Mishap \/ UNCHANGED vars
  PROVE  UNCHANGED Io!vars
<1> USE IoTypes DEF IoInv
<1>1. UNCHANGED <<st, ops, result>>
  BY DEF Ring, CallWait, SubmitAndWait, WaitReturns, ReapEnds, Advance,
         Mishap, CallConsume, Interrupted, NullEntry, coroVars, vars
<1>2. PICK r : r = reaped
  OBVIOUS
<1>3. Places(r, Suspended) /\ r \in 0 .. Len(cq)
  BY <1>2, PlacedNow
<1>4. Pending' = Pending /\ Completed(reaped)' = Completed(reaped)
  <2>1. CASE CallWait \/ WaitReturns \/ Interrupted \/ ReapEnds \/ UNCHANGED vars
    BY <2>1 DEF CallWait, WaitReturns, Interrupted, ReapEnds, vars, ringVars,
                Pending, Completed, Rest
  <2>2. CASE CallConsume \/ SubmitAndWait \/ NullEntry
    <3>1. Submit /\ reaped' = r
      BY <1>2, <2>2 DEF CallConsume, SubmitAndWait, NullEntry, GetsNoSqe, Submit
    <3>2. Pending' = Pending /\ Completed(r)' = Completed(r)
      BY <1>3, <3>1, Submits
    <3>3. QED
      BY <1>2, <3>1, <3>2 DEF Completed, Rest
  <2>3. CASE Advance
    <3>1. reaped' = 0 /\ Pending' = Pending /\ Completed(0)' = Completed(r)
      BY <1>2, <1>3, <2>3, Advances
    <3>2. QED
      BY <1>2, <3>1 DEF Completed, Rest
  <2>4. QED
    BY <2>1, <2>2, <2>3 DEF Ring, Mishap
<1>5. \A d \in Coros : Status'[d] = Status[d]
  <2>1. TAKE d \in Coros
  <2>2. (HasPending(d)' <=> HasPending(d)) /\ (HasCompleted(d)' <=> HasCompleted(d))
    BY <1>4 DEF HasPending, HasCompleted
  <2>3. QED
    BY <2>2, StatusIs
<1>6. QED
  BY <1>1, <1>5, StatusStays DEF Io!vars

\* To the coroutines, a ring with its queues, its backlog and its late
\* advance is a service that completes each operation once and resumes its
\* coroutine once, with that operation's result.
THEOREM RingImplementsIo == Spec => ImplementsAsyncIo
<1>1. Init => Io!Init
  <2>1. SUFFICES ASSUME Init PROVE Status = [c \in Coros |-> "none"]
    BY DEF Init, Io!Init
  <2>2. ToSet(sq) = {} /\ inflight = {} /\ ToSet(backlog) = {}
    BY <2>1 DEF Init, ToSet
  <2>3. Unhandled = <<>>
    <3>1. cq = <<>> /\ reaped = 0 /\ Len(<<>>) = 0
      BY <2>1, EmptySeq DEF Init
    <3>2. QED
      BY <3>1, SubSeqEmpty DEF Unhandled
  <2>4. ToSet(Unhandled) = {}
    BY <2>3 DEF ToSet
  <2>5. QED
    BY <2>2, <2>4 DEF Status
<1>2. IoInv /\ [Next]_vars => [Io!Next]_(Io!vars)
  <2>1. SUFFICES ASSUME IoInv, [Next]_vars PROVE Io!Next \/ UNCHANGED Io!vars
    OBVIOUS
  <2>2. CASE \E c \in Coros : Start(c)
    BY <2>1, <2>2, StartMaps DEF Io!Next
  <2>3. CASE Reap
    BY <2>1, <2>3, ReapMaps DEF Io!Next
  <2>4. CASE \E e \in inflight : Complete(e)
    BY <2>1, <2>4, CompleteMaps DEF Io!Next
  <2>5. CASE Ring \/ Mishap \/ UNCHANGED vars
    BY <2>1, <2>5, QuietMaps
  <2>6. QED
    BY <2>1, <2>2, <2>3, <2>4, <2>5 DEF Next
<1>3. QED
  BY <1>1, <1>2, IoInvariance, PTL DEF Spec, ImplementsAsyncIo, Io!Spec


(***************************************************************************)
(* The file: its inductive invariant and its steps.                        *)
(***************************************************************************)

FileTypes ==
  /\ statx \in {"absent", "zeroed", "filled"}
  /\ kind \in [Coros -> {"none", "statx", "other"}]
  /\ told \in {"nothing", "zero", "size"}

\* Only a coroutine that is suspended awaits a statx, and only one does: the
\* structure is there while it is under way, and zeroed until the kernel has
\* completed it, so that nobody was told the size before.
OneLookup ==
  /\ \A c \in Coros : kind[c] = "statx" => st[c] = "suspended" /\ statx # "absent"
  /\ \A c, d \in Coros : kind[c] = "statx" /\ kind[d] = "statx" => c = d
  /\ \A e \in Pending : kind[e.coro] = "statx" => statx = "zeroed"
  /\ told = "size" => statx = "filled"

FileInv == IoInv /\ FileTypes /\ OneLookup

\* Every step of a coroutine that uses a file is one that IoService allows.
LEMMA FileStepIs == [FileNext]_allVars => [Next]_vars
BY DEF FileNext, FileStart, FileReap, RingStep, FileComplete, Next, allVars

\* What a coroutine does to the file when it runs.
LEMMA BodyStep ==
  ASSUME IoInv, IoInv', FileTypes, OneLookup, NEW c \in Coros, Body(c),
         \A d \in Coros : d # c => st'[d] = st[d],
         \A e \in Pending : e.coro # c,
         \A e \in Pending' : e \in Pending \/ e.coro = c
  PROVE  FileTypes' /\ OneLookup'
<1>1. /\ told' \in {told, SizeOf(statx)}
      /\ told' = "size" => statx = "filled"
      /\ told' \in {"nothing", "zero", "size"}
  BY DEF Body, Tells, SizeOf, FileTypes, OneLookup
<1>2. PICK k \in {"none", "statx", "other"} :
        /\ kind' = [kind EXCEPT ![c] = k]
        /\ k = "statx" => statx = "absent" /\ statx' = "zeroed" /\ st'[c] = "suspended"
        /\ k # "statx" => statx' = statx
  BY DEF Body, GoesOn, StartStatx
<1>3. kind'[c] = k /\ \A d \in Coros : d # c => kind'[d] = kind[d]
  BY <1>2 DEF FileTypes
<1>4. FileTypes'
  BY <1>1, <1>2 DEF FileTypes
<1>5. CASE k = "statx"
  <2>1. \A d \in Coros : d # c => kind'[d] # "statx"
    BY <1>2, <1>3, <1>5 DEF OneLookup
  <2>2. told' # "size" /\ statx' = "zeroed" /\ st'[c] = "suspended"
    BY <1>1, <1>2, <1>5
  <2>3. \A e \in Pending' : kind'[e.coro] = "statx" => statx' = "zeroed"
    BY <2>2
  <2>4. QED
    BY <1>4, <2>1, <2>2, <2>3 DEF OneLookup
<1>6. CASE k # "statx"
  <2>1. statx' = statx /\ kind'[c] # "statx"
    BY <1>2, <1>3, <1>6
  <2>2. ASSUME NEW e \in Pending', kind'[e.coro] = "statx" PROVE statx' = "zeroed"
    <3>1. e \in Pending
      BY <2>1, <2>2
    <3>2. e.coro \in Coros /\ e.coro # c
      BY <3>1, OnlyCurrent DEF IoInv
    <3>3. QED
      BY <1>3, <2>1, <2>2, <3>1, <3>2 DEF OneLookup
  <2>3. QED
    BY <1>1, <1>3, <1>4, <2>1, <2>2 DEF OneLookup
<1>7. QED
  BY <1>5, <1>6

\* A coroutine starts, or goes on after its completion.
LEMMA FileRunStep ==
  ASSUME FileInv, IoInv', \/ \E c \in Coros : FileStart(c)
                          \/ FileReap
  PROVE  FileInv'
<1> USE IoTypes DEF FileInv, IoInv
<1>1. PICK r : r = reaped
  OBVIOUS
<1>2. Places(r, Suspended) /\ r \in 0 .. Len(cq)
  BY <1>1, PlacedNow
<1>3. ASSUME NEW c \in Coros, NEW q \in 0 .. Len(cq), Run(c), Body(c), Places(q, Suspended \ {c})
      PROVE  FileTypes' /\ OneLookup'
  <2>1. /\ \A d \in Coros : d # c => st'[d] = st[d]
        /\ \/ Pending' = Pending
           \/ Pending' = Pending \union {[coro |-> c, op |-> ops[c] + 1]}
    BY <1>3, Runs
  <2>2. \A e \in Pending : e.coro # c
    BY <1>3 DEF Places, Awaited
  <2>3. \A e \in Pending' : e \in Pending \/ e.coro = c
    BY <2>1
  <2>4. QED
    BY <1>3, <2>1, <2>2, <2>3, BodyStep
<1>4. ASSUME NEW c \in Coros, FileStart(c) PROVE FileTypes' /\ OneLookup'
  <2>1. st[c] = "new" /\ Run(c) /\ Body(c)
    BY <1>4 DEF FileStart, Start
  <2>2. Suspended \ {c} = Suspended
    BY <2>1 DEF Suspended
  <2>3. QED
    BY <1>2, <1>3, <2>1, <2>2
<1>5. CASE FileReap
  <2>1. PICK c : c = cq[r + 1].coro
    OBVIOUS
  <2>2. r < Len(cq) /\ Run(c) /\ Body(c)
    BY <1>1, <1>5, <2>1 DEF FileReap, Reap
  <2>3. r + 1 \in 0 .. Len(cq) /\ c \in Coros /\ Places(r + 1, Suspended \ {c})
    BY <1>2, <2>1, <2>2, TakesNext
  <2>4. QED
    BY <1>3, <2>2, <2>3
<1>6. QED
  BY <1>4, <1>5

\* The kernel completes an operation, and fills the structure in if it was
\* the statx and did not fail.
LEMMA FileCompleteStep ==
  ASSUME FileInv, IoInv', NEW e \in inflight, FileComplete(e)
  PROVE  FileInv'
<1> USE IoTypes DEF FileInv, IoInv
<1>1. /\ Complete(e) /\ UNCHANGED <<kind, told, reaped, st, ops>>
      /\ statx' = statx \/ (kind[e.coro] = "statx" /\ statx' = "filled")
  BY DEF FileComplete, Complete, coroVars
<1>2. PICK r : r = reaped
  OBVIOUS
<1>3. Places(r, Suspended) /\ r \in 0 .. Len(cq)
  BY <1>2, PlacedNow
<1>4. Pending' = Pending \ {e} /\ e \in Pending
  BY <1>1, <1>3, Completes DEF Places, Pending
<1>5. FileTypes'
  BY <1>1 DEF FileTypes
<1>6. \A f \in Pending' : kind'[f.coro] = "statx" => statx' = "zeroed"
  <2>1. SUFFICES ASSUME NEW f \in Pending', kind[f.coro] = "statx" PROVE statx' = "zeroed"
    BY <1>1
  <2>2. f \in Pending /\ f # e /\ statx = "zeroed"
    BY <1>4, <2>1 DEF OneLookup
  <2>3. /\ e.coro \in Coros /\ e = [coro |-> e.coro, op |-> ops[e.coro]]
        /\ f.coro \in Coros /\ f = [coro |-> f.coro, op |-> ops[f.coro]]
    BY <1>4, <2>2, OnlyCurrent
  <2>4. f.coro # e.coro
    BY <2>2, <2>3
  <2>5. kind[e.coro] # "statx"
    BY <2>1, <2>3, <2>4 DEF OneLookup
  <2>6. QED
    BY <1>1, <2>2, <2>5
<1>7. OneLookup'
  BY <1>1, <1>6 DEF OneLookup
<1>8. QED
  BY <1>5, <1>7

\* No other step touches the file.
LEMMA FileQuietStep ==
  ASSUME FileInv, IoInv', Ring \/ Mishap \/ UNCHANGED vars, UNCHANGED fileVars
  PROVE  FileInv'
<1> USE DEF FileInv
<1>1. UNCHANGED <<st, ops, result>>
  BY DEF Ring, CallWait, SubmitAndWait, WaitReturns, ReapEnds, Advance,
         Mishap, CallConsume, Interrupted, NullEntry, coroVars, vars
<1>2. Pending' = Pending
  <2>1. CASE ~(CallConsume \/ SubmitAndWait \/ NullEntry)
    BY <2>1 DEF Ring, CallWait, WaitReturns, ReapEnds, Advance, Mishap, Interrupted,
                ringVars, vars, Pending
  <2>2. CASE CallConsume \/ SubmitAndWait \/ NullEntry
    <3>1. Submit
      BY <2>2 DEF CallConsume, SubmitAndWait, NullEntry, GetsNoSqe, Submit
    <3>2. RingTypes /\ reaped \in 0 .. Len(cq)
      BY IoTypes DEF IoInv
    <3>3. PICK r \in 0 .. Len(cq) : r = reaped
      BY <3>2
    <3>4. QED
      BY <3>1, <3>2, <3>3, Submits
  <2>3. QED
    BY <2>1, <2>2
<1>3. UNCHANGED <<statx, kind, told>>
  BY DEF fileVars
<1>4. FileTypes' /\ OneLookup'
  BY <1>1, <1>2, <1>3 DEF FileTypes, OneLookup
<1>5. QED
  BY <1>4

\* Every step preserves the invariant.
LEMMA FileInvStep == FileInv /\ [FileNext]_allVars => FileInv'
<1> SUFFICES ASSUME FileInv, [FileNext]_allVars PROVE FileInv'
  OBVIOUS
<1>1. IoInv'
  BY FileStepIs, IoInvStep DEF FileInv
<1>2. CASE FileReap \/ \E c \in Coros : FileStart(c)
  BY <1>1, <1>2, FileRunStep
<1>3. CASE \E e \in inflight : FileComplete(e)
  BY <1>1, <1>3, FileCompleteStep
<1>4. CASE RingStep \/ (Mishap /\ UNCHANGED fileVars) \/ UNCHANGED allVars
  BY <1>1, <1>4, FileQuietStep DEF RingStep, allVars
<1>5. QED
  BY <1>2, <1>3, <1>4 DEF FileNext

(***************************************************************************)
(* The theorems about the file.                                            *)
(***************************************************************************)

\* A coroutine that uses a file uses the ring as IoService lets it, so that
\* what is proved of the ring holds of it.
THEOREM FileUsesRing == FileSpec => Spec
<1>1. FileInit => Init
  BY DEF FileInit
<1>2. QED
  BY <1>1, FileStepIs, PTL DEF FileSpec, Spec

\* The inductive invariant holds in every state.
THEOREM FileInvariance == FileSpec => []FileInv
<1>1. FileInit => FileInv
  <2>1. SUFFICES ASSUME FileInit PROVE FileInv
    OBVIOUS
  <2>2. IoInv
    BY <2>1, InitIo DEF FileInit
  <2>3. Pending = {}
    BY <2>1 DEF FileInit, Init, Pending, ToSet
  <2>4. QED
    BY <2>1, <2>2, <2>3 DEF FileInit, FileInv, FileTypes, OneLookup
<1>2. QED
  BY <1>1, FileInvStep, PTL DEF FileSpec

\* Every variable keeps its type.
THEOREM FileTypesHold == FileSpec => []FileTypeOK
<1>1. FileInv => FileTypeOK
  BY DEF FileInv, IoInv, FileTypes, FileTypeOK
<1>2. QED
  BY <1>1, FileInvariance, PTL

\* However many coroutines ask a file for its size, one statx is under way;
\* it writes to a structure that is there, and before it completes nobody is
\* told a size that a later answer of 0 would contradict.
THEOREM OneStatxOnly == FileSpec => []OneStatx
<1>1. ASSUME FileInv PROVE OneStatx
  <2>1. \A e \in Outstanding : e.coro \in Coros
    BY <1>1 DEF FileInv, IoInv, OneOperationEach
  <2>2. inflight \subseteq Pending
    BY DEF Pending
  <2>3. QED
    BY <1>1, <2>1, <2>2 DEF FileInv, OneLookup, OneStatx
<1>2. QED
  BY <1>1, FileInvariance, PTL
==============================================================================
