----------------------------- MODULE Logger_proofs -----------------------------
(***************************************************************************)
(* Proofs about Logger: for any number of threads, files and records, who  *)
(* polls is alone unless the files were changed during a poll; without     *)
(* such a race the files get the records in order and the destructor       *)
(* leaves none behind.                                                     *)
(***************************************************************************)
EXTENDS Logger, SequenceTheorems, FiniteSetTheorems, TLAPS

(***************************************************************************)
(* The inductive invariant.                                                *)
(***************************************************************************)

Consuming == \E p \in Pollers : at[p] = "consume"
Clearing == \E p \in Pollers : at[p] = "clear"

\* Records the functor has appended to m_buf, if there was no race: the place
\* that is claimed and not yet consumed is the last one.
Appended == IF Consuming THEN out - 1 ELSE out

\* Where the three kinds of threads can be; that the destructor polls only
\* after the background thread was joined; and when a step of the owner meets
\* a poll, so that there was a race.
Modes ==
  /\ \A u \in Users : at[u] \in {"idle", "put"}
  /\ at[Bg] \in {"check", "drain", "consume", "write", "clear", "exited", "off"}
  /\ at[Owner] \in {"idle", "join", "drain", "consume", "write", "clear", "close", "replace",
                    "push", "destroy", "gone"}
  /\ running => ~dying /\ at[Owner] # "join"
  /\ at[Bg] = "off" <=> ~running /\ at[Owner] # "join"
  /\ at[Bg] = "exited" => ~running
  /\ dying => Idle
  /\ at[Owner] \in {"destroy", "gone"} => dying
  /\ at[Owner] \in {"idle", "close", "replace", "push"} => ~dying
  /\ at[Owner] = "push" => Len(outputs) < MaxOutputs
  /\ Changing <=> ~dying /\ at[Owner] \notin {"idle", "join"}
  /\ Changing /\ Polls(Bg) => raced
  /\ ~dying /\ (Polls(Owner) \/ at[Owner] = "close") => raced

\* The place a thread holds.
Holding ==
  /\ \A u \in Users : at[u] = "put" => holds[u] # None
  /\ \A p \in Pollers : IF at[p] = "consume" THEN holds[p] \in 0 .. out - 1 ELSE holds[p] = None

\* A place that was claimed by log and by no poller is in the queue, or its
\* record is being written into it.
InQueue ==
  /\ out <= in
  /\ \A i \in stored : i < in
  /\ \A u \in Users : holds[u] # None => holds[u] < in
  /\ \A i \in out .. in - 1 : i \in stored \/ \E u \in Users : at[u] = "put" /\ holds[u] = i
  /\ dying /\ at[Owner] \in {"write", "clear", "destroy", "gone"} => out = in

\* What is in m_buf was taken in a poll that is still under way, and will be
\* cleared by it.
Taken == buf # <<>> => \E p \in Pollers : Polls(p) /\ p \in took

\* Writes of increasing places below n, each behind or the same as the one
\* before it.
InOrderUpTo(s, n) ==
  /\ \A i \in DOMAIN s : Increasing(s[i]) /\ Range(s[i]) \subseteq 0 .. n - 1
  /\ \A i \in 1 .. Len(s) - 1 : s[i + 1] = s[i] \/ Behind(s[i], s[i + 1])

AllBehind(s, b) == \A i \in DOMAIN s : Behind(s[i], b)

\* What is appended is in m_buf or in a file, in order.
InFiles ==
  /\ outputs # <<>> \/ Changing
  /\ \A p \in Pollers : at[p] = "consume" => holds[p] = out - 1
  /\ Increasing(buf)
  /\ Range(buf) \subseteq 0 .. Appended - 1
  /\ \A f \in Files : InOrderUpTo(file[f], Appended)
  /\ IF Clearing THEN Range(buf) \subseteq Written ELSE \A f \in Files : AllBehind(file[f], buf)
  /\ 0 .. Appended - 1 \subseteq Written \union Range(buf)

LogInv == TypeOK /\ Modes /\ Holding /\ InQueue /\ Taken /\ (raced \/ InFiles)

(***************************************************************************)
(* Sequences of records.                                                   *)
(***************************************************************************)

\* Any two integers are in order.
LEMMA Ordered == \A m, n \in Int : m < n \/ m = n \/ m > n
OBVIOUS

\* An increasing sequence stays so when a larger element is appended.
LEMMA AppendLarger ==
  ASSUME NEW s \in Seq(Int), NEW x \in Int, Increasing(s), Range(s) \subseteq 0 .. x - 1
  PROVE  Increasing(Append(s, x)) /\ Range(Append(s, x)) = Range(s) \union {x}
<1>1. /\ Len(Append(s, x)) = Len(s) + 1
      /\ \A i \in 1 .. Len(s) : Append(s, x)[i] = s[i]
      /\ Append(s, x)[Len(s) + 1] = x
      /\ Len(s) \in Nat /\ DOMAIN s = 1 .. Len(s)
      /\ DOMAIN Append(s, x) = 1 .. Len(s) + 1
  BY AppendProperties, LenProperties
<1>2. \A i \in 1 .. Len(s) : s[i] < x
  <2>1. \A i \in 1 .. Len(s) : s[i] \in 0 .. x - 1
    BY <1>1 DEF Range
  <2>2. QED
    BY <2>1
<1>3. Increasing(Append(s, x))
  <2>1. SUFFICES ASSUME NEW i \in 1 .. Len(s) PROVE Append(s, x)[i] < Append(s, x)[i + 1]
    BY <1>1 DEF Increasing
  <2>2. CASE i = Len(s)
    BY <1>1, <1>2, <2>2
  <2>3. CASE i < Len(s)
    <3>1. i \in 1 .. Len(s) - 1 /\ i + 1 \in 1 .. Len(s)
      BY <1>1, <2>3
    <3>2. s[i] < s[i + 1]
      BY <3>1 DEF Increasing
    <3>3. QED
      BY <1>1, <3>1, <3>2
  <2>4. i \in Int /\ Len(s) \in Int /\ ~(i > Len(s))
    BY <1>1
  <2>5. QED
    BY <2>2, <2>3, <2>4, Ordered
<1>4. Range(Append(s, x)) = Range(s) \union {x}
  <2>1. \A y : y \in Range(s) <=> \E i \in 1 .. Len(s) : y = s[i]
    BY <1>1 DEF Range
  <2>2. \A y : y \in Range(Append(s, x)) <=> \E i \in 1 .. Len(s) + 1 : y = Append(s, x)[i]
    BY <1>1 DEF Range
  <2>3. \A i \in 1 .. Len(s) + 1 : i \in 1 .. Len(s) \/ i = Len(s) + 1
    BY <1>1
  <2>4. 1 .. Len(s) \subseteq 1 .. Len(s) + 1 /\ Len(s) + 1 \in 1 .. Len(s) + 1
    BY <1>1
  <2>5. QED
    BY <1>1, <2>1, <2>2, <2>3, <2>4
<1>5. QED
  BY <1>3, <1>4

\* What lies behind a sequence and a larger element lies behind both.
LEMMA BehindAppend ==
  ASSUME NEW s \in Seq(Int), NEW b \in Seq(Int), NEW x \in Int,
         Behind(s, b), Range(s) \subseteq 0 .. x - 1
  PROVE  Behind(s, Append(b, x))
<1>1. \A i \in DOMAIN s : s[i] < x
  BY DEF Range
<1>2. /\ DOMAIN Append(b, x) = 1 .. Len(b) + 1 /\ DOMAIN b = 1 .. Len(b) /\ Len(b) \in Nat
      /\ \A i \in 1 .. Len(b) : Append(b, x)[i] = b[i]
      /\ Append(b, x)[Len(b) + 1] = x
  BY AppendProperties, LenProperties
<1>3. ASSUME NEW i \in DOMAIN s, NEW j \in DOMAIN Append(b, x) PROVE s[i] < Append(b, x)[j]
  <2>1. CASE j = Len(b) + 1
    BY <1>1, <1>2, <2>1
  <2>2. CASE j \in 1 .. Len(b)
    BY <1>2, <2>2 DEF Behind
  <2>3. QED
    BY <1>2, <2>1, <2>2
<1>4. QED
  BY <1>3 DEF Behind

\* The same write as often as a file was added, behind what was written
\* before.
LEMMA WriteBehind ==
  ASSUME NEW s \in Seq(Seq(Int)), NEW b \in Seq(Int), NEW n \in Int, NEW k \in Nat,
         InOrderUpTo(s, n), AllBehind(s, b), Increasing(b), Range(b) \subseteq 0 .. n - 1
  PROVE  InOrderUpTo(s \o [i \in 1 .. k |-> b], n)
<1> DEFINE c == [i \in 1 .. k |-> b]
           t == s \o c
<1>1. c \in Seq(Seq(Int)) /\ Len(c) = k /\ \A i \in 1 .. k : c[i] = b
  OBVIOUS
<1>2. /\ Len(s) \in Nat /\ DOMAIN s = 1 .. Len(s) /\ Len(t) = Len(s) + k /\ DOMAIN t = 1 .. Len(t)
      /\ \A i \in 1 .. Len(s) : t[i] = s[i]
      /\ \A i \in Len(s) + 1 .. Len(s) + k : t[i] = b
  <2>1. /\ Len(t) = Len(s) + k /\ t \in Seq(Seq(Int))
        /\ \A i \in 1 .. Len(s) + k : t[i] = IF i <= Len(s) THEN s[i] ELSE c[i - Len(s)]
    BY <1>1, ConcatProperties
  <2>2. Len(s) \in Nat /\ DOMAIN s = 1 .. Len(s) /\ DOMAIN t = 1 .. Len(t)
    BY <2>1, LenProperties
  <2>3. \A i \in 1 .. Len(s) : t[i] = s[i]
    BY <2>1, <2>2
  <2>4. \A i \in Len(s) + 1 .. Len(s) + k : t[i] = b
    <3>1. SUFFICES ASSUME NEW i \in Len(s) + 1 .. Len(s) + k PROVE t[i] = b
      OBVIOUS
    <3>2. i - Len(s) \in 1 .. k /\ ~(i <= Len(s)) /\ i \in 1 .. Len(s) + k
      BY <2>2
    <3>3. QED
      BY <1>1, <2>1, <3>2
  <2>5. QED
    BY <2>1, <2>2, <2>3, <2>4
<1> HIDE DEF c, t
<1>3. \A i \in DOMAIN t : Increasing(t[i]) /\ Range(t[i]) \subseteq 0 .. n - 1
  <2>1. \A i \in DOMAIN t : i \in 1 .. Len(s) \/ i \in Len(s) + 1 .. Len(s) + k
    BY <1>2
  <2>2. \A i \in 1 .. Len(s) : Increasing(s[i]) /\ Range(s[i]) \subseteq 0 .. n - 1
    BY <1>2 DEF InOrderUpTo
  <2>3. QED
    BY <1>2, <2>1, <2>2
<1>4. \A i \in 1 .. Len(t) - 1 : t[i + 1] = t[i] \/ Behind(t[i], t[i + 1])
  <2>1. SUFFICES ASSUME NEW i \in 1 .. Len(t) - 1 PROVE t[i + 1] = t[i] \/ Behind(t[i], t[i + 1])
    OBVIOUS
  <2>2. CASE i < Len(s)
    <3>1. i \in 1 .. Len(s) - 1 /\ i \in 1 .. Len(s) /\ i + 1 \in 1 .. Len(s)
      BY <1>2, <2>2
    <3>2. QED
      BY <1>2, <3>1 DEF InOrderUpTo
  <2>3. CASE i = Len(s)
    <3>1. i \in 1 .. Len(s) /\ i + 1 \in Len(s) + 1 .. Len(s) + k
      BY <1>2, <2>3
    <3>2. QED
      BY <1>2, <3>1 DEF AllBehind
  <2>4. CASE i > Len(s)
    <3>1. i \in Len(s) + 1 .. Len(s) + k /\ i + 1 \in Len(s) + 1 .. Len(s) + k
      BY <1>2, <2>4
    <3>2. QED
      BY <1>2, <3>1
  <2>5. i \in Int /\ Len(s) \in Int
    BY <1>2
  <2>6. QED
    BY <2>2, <2>3, <2>4, <2>5, Ordered
<1>5. QED
  BY <1>3, <1>4 DEF InOrderUpTo, t, c

\* A sequence in order up to a place is in order up to a later one.
LEMMA InOrderFurther ==
  ASSUME NEW s, NEW m \in Int, NEW n \in Int, m <= n, InOrderUpTo(s, m)
  PROVE  InOrderUpTo(s, n)
<1>1. 0 .. m - 1 \subseteq 0 .. n - 1
  OBVIOUS
<1>2. QED
  BY <1>1 DEF InOrderUpTo

\* The records that are in some file.
LEMMA WrittenIs ==
  \A x : x \in Written <=> \E f \in Files : \E i \in DOMAIN file[f] : x \in Range(file[f][i])
BY DEF Written

(***************************************************************************)
(* Initially nothing is logged.                                            *)
(***************************************************************************)
LEMMA InitLog == Init => LogInv
<1> SUFFICES ASSUME Init PROVE LogInv
  OBVIOUS
<1> USE LoggerAssumption
<1>1. TypeOK
  <2>1. <<>> \in Seq(Records) /\ <<>> \in Seq(Seq(Records))
    OBVIOUS
  <2>2. file \in [Files -> Seq(Seq(Records))] /\ buf \in Seq(Records)
    BY <2>1 DEF Init
  <2>3. holds \in [Threads -> Records \union {None}]
    BY DEF Init
  <2>4. at \in [Threads -> {"idle", "put", "check", "drain", "consume", "write", "clear",
                            "exited", "off", "close", "replace", "push", "join", "destroy",
                            "gone"}]
    BY DEF Init
  <2>5. in = 0 /\ out = 0 /\ stored = {} /\ took = {} /\ running = TRUE /\ dying = FALSE
        /\ next = None /\ raced = FALSE /\ open = TRUE /\ outputs = <<Stdout>>
    BY DEF Init, Queue!Init
  <2>6. running \in BOOLEAN /\ dying \in BOOLEAN /\ raced \in BOOLEAN /\ open \in BOOLEAN
    BY <2>5
  <2>7. got \in [Records -> Records \union {None}]
    BY DEF Init, Queue!Init, Queue!Places, Records
  <2>8. outputs \in Seq(Files) /\ Len(outputs) <= MaxOutputs
    BY <2>5
  <2>9. QED
    BY <2>2, <2>3, <2>4, <2>5, <2>6, <2>7, <2>8 DEF TypeOK
<1>2. /\ \A u \in Users : at[u] = "idle" /\ holds[u] = None
      /\ at[Bg] = "check" /\ at[Owner] = "idle"
      /\ \A p \in Pollers : holds[p] = None
      /\ running = TRUE /\ dying = FALSE /\ next = None /\ raced = FALSE
      /\ in = 0 /\ out = 0 /\ stored = {}
      /\ outputs = <<Stdout>> /\ buf = <<>> /\ \A f \in Files : file[f] = <<>>
  BY DEF Init, Queue!Init, Threads, Pollers
<1>3. Modes
  BY <1>2 DEF Modes, Idle, Changing, Polls
<1>4. Holding /\ ~Consuming /\ ~Clearing /\ Appended = 0
  BY <1>2 DEF Holding, Pollers, Appended, Consuming, Clearing
<1>5. InQueue
  BY <1>2, <1>4 DEF InQueue
<1>6. Taken
  BY <1>2 DEF Taken
<1>7. InFiles
  <2>1. Increasing(<<>>) /\ Range(<<>>) = {} /\ outputs # <<>>
    BY <1>2 DEF Increasing, Range
  <2>2. \A f \in Files : InOrderUpTo(file[f], Appended) /\ AllBehind(file[f], buf)
    BY <1>2 DEF InOrderUpTo, AllBehind
  <2>3. \A p \in Pollers : at[p] # "consume"
    BY <1>4 DEF Consuming
  <2>4. 0 .. Appended - 1 = {}
    BY <1>4
  <2>5. QED
    BY <1>2, <1>4, <2>1, <2>2, <2>3, <2>4 DEF InFiles
<1>8. QED
  BY <1>1, <1>3, <1>4, <1>5, <1>6, <1>7 DEF LogInv

(***************************************************************************)
(* Facts that every step needs.                                            *)
(***************************************************************************)

\* The values of the variables, the sequences as sequences of numbers.
LEMMA LogTypes ==
  ASSUME TypeOK
  PROVE  /\ in \in Int /\ out \in Nat /\ NRecords \in Nat /\ Records = 0 .. NRecords - 1
         /\ buf \in Seq(Int) /\ \A f \in Files : file[f] \in Seq(Seq(Int))
         /\ outputs \in Seq(Files)
         /\ Bg \in Threads /\ Owner \in Threads /\ Users \subseteq Threads
         /\ Bg # Owner /\ Bg \notin Users /\ Owner \notin Users
         /\ Pollers = {Bg, Owner} /\ Threads = Users \union {Bg, Owner}
<1>1. Records \subseteq Int
  BY LoggerAssumption DEF Records
<1>2. Seq(Records) \subseteq Seq(Int)
  BY <1>1, SeqMonotonic
<1>3. Seq(Seq(Records)) \subseteq Seq(Seq(Int))
  BY <1>2, SeqMonotonic
<1>4. QED
  BY <1>2, <1>3, LoggerAssumption DEF TypeOK, Threads, Pollers, Records

\* Without a race, who polls is alone and has files to write to.
LEMMA AloneInPoll ==
  ASSUME LogInv, ~raced, NEW p \in Pollers, Polls(p)
  PROVE  /\ \A q \in Pollers : q # p => ~Polls(q)
         /\ outputs # <<>>
         /\ Consuming <=> at[p] = "consume"
         /\ Clearing <=> at[p] = "clear"
<1> USE LogTypes DEF LogInv
<1>1. ~Polls(Owner) \/ ~Polls(Bg)
  BY DEF Modes, Polls
<1>2. \A q \in Pollers : q # p => ~Polls(q)
  BY <1>1
<1>3. ~Changing
  BY DEF Modes
<1>4. QED
  BY <1>2, <1>3 DEF Consuming, Clearing, Polls, InFiles

\* A step that leaves m_buf and the files alone keeps what is in them.
LEMMA FilesKept ==
  ASSUME raced \/ InFiles, UNCHANGED <<buf, file>>, raced => raced',
         ~raced => /\ Appended' = Appended
                   /\ (Clearing' <=> Clearing)
                   /\ outputs' # <<>> \/ Changing'
                   /\ \A p \in Pollers : at'[p] = "consume" => holds'[p] = out' - 1
  PROVE  raced' \/ InFiles'
<1>1. Written' = Written
  BY DEF Written
<1>2. CASE ~raced
  BY <1>1, <1>2 DEF InFiles
<1>3. CASE raced
  BY <1>3
<1>4. QED
  BY <1>2, <1>3

\* A step that touches neither the queue nor the threads that log.
LEMMA QueueKept ==
  ASSUME LogInv, UNCHANGED <<in, out, stored, holds>>,
         \A u \in Users : at'[u] = at[u],
         dying' /\ at'[Owner] \in {"write", "clear", "destroy", "gone"} => out = in
  PROVE  InQueue'
BY DEF LogInv, InQueue

(***************************************************************************)
(* Threads that log.                                                       *)
(***************************************************************************)

\* A thread that logs moves, the pollers and the files stay.
LEMMA UserMoves ==
  ASSUME LogInv, NEW u \in Users, NEW l \in {"idle", "put"}, at' = [at EXCEPT ![u] = l],
         \A p \in Pollers : holds'[p] = holds[p], dying => l = "idle",
         UNCHANGED <<out, took, running, dying, next, raced, buf, outputs, file>>
  PROVE  /\ Modes' /\ Taken' /\ (raced' \/ InFiles')
         /\ \A p \in Pollers : at'[p] = at[p]
<1> USE LogTypes DEF LogInv
<1>1. at'[u] = l /\ \A t \in Threads : t # u => at'[t] = at[t]
  BY DEF TypeOK
<1>2. \A p \in Pollers : at'[p] = at[p] /\ (Polls(p)' <=> Polls(p))
  BY <1>1 DEF Polls
<1>3. Modes'
  BY <1>1, <1>2 DEF Modes, Idle, Changing
<1>4. Taken'
  BY <1>2 DEF Taken
<1>5. Appended' = Appended /\ (Clearing' <=> Clearing)
  BY <1>2 DEF Appended, Consuming, Clearing
<1>6. raced' \/ InFiles'
  <2>1. ~raced => \A p \in Pollers : at'[p] = "consume" => holds'[p] = out' - 1
    BY <1>2 DEF InFiles
  <2>2. ~raced => outputs' # <<>> \/ Changing'
    BY DEF InFiles, Changing
  <2>3. QED
    BY <1>5, <2>1, <2>2, FilesKept
<1>7. QED
  BY <1>2, <1>3, <1>4, <1>6

\* A thread claims a place for its record.
LEMMA LogStep ==
  ASSUME LogInv, NEW u \in Users, Log(u)
  PROVE  LogInv'
<1> USE LoggerAssumption
<1> USE LogTypes DEF LogInv
<1>1. /\ at[u] = "idle" /\ ~dying /\ in < NRecords /\ in' = in + 1
      /\ holds' = [holds EXCEPT ![u] = in] /\ at' = [at EXCEPT ![u] = "put"]
      /\ UNCHANGED <<out, stored, got, open, took, running, dying, next, raced, buf, outputs, file>>
  BY DEF Log, Goto, Queue!Reserve, fileVars
<1>2. in \in Records /\ in' \in 0 .. NRecords
  BY <1>1 DEF TypeOK, Records
<1>3. TypeOK'
  BY <1>1, <1>2 DEF TypeOK
<1>4. /\ at'[u] = "put" /\ holds'[u] = in /\ in # None
      /\ \A t \in Threads : t # u => at'[t] = at[t] /\ holds'[t] = holds[t]
  BY <1>1 DEF TypeOK
<1>5. /\ Modes' /\ Taken' /\ (raced' \/ InFiles')
      /\ \A p \in Pollers : at'[p] = at[p]
  BY <1>1, <1>4, UserMoves
<1>6. Holding'
  BY <1>1, <1>4 DEF Holding
<1>7. InQueue'
  <2>1. ASSUME NEW i \in out' .. in' - 1
        PROVE  i \in stored \/ \E v \in Users : at'[v] = "put" /\ holds'[v] = i
    <3>1. i = in \/ i \in out .. in - 1
      BY <1>1
    <3>2. QED
      BY <1>1, <1>4, <3>1 DEF InQueue
  <2>2. \A v \in Users : holds'[v] # None => holds'[v] < in'
    BY <1>1, <1>4 DEF InQueue, TypeOK
  <2>3. \A i \in stored : i < in'
    BY <1>1 DEF InQueue, TypeOK
  <2>4. out' <= in' /\ ~dying'
    BY <1>1 DEF InQueue
  <2>5. QED
    BY <1>1, <2>1, <2>2, <2>3, <2>4 DEF InQueue
<1>8. QED
  BY <1>3, <1>5, <1>6, <1>7

\* The record is in the queue.
LEMMA PublishStep ==
  ASSUME LogInv, NEW u \in Users, Publish(u)
  PROVE  LogInv'
<1> USE LoggerAssumption
<1> USE LogTypes DEF LogInv
<1>1. /\ at[u] = "put" /\ stored' = stored \union {holds[u]}
      /\ holds' = [holds EXCEPT ![u] = None] /\ at' = [at EXCEPT ![u] = "idle"]
      /\ UNCHANGED <<in, out, got, open, took, running, dying, next, raced, buf, outputs, file>>
  BY DEF Publish, Goto, Queue!Put, fileVars
<1>2. holds[u] \in Records /\ holds[u] < in
  BY <1>1 DEF TypeOK, Holding, InQueue
<1>3. TypeOK'
  BY <1>1, <1>2 DEF TypeOK
<1>4. /\ at'[u] = "idle" /\ holds'[u] = None
      /\ \A t \in Threads : t # u => at'[t] = at[t] /\ holds'[t] = holds[t]
  BY <1>1 DEF TypeOK
<1>5. /\ Modes' /\ Taken' /\ (raced' \/ InFiles')
      /\ \A p \in Pollers : at'[p] = at[p]
  BY <1>1, <1>4, UserMoves
<1>6. Holding'
  BY <1>1, <1>4 DEF Holding
<1>7. InQueue'
  <2>1. ASSUME NEW i \in out .. in - 1
        PROVE  i \in stored' \/ \E v \in Users : at'[v] = "put" /\ holds'[v] = i
    <3>1. CASE i \in stored \/ i = holds[u]
      BY <1>1, <3>1
    <3>2. CASE \E v \in Users : v # u /\ at[v] = "put" /\ holds[v] = i
      BY <1>4, <3>2
    <3>3. QED
      BY <3>1, <3>2 DEF InQueue
  <2>2. QED
    BY <1>1, <1>2, <1>4, <1>5, <2>1 DEF InQueue
<1>8. QED
  BY <1>3, <1>5, <1>6, <1>7

(***************************************************************************)
(* poll.                                                                   *)
(***************************************************************************)

\* A place of the queue is claimed.
LEMMA ClaimStep ==
  ASSUME LogInv, NEW p \in Pollers, Claim(p)
  PROVE  LogInv'
<1> USE LoggerAssumption
<1> USE LogTypes DEF LogInv
<1>1. /\ at[p] = "drain" /\ out \in stored /\ out' = out + 1
      /\ holds' = [holds EXCEPT ![p] = out] /\ at' = [at EXCEPT ![p] = "consume"]
      /\ UNCHANGED <<in, stored, got, open, took, running, dying, next, raced, buf, outputs, file>>
  BY DEF Claim, Goto, Queue!Request, fileVars
<1>2. out \in Records /\ out' \in 0 .. NRecords /\ out < in /\ p \in Threads /\ p \notin Users
  BY <1>1 DEF TypeOK, InQueue
<1>3. TypeOK'
  BY <1>1, <1>2 DEF TypeOK
<1>4. /\ at'[p] = "consume" /\ holds'[p] = out /\ out # None
      /\ \A t \in Threads : t # p => at'[t] = at[t] /\ holds'[t] = holds[t]
  BY <1>1, <1>2 DEF TypeOK
<1>5. \A q \in Pollers : Polls(q)' <=> Polls(q)
  BY <1>1, <1>4 DEF Polls
<1>6. Modes'
  BY <1>1, <1>2, <1>4, <1>5 DEF Modes, Idle, Changing, Polls
<1>7. Holding'
  <2>1. \A q \in Pollers : q # p => IF at'[q] = "consume" THEN holds'[q] \in 0 .. out' - 1 ELSE holds'[q] = None
    <3>1. 0 .. out - 1 \subseteq 0 .. out' - 1
      BY <1>1
    <3>2. QED
      BY <1>4, <3>1 DEF Holding
  <2>2. holds'[p] \in 0 .. out' - 1
    BY <1>1, <1>4
  <2>3. \A u \in Users : at'[u] = "put" => holds'[u] # None
    BY <1>2, <1>4 DEF Holding
  <2>4. QED
    BY <1>4, <2>1, <2>2, <2>3 DEF Holding
<1>8. InQueue'
  <2>1. \A u \in Users : at'[u] = at[u] /\ holds'[u] = holds[u]
    BY <1>2, <1>4
  <2>2. ~(dying' /\ at'[Owner] \in {"write", "clear", "destroy", "gone"})
    <3>1. dying => at[Owner] \notin {"write", "clear", "destroy", "gone"}
      BY <1>2 DEF InQueue
    <3>2. QED
      BY <1>1, <1>4, <3>1
  <2>3. out' <= in'
    BY <1>1, <1>2
  <2>4. \A i \in out' .. in' - 1 : i \in stored' \/ \E u \in Users : at'[u] = "put" /\ holds'[u] = i
    <3>1. \A i \in out' .. in' - 1 : i \in out .. in - 1
      BY <1>1
    <3>2. \A i \in out .. in - 1 : i \in stored' \/ \E u \in Users : at'[u] = "put" /\ holds'[u] = i
      BY <1>1, <2>1 DEF InQueue
    <3>3. QED
      BY <3>1, <3>2
  <2>5. \A i \in stored' : i < in'
    BY <1>1 DEF InQueue
  <2>6. \A u \in Users : holds'[u] # None => holds'[u] < in'
    BY <1>1, <2>1 DEF InQueue
  <2>7. QED
    BY <2>2, <2>3, <2>4, <2>5, <2>6 DEF InQueue
<1>9. Taken'
  BY <1>1, <1>5 DEF Taken
<1>10. raced' \/ InFiles'
  <2>1. CASE ~raced
    <3>1. Polls(p)
      BY <1>1 DEF Polls
    <3>2. \A q \in Pollers : q # p => ~Polls(q)
      BY <2>1, <3>1, AloneInPoll
    <3>3. outputs # <<>> /\ ~Consuming /\ ~Clearing
      BY <1>1, <2>1, <3>1, AloneInPoll
    <3>4. \A q \in Pollers : q # p => at'[q] # "consume" /\ at'[q] # "clear"
      BY <1>4, <3>2 DEF Polls
    <3>5. Consuming' /\ ~Clearing'
      BY <1>4, <3>4 DEF Consuming, Clearing
    <3>6. Appended' = Appended
      BY <1>1, <3>3, <3>5 DEF Appended
    <3>7. \A q \in Pollers : at'[q] = "consume" => holds'[q] = out' - 1
      BY <1>1, <1>4, <3>4
    <3>8. Clearing' <=> Clearing
      BY <3>3, <3>5
    <3>9. UNCHANGED <<buf, file>> /\ (raced => raced') /\ outputs' # <<>> /\ InFiles
      BY <1>1, <2>1, <3>3
    <3>10. QED
      BY ONLY <2>1, <3>6, <3>7, <3>8, <3>9, FilesKept
  <2>2. QED
    BY <1>1, <2>1
<1>11. QED
  BY <1>3, <1>6, <1>7, <1>8, <1>9, <1>10

\* The functor appends the record to m_buf.
LEMMA ConsumeStep ==
  ASSUME LogInv, NEW p \in Pollers, Consume(p)
  PROVE  LogInv'
<1> USE LoggerAssumption
<1> USE LogTypes DEF LogInv
<1>1. /\ at[p] = "consume" /\ stored' = stored \ {holds[p]}
      /\ got' = [got EXCEPT ![holds[p]] = holds[p]]
      /\ buf' = Append(buf, holds[p]) \/ (raced /\ buf' = buf)
      /\ holds' = [holds EXCEPT ![p] = None] /\ took' = took \union {p}
      /\ at' = [at EXCEPT ![p] = "drain"]
      /\ UNCHANGED <<in, out, open, running, dying, next, raced, outputs, file>>
  BY DEF Consume, Goto, Queue!Get
<1>2. holds[p] \in 0 .. out - 1 /\ holds[p] \in Records /\ p \in Threads /\ p \notin Users
  BY <1>1 DEF Holding, TypeOK
<1>3. TypeOK'
  <2>1. Append(buf, holds[p]) \in Seq(Records) /\ buf \in Seq(Records)
    BY <1>2, AppendProperties DEF TypeOK
  <2>2. QED
    BY <1>1, <1>2, <2>1 DEF TypeOK
<1>4. /\ at'[p] = "drain" /\ holds'[p] = None
      /\ \A t \in Threads : t # p => at'[t] = at[t] /\ holds'[t] = holds[t]
  BY <1>1, <1>2 DEF TypeOK
<1>5. \A q \in Pollers : Polls(q)' <=> Polls(q)
  BY <1>1, <1>4 DEF Polls
<1>6. Modes'
  BY <1>1, <1>2, <1>4, <1>5 DEF Modes, Idle, Changing, Polls
<1>7. Holding'
  BY <1>1, <1>2, <1>4 DEF Holding
<1>8. InQueue'
  <2>1. \A u \in Users : at'[u] = at[u] /\ holds'[u] = holds[u]
    BY <1>2, <1>4
  <2>2. ASSUME NEW i \in out .. in - 1
        PROVE  i \in stored' \/ \E u \in Users : at'[u] = "put" /\ holds'[u] = i
    <3>1. i # holds[p]
      BY <1>2
    <3>2. QED
      BY <1>1, <2>1, <3>1 DEF InQueue
  <2>3. dying' /\ at'[Owner] \in {"write", "clear", "destroy", "gone"} => out' = in'
    BY <1>1, <1>4 DEF InQueue
  <2>4. QED
    BY <1>1, <2>1, <2>2, <2>3 DEF InQueue
<1>9. Taken'
  <2>1. Polls(p)' /\ p \in took'
    BY <1>1, <1>4 DEF Polls
  <2>2. QED
    BY <2>1 DEF Taken
<1>10. raced' \/ InFiles'
  <2>1. SUFFICES ASSUME ~raced PROVE InFiles'
    BY <1>1
  <2>2. Polls(p) /\ InFiles
    BY <1>1, <2>1 DEF Polls
  <2>3. PICK x \in Nat : x = out - 1
    BY <1>2
  <2>4. holds[p] = x /\ buf' = Append(buf, x) /\ x \in Int
    BY <1>1, <2>1, <2>2, <2>3 DEF InFiles
  <2>5. \A q \in Pollers : q # p => ~Polls(q)
    BY <2>1, <2>2, AloneInPoll
  <2>6. outputs # <<>> /\ Consuming /\ ~Clearing
    BY <1>1, <2>1, <2>2, AloneInPoll
  <2>7. \A q \in Pollers : at'[q] # "consume" /\ at'[q] # "clear"
    BY <1>4, <2>5 DEF Polls
  <2>8. ~Consuming' /\ ~Clearing'
    BY <2>7 DEF Consuming, Clearing
  <2>9. Appended = x /\ Appended' = x + 1
    BY <1>1, <2>3, <2>6, <2>8 DEF Appended
  <2>10. Increasing(buf) /\ Range(buf) \subseteq 0 .. x - 1
    BY <2>2, <2>9 DEF InFiles
  <2>11. Increasing(buf') /\ Range(buf') = Range(buf) \union {x}
    BY <2>4, <2>10, AppendLarger
  <2>12. Range(buf') \subseteq 0 .. Appended' - 1
    BY <2>3, <2>9, <2>10, <2>11
  <2>13. ASSUME NEW f \in Files PROVE InOrderUpTo(file'[f], Appended')
    <3>1. InOrderUpTo(file[f], x)
      BY <2>2, <2>9 DEF InFiles
    <3>2. InOrderUpTo(file[f], x + 1)
      BY <2>4, <3>1, InOrderFurther
    <3>3. QED
      BY <1>1, <2>9, <3>2
  <2>14. ASSUME NEW f \in Files PROVE AllBehind(file'[f], buf')
    <3>1. InOrderUpTo(file[f], x) /\ AllBehind(file[f], buf)
      BY <2>2, <2>6, <2>9 DEF InFiles
    <3>2. ASSUME NEW i \in DOMAIN file[f] PROVE Behind(file[f][i], buf')
      <4>1. file[f][i] \in Seq(Int)
        BY <3>2, ElementOfSeq
      <4>2. Range(file[f][i]) \subseteq 0 .. x - 1 /\ Behind(file[f][i], buf)
        BY <3>1 DEF InOrderUpTo, AllBehind
      <4>3. QED
        BY <2>4, <4>1, <4>2, BehindAppend
    <3>3. QED
      BY <1>1, <3>2 DEF AllBehind
  <2>15. 0 .. Appended' - 1 \subseteq Written' \union Range(buf')
    <3>1. Written' = Written
      BY <1>1 DEF Written
    <3>2. 0 .. x - 1 \subseteq Written \union Range(buf)
      BY <2>2, <2>9 DEF InFiles
    <3>3. \A i \in 0 .. Appended' - 1 : i \in 0 .. x - 1 \/ i = x
      BY <2>3, <2>9
    <3>4. QED
      BY <2>11, <3>1, <3>2, <3>3
  <2>16. QED
    BY <1>1, <2>6, <2>7, <2>8, <2>11, <2>12, <2>13, <2>14, <2>15 DEF InFiles
<1>11. QED
  BY <1>3, <1>6, <1>7, <1>8, <1>9, <1>10

\* The labels a thread has after poll.
LEMMA AfterPollIs ==
  ASSUME LogInv, NEW p \in Pollers, Polls(p)
  PROVE  /\ p = Bg => AfterPoll(p) = "check"
         /\ p = Owner /\ dying => AfterPoll(p) = "destroy"
         /\ p = Owner /\ ~dying => AfterPoll(p) = "close" /\ raced
         /\ AfterPoll(p) \in {"check", "destroy", "close"}
<1> USE LogTypes DEF LogInv
<1>1. QED
  BY DEF AfterPoll, Modes

\* A step inside poll: the poller goes on to another label of poll or leaves.
LEMMA PollModes ==
  ASSUME LogInv, NEW p \in Pollers, Polls(p),
         NEW l \in {"drain", "write", "clear", AfterPoll(p)}, at' = [at EXCEPT ![p] = l],
         UNCHANGED <<running, dying, next, raced, outputs>>
  PROVE  /\ Modes'
         /\ at'[p] = l
         /\ \A t \in Threads : t # p => at'[t] = at[t]
<1> USE LogTypes DEF LogInv
<1>1. /\ p = Bg => AfterPoll(p) = "check"
      /\ p = Owner /\ dying => AfterPoll(p) = "destroy"
      /\ p = Owner /\ ~dying => AfterPoll(p) = "close" /\ raced
  BY AfterPollIs
<1>2. at'[p] = l /\ \A t \in Threads : t # p => at'[t] = at[t]
  BY DEF TypeOK
<1>3. CASE p = Bg
  <2>1. l \in {"drain", "write", "clear", "check"} /\ at[Bg] \in {"drain", "consume", "write", "clear"}
    BY <1>1, <1>3 DEF Polls
  <2>2. at'[Owner] = at[Owner] /\ at'[Bg] = l /\ \A u \in Users : at'[u] = at[u]
    BY <1>2, <1>3
  <2>3. Polls(Bg)' => Polls(Bg)
    BY <2>1 DEF Polls
  <2>4. Polls(Owner)' <=> Polls(Owner)
    BY <2>2 DEF Polls
  <2>5. QED
    BY <1>2, <2>1, <2>2, <2>3, <2>4 DEF Modes, Idle, Changing
<1>4. CASE p = Owner
  <2>1. /\ l \in {"drain", "write", "clear"} \/ l = (IF dying THEN "destroy" ELSE "close")
        /\ at[Owner] \in {"drain", "consume", "write", "clear"}
    BY <1>1, <1>4 DEF Polls
  <2>2. at'[Owner] = l /\ at'[Bg] = at[Bg] /\ \A u \in Users : at'[u] = at[u]
    BY <1>2, <1>4
  <2>3. Polls(Bg)' <=> Polls(Bg)
    BY <2>2 DEF Polls
  <2>4. ~dying => raced
    BY <1>4 DEF Modes
  <2>5. QED
    BY <1>2, <2>1, <2>2, <2>3, <2>4 DEF Modes, Idle, Changing
<1>5. QED
  BY <1>2, <1>3, <1>4

\* The next record is not there.  If it is the destructor that polls, no
\* thread logs any more, and none is left in the queue.
LEMMA GiveUpStep ==
  ASSUME LogInv, NEW p \in Pollers, GiveUp(p)
  PROVE  LogInv'
<1> USE LoggerAssumption
<1> USE LogTypes DEF LogInv
<1>1. PICK l : l = IF p \in took THEN "write" ELSE AfterPoll(p)
  OBVIOUS
<1>2. /\ at[p] = "drain" /\ out \notin stored /\ at' = [at EXCEPT ![p] = l]
      /\ UNCHANGED <<in, out, stored, got, open, holds, took, running, dying, next, raced, buf,
                     outputs, file>>
  BY <1>1 DEF GiveUp, Goto, queueVars, fileVars
<1>3. Polls(p) /\ p \in Threads /\ p \notin Users
  BY <1>2 DEF Polls
<1>4. l \in {"check", "destroy", "close", "write"}
  BY <1>1, <1>3, AfterPollIs
<1>5. TypeOK'
  BY <1>2, <1>4 DEF TypeOK
<1>6. /\ Modes'
      /\ at'[p] = l
      /\ \A t \in Threads : t # p => at'[t] = at[t]
  BY <1>1, <1>2, <1>3, PollModes
<1>7. Holding'
  BY <1>2, <1>3, <1>4, <1>6 DEF Holding
<1>8. InQueue'
  <2>1. CASE p = Owner /\ dying
    <3>1. \A u \in Users : at[u] # "put"
      BY <2>1 DEF Modes, Idle
    <3>2. out \notin out .. in - 1
      BY <1>2, <3>1 DEF InQueue
    <3>3. out = in
      BY <3>2 DEF InQueue, TypeOK
    <3>4. QED
      BY <1>2, <1>3, <1>6, <3>3, QueueKept
  <2>2. CASE ~(p = Owner /\ dying)
    <3>1. dying' /\ at'[Owner] \in {"write", "clear", "destroy", "gone"} => out = in
      BY <1>2, <1>6, <2>2 DEF InQueue
    <3>2. QED
      BY <1>2, <1>3, <1>6, <3>1, QueueKept
  <2>3. QED
    BY <2>1, <2>2
<1>9. Taken'
  <2>1. ASSUME buf # <<>> PROVE \E q \in Pollers : Polls(q)' /\ q \in took
    <3>1. PICK q \in Pollers : Polls(q) /\ q \in took
      BY <2>1 DEF Taken
    <3>2. CASE q = p
      BY <1>1, <1>6, <3>1, <3>2 DEF Polls
    <3>3. CASE q # p
      BY <1>6, <3>1, <3>3 DEF Polls
    <3>4. QED
      BY <3>2, <3>3
  <2>2. QED
    BY <1>2, <2>1 DEF Taken
<1>10. raced' \/ InFiles'
  <2>1. CASE ~raced
    <3>1. \A q \in Pollers : q # p => ~Polls(q)
      BY <1>3, <2>1, AloneInPoll
    <3>2. outputs # <<>> /\ ~Consuming /\ ~Clearing
      BY <1>2, <1>3, <2>1, AloneInPoll
    <3>3. \A q \in Pollers : at'[q] # "consume" /\ at'[q] # "clear"
      BY <1>4, <1>6, <3>1 DEF Polls
    <3>4. ~Consuming' /\ ~Clearing'
      BY <3>3 DEF Consuming, Clearing
    <3>5. Appended' = Appended
      BY <1>2, <3>2, <3>4 DEF Appended
    <3>6. UNCHANGED <<buf, file>> /\ (raced => raced') /\ outputs' # <<>> /\ InFiles
      BY <1>2, <2>1, <3>2
    <3>7. QED
      BY ONLY <2>1, <3>2, <3>3, <3>4, <3>5, <3>6, FilesKept
  <2>2. QED
    BY <1>2, <2>1
<1>11. QED
  BY <1>5, <1>6, <1>7, <1>8, <1>9, <1>10

\* The number of entries of m_outputs that are the file f.
LEMMA Entries ==
  ASSUME TypeOK, NEW f \in Files
  PROVE  \E k \in Nat : /\ Copies(f) = [i \in 1 .. k |-> buf]
                        /\ \A j \in DOMAIN outputs : outputs[j] = f => k > 0
<1> USE LogTypes
<1> DEFINE S == {j \in DOMAIN outputs : outputs[j] = f}
<1>1. DOMAIN outputs = 1 .. Len(outputs) /\ Len(outputs) \in Nat
  BY LenProperties
<1>2. IsFiniteSet(DOMAIN outputs)
  BY <1>1, FS_Interval
<1>3. IsFiniteSet(S)
  BY <1>2, FS_Subset
<1>4. Cardinality(S) \in Nat
  BY <1>3, FS_CardinalityType
<1>5. Cardinality(S) = 0 => S = {}
  BY <1>3, FS_EmptySet
<1>6. \A j \in DOMAIN outputs : outputs[j] = f => Cardinality(S) > 0
  BY <1>4, <1>5
<1>7. Copies(f) = [i \in 1 .. Cardinality(S) |-> buf]
  BY DEF Copies
<1>8. QED
  BY <1>4, <1>6, <1>7

\* m_buf goes to every file.
LEMMA WriteFileStep ==
  ASSUME LogInv, NEW p \in Pollers, WriteFile(p)
  PROVE  LogInv'
<1> USE LoggerAssumption
<1> USE LogTypes DEF LogInv
<1>1. /\ at[p] = "write" /\ at' = [at EXCEPT ![p] = "clear"]
      /\ \/ file' = [f \in Files |-> IF buf = <<>> THEN file[f] ELSE file[f] \o Copies(f)]
         \/ raced /\ file' = file
      /\ UNCHANGED <<in, out, stored, got, open, holds, took, running, dying, next, raced, buf,
                     outputs>>
  BY DEF WriteFile, Goto, queueVars
<1>2. Polls(p) /\ p \in Threads /\ p \notin Users
  BY <1>1 DEF Polls
<1>3. /\ Modes'
      /\ at'[p] = "clear"
      /\ \A t \in Threads : t # p => at'[t] = at[t]
  BY <1>1, <1>2, PollModes
<1>4. TypeOK'
  <2>1. ASSUME NEW f \in Files PROVE file[f] \o Copies(f) \in Seq(Seq(Records))
    <3>1. PICK k \in Nat : Copies(f) = [i \in 1 .. k |-> buf]
      BY Entries
    <3>2. Copies(f) \in Seq(Seq(Records))
      BY <3>1 DEF TypeOK
    <3>3. QED
      BY <3>2, ConcatProperties DEF TypeOK
  <2>2. file' \in [Files -> Seq(Seq(Records))]
    <3>1. file \in [Files -> Seq(Seq(Records))]
      BY DEF TypeOK
    <3>2. [f \in Files |-> IF buf = <<>> THEN file[f] ELSE file[f] \o Copies(f)]
            \in [Files -> Seq(Seq(Records))]
      BY <2>1, <3>1
    <3>3. QED
      BY <1>1, <3>1, <3>2
  <2>3. at' \in [Threads -> {"idle", "put", "check", "drain", "consume", "write", "clear",
                             "exited", "off", "close", "replace", "push", "join", "destroy",
                             "gone"}]
    BY <1>1 DEF TypeOK
  <2>4. QED
    BY <1>1, <2>2, <2>3 DEF TypeOK
<1>5. Holding'
  BY <1>1, <1>2, <1>3 DEF Holding
<1>6. InQueue'
  <2>1. dying' /\ at'[Owner] \in {"write", "clear", "destroy", "gone"} => out = in
    BY <1>1, <1>3 DEF InQueue
  <2>2. QED
    BY <1>1, <1>2, <1>3, <2>1, QueueKept
<1>7. Taken'
  <2>1. \A q \in Pollers : Polls(q) => Polls(q)'
    BY <1>3 DEF Polls
  <2>2. QED
    BY <1>1, <2>1 DEF Taken
<1>8. raced' \/ InFiles'
  <2>1. SUFFICES ASSUME ~raced PROVE InFiles'
    BY <1>1
  <2>2. InFiles /\ outputs # <<>> /\ ~Consuming /\ ~Clearing
    BY <1>1, <1>2, <2>1, AloneInPoll
  <2>3. \A q \in Pollers : q # p => ~Polls(q)
    BY <1>2, <2>1, AloneInPoll
  <2>4. \A q \in Pollers : at'[q] # "consume"
    BY <1>3, <2>3 DEF Polls
  <2>5. ~Consuming' /\ Clearing'
    BY <1>3, <2>4 DEF Consuming, Clearing
  <2>6. Appended' = Appended /\ Appended = out
    BY <1>1, <2>2, <2>5 DEF Appended
  <2>7. file' = [f \in Files |-> IF buf = <<>> THEN file[f] ELSE file[f] \o Copies(f)]
    BY <1>1, <2>1
  <2>8. ASSUME NEW f \in Files PROVE InOrderUpTo(file'[f], Appended')
    <3>1. InOrderUpTo(file[f], out) /\ AllBehind(file[f], buf)
      BY <2>2, <2>6 DEF InFiles
    <3>2. Increasing(buf) /\ Range(buf) \subseteq 0 .. out - 1
      BY <2>2, <2>6 DEF InFiles
    <3>3. PICK k \in Nat : Copies(f) = [i \in 1 .. k |-> buf]
      BY Entries
    <3>4. InOrderUpTo(file[f] \o Copies(f), out)
      <4>1. file[f] \in Seq(Seq(Int)) /\ buf \in Seq(Int) /\ out \in Int /\ k \in Nat
        OBVIOUS
      <4>2. InOrderUpTo(file[f] \o [i \in 1 .. k |-> buf], out)
        BY ONLY <3>1, <3>2, <4>1, WriteBehind
      <4>3. QED
        BY <3>3, <4>2
    <3>5. QED
      BY <2>6, <2>7, <3>1, <3>4
  <2>9. ASSUME NEW f \in Files, NEW i \in DOMAIN file[f]
        PROVE  i \in DOMAIN file'[f] /\ file'[f][i] = file[f][i]
    <3>1. PICK k \in Nat : Copies(f) = [j \in 1 .. k |-> buf]
      BY Entries
    <3>2. Copies(f) \in Seq(Seq(Int)) /\ file[f] \in Seq(Seq(Int))
      BY <3>1
    <3>3. i \in DOMAIN (file[f] \o Copies(f)) /\ (file[f] \o Copies(f))[i] = file[f][i]
      BY <3>2, ConcatProperties, LenProperties
    <3>4. QED
      BY <2>7, <3>3
  <2>10. Written \subseteq Written'
    <3>1. SUFFICES ASSUME NEW x \in Written PROVE x \in Written'
      OBVIOUS
    <3>2. PICK f \in Files : \E i \in DOMAIN file[f] : x \in Range(file[f][i])
      BY WrittenIs
    <3>3. PICK i \in DOMAIN file[f] : x \in Range(file[f][i])
      BY <3>2
    <3>4. i \in DOMAIN file'[f] /\ x \in Range(file'[f][i])
      BY <2>9, <3>3
    <3>5. QED
      BY <3>4 DEF Written
  <2>11. Range(buf) \subseteq Written'
    <3>1. CASE buf = <<>>
      BY <3>1 DEF Range
    <3>2. CASE buf # <<>>
      <4>1. PICK g \in Files : \E j \in DOMAIN outputs : outputs[j] = g
        <5>1. 1 \in DOMAIN outputs /\ outputs[1] \in Files
          BY <2>2, EmptySeq, LenProperties, ElementOfSeq
        <5>2. QED
          BY <5>1
      <4>2. PICK k \in Nat : Copies(g) = [j \in 1 .. k |-> buf] /\ k > 0
        BY <4>1, Entries
      <4>3. Copies(g) \in Seq(Seq(Int)) /\ Len(Copies(g)) = k /\ Copies(g)[1] = buf
        BY <4>2
      <4>4. PICK n \in Nat : n = Len(file[g])
        BY LenProperties
      <4>5. n + 1 \in DOMAIN (file[g] \o Copies(g)) /\ (file[g] \o Copies(g))[n + 1] = buf
        BY <4>2, <4>3, <4>4, ConcatProperties, LenProperties
      <4>6. n + 1 \in DOMAIN file'[g] /\ file'[g][n + 1] = buf
        BY <2>7, <3>2, <4>5
      <4>7. QED
        BY <4>6 DEF Written
    <3>3. QED
      BY <3>1, <3>2
  <2>12. 0 .. Appended' - 1 \subseteq Written' \union Range(buf')
    BY <1>1, <2>2, <2>6, <2>10 DEF InFiles
  <2>13. Increasing(buf') /\ Range(buf') \subseteq 0 .. Appended' - 1
    BY <1>1, <2>2, <2>6 DEF InFiles
  <2>14. QED
    BY <1>1, <2>2, <2>4, <2>5, <2>8, <2>11, <2>12, <2>13 DEF InFiles
<1>9. QED
  BY <1>3, <1>4, <1>5, <1>6, <1>7, <1>8

\* m_buf is cleared.
LEMMA ClearStep ==
  ASSUME LogInv, NEW p \in Pollers, Clear(p)
  PROVE  LogInv'
<1> USE LoggerAssumption
<1> USE LogTypes DEF LogInv
<1>1. PICK l : l = AfterPoll(p)
  OBVIOUS
<1>2. /\ at[p] = "clear" /\ buf' = <<>> /\ at' = [at EXCEPT ![p] = l]
      /\ UNCHANGED <<in, out, stored, got, open, holds, took, running, dying, next, raced,
                     outputs, file>>
  BY <1>1 DEF Clear, Goto, queueVars
<1>3. Polls(p) /\ p \in Threads /\ p \notin Users
  BY <1>2 DEF Polls
<1>4. l \in {"check", "destroy", "close"}
  BY <1>1, <1>3, AfterPollIs
<1>5. TypeOK'
  <2>1. buf' \in Seq(Records)
    BY <1>2, EmptySeq
  <2>2. QED
    BY <1>2, <1>4, <2>1 DEF TypeOK
<1>6. /\ Modes'
      /\ at'[p] = l
      /\ \A t \in Threads : t # p => at'[t] = at[t]
  BY <1>1, <1>2, <1>3, PollModes
<1>7. Holding'
  BY <1>2, <1>3, <1>4, <1>6 DEF Holding
<1>8. InQueue'
  <2>1. dying' /\ at'[Owner] \in {"write", "clear", "destroy", "gone"} => out = in
    BY <1>2, <1>6 DEF InQueue
  <2>2. QED
    BY <1>2, <1>3, <1>6, <2>1, QueueKept
<1>9. Taken'
  BY <1>2 DEF Taken
<1>10. raced' \/ InFiles'
  <2>1. SUFFICES ASSUME ~raced PROVE InFiles'
    BY <1>2
  <2>2. InFiles /\ outputs # <<>> /\ ~Consuming /\ Clearing
    BY <1>2, <1>3, <2>1, AloneInPoll
  <2>3. \A q \in Pollers : q # p => ~Polls(q)
    BY <1>3, <2>1, AloneInPoll
  <2>4. \A q \in Pollers : at'[q] # "consume" /\ at'[q] # "clear"
    BY <1>4, <1>6, <2>3 DEF Polls
  <2>5. ~Consuming' /\ ~Clearing'
    BY <2>4 DEF Consuming, Clearing
  <2>6. Appended' = Appended
    BY <1>2, <2>2, <2>5 DEF Appended
  <2>7. Written' = Written /\ Range(buf) \subseteq Written
    BY <1>2, <2>2 DEF Written, InFiles
  <2>8. Increasing(buf') /\ Range(buf') = {} /\ \A f \in Files : AllBehind(file'[f], buf')
    BY <1>2 DEF Increasing, Range, AllBehind, Behind
  <2>9. 0 .. Appended' - 1 \subseteq Written' \union Range(buf')
    BY <2>2, <2>6, <2>7 DEF InFiles
  <2>10. \A f \in Files : InOrderUpTo(file'[f], Appended')
    BY <1>2, <2>2, <2>6 DEF InFiles
  <2>11. QED
    BY <1>2, <2>2, <2>4, <2>5, <2>8, <2>9, <2>10 DEF InFiles
<1>11. QED
  BY <1>5, <1>6, <1>7, <1>8, <1>9, <1>10

(***************************************************************************)
(* The background thread's loop and the owner.                             *)
(***************************************************************************)

\* A step of the background thread or the owner outside a poll.
LEMMA ControlStep ==
  ASSUME LogInv, UNCHANGED <<in, out, stored, holds, buf, file>>,
         \A u \in Users : at'[u] = at[u],
         \A p \in Pollers : /\ at'[p] = "consume" <=> at[p] = "consume"
                            /\ at'[p] = "clear" <=> at[p] = "clear"
                            /\ Polls(p) /\ p \in took => Polls(p)' /\ p \in took',
         dying' /\ at'[Owner] \in {"write", "clear", "destroy", "gone"} => out = in,
         raced => raced', outputs' # <<>> \/ Changing'
  PROVE  Holding' /\ InQueue' /\ Taken' /\ (raced' \/ InFiles')
<1> USE LogTypes DEF LogInv
<1>1. (Consuming' <=> Consuming) /\ (Clearing' <=> Clearing)
  BY DEF Consuming, Clearing
<1>2. Appended' = Appended
  BY <1>1 DEF Appended
<1>3. Holding'
  BY DEF Holding
<1>4. InQueue'
  BY QueueKept
<1>5. Taken'
  BY DEF Taken
<1>6. ~raced => \A p \in Pollers : at'[p] = "consume" => holds'[p] = out' - 1
  BY DEF InFiles
<1>7. raced' \/ InFiles'
  BY <1>1, <1>2, <1>6, FilesKept
<1>8. QED
  BY <1>3, <1>4, <1>5, <1>7

\* The background thread looks at bgt_running.
LEMMA CheckRunningStep ==
  ASSUME LogInv, CheckRunning
  PROVE  LogInv'
<1> USE LoggerAssumption
<1> USE LogTypes DEF LogInv
<1>1. PICK l : l = IF running THEN "drain" ELSE "exited"
  OBVIOUS
<1>2. /\ at[Bg] = "check" /\ at' = [at EXCEPT ![Bg] = l] /\ took' = took \ {Bg}
      /\ raced' \in BOOLEAN /\ (raced => raced') /\ (running /\ Changing => raced')
      /\ UNCHANGED <<in, out, stored, got, open, holds, running, dying, next, buf, outputs, file>>
  BY <1>1 DEF CheckRunning, Goto, queueVars, fileVars, TypeOK
<1>3. at'[Bg] = l /\ \A t \in Threads : t # Bg => at'[t] = at[t]
  BY <1>2 DEF TypeOK
<1>4. TypeOK'
  BY <1>1, <1>2 DEF TypeOK
<1>5. (Changing' <=> Changing) /\ (Polls(Owner)' <=> Polls(Owner)) /\ (Polls(Bg)' <=> running)
  BY <1>1, <1>2, <1>3 DEF Changing, Polls
<1>6. Modes'
  BY <1>1, <1>2, <1>3, <1>5 DEF Modes, Idle
<1>7. \A p \in Pollers : /\ at'[p] = "consume" <=> at[p] = "consume"
                         /\ at'[p] = "clear" <=> at[p] = "clear"
                         /\ Polls(p) /\ p \in took => Polls(p)' /\ p \in took'
  BY <1>1, <1>2, <1>3 DEF Polls
<1>8. dying' /\ at'[Owner] \in {"write", "clear", "destroy", "gone"} => out = in
  BY <1>2, <1>3 DEF InQueue
<1>9. CASE raced
  <2>1. Holding' /\ InQueue' /\ Taken'
    <3>1. Holding'
      BY <1>2, <1>3, <1>7 DEF Holding
    <3>2. InQueue'
      BY <1>2, <1>3, <1>8, QueueKept
    <3>3. Taken'
      BY <1>2, <1>7 DEF Taken
    <3>4. QED
      BY <3>1, <3>2, <3>3
  <2>2. QED
    BY <1>2, <1>4, <1>6, <1>9, <2>1
<1>10. CASE ~raced
  <2>1. outputs' # <<>> \/ Changing'
    BY <1>2, <1>5, <1>10 DEF InFiles
  <2>2. Holding' /\ InQueue' /\ Taken' /\ (raced' \/ InFiles')
    BY <1>2, <1>3, <1>7, <1>8, <2>1, ControlStep
  <2>3. QED
    BY <1>4, <1>6, <2>2
<1>11. QED
  BY <1>9, <1>10

\* A step in which the owner begins or goes on to change the files.
LEMMA ChangeStep ==
  ASSUME LogInv, NEW f \in Files,
         SetLogFile(f) \/ AddLogFile(f) \/ ClearOutputs \/ PushOutput
  PROVE  LogInv'
<1> USE LoggerAssumption
<1> USE LogTypes DEF LogInv
<1>1. /\ UNCHANGED <<in, out, stored, got, open, holds, running, dying, buf, file>>
      /\ at[Owner] \in {"idle", "close", "replace", "push"} /\ ~dying
  BY DEF SetLogFile, AddLogFile, ClearOutputs, PushOutput, queueVars, fileVars, Modes
<1>2. PICK l \in {"drain", "replace", "push", "idle"} : at' = [at EXCEPT ![Owner] = l]
  BY DEF SetLogFile, AddLogFile, ClearOutputs, PushOutput, Goto
<1>3. at'[Owner] = l /\ \A t \in Threads : t # Owner => at'[t] = at[t]
  BY <1>2 DEF TypeOK
<1>4. Polls(Bg)' <=> Polls(Bg)
  BY <1>3 DEF Polls
<1>5. /\ raced' \in BOOLEAN /\ (raced => raced')
      /\ l # "idle" => next' \in Files /\ next' # None
      /\ l = "idle" => next' = None /\ outputs' # <<>>
      /\ l # "idle" /\ Polls(Bg) => raced'
      /\ l = "drain" => raced'
      /\ outputs' \in Seq(Files) /\ Len(outputs') <= MaxOutputs
      /\ l = "push" => Len(outputs') < MaxOutputs
      /\ took' = took \/ took' = took \ {Owner}
  <2>1. CASE SetLogFile(f)
    <3>1. /\ next' = f /\ f # None /\ raced' = (raced \/ Polls(Bg)) /\ took' = took \ {Owner}
          /\ outputs' = outputs /\ at[Owner] = "idle"
          /\ at' = [at EXCEPT ![Owner] = IF buf = <<>> \/ outputs = <<>> THEN "replace" ELSE "drain"]
      BY <2>1 DEF SetLogFile, Goto, fileVars
    <3>2. l = IF buf = <<>> \/ outputs = <<>> THEN "replace" ELSE "drain"
      BY <1>2, <3>1 DEF TypeOK
    <3>3. l = "drain" => Polls(Bg)
      BY <3>1, <3>2 DEF Taken, Polls
    <3>4. raced' \in BOOLEAN
      BY <3>1 DEF TypeOK, Polls
    <3>5. QED
      BY <3>1, <3>2, <3>3, <3>4 DEF TypeOK
  <2>2. CASE AddLogFile(f)
    <3>1. /\ next' = f /\ f # None /\ raced' = (raced \/ Polls(Bg)) /\ took' = took
          /\ outputs' = outputs /\ Len(outputs) < MaxOutputs /\ l = "push"
      BY <1>2, <2>2 DEF AddLogFile, Goto, fileVars, TypeOK
    <3>2. raced' \in BOOLEAN
      BY <3>1 DEF TypeOK, Polls
    <3>3. QED
      BY <3>1, <3>2 DEF TypeOK
  <2>3. CASE ClearOutputs
    <3>1. /\ next' = next /\ raced' = raced /\ took' = took /\ outputs' = <<>> /\ l = "push"
          /\ at[Owner] \in {"close", "replace"}
      BY <1>2, <2>3 DEF ClearOutputs, Goto, TypeOK
    <3>2. next \in Files /\ next # None /\ (Polls(Bg) => raced)
      BY <1>1, <3>1 DEF Modes, Changing, TypeOK
    <3>3. <<>> \in Seq(Files) /\ Len(<<>>) = 0
      BY EmptySeq
    <3>4. raced' \in BOOLEAN
      BY <3>1 DEF TypeOK
    <3>5. QED
      BY <3>1, <3>2, <3>3, <3>4
  <2>4. CASE PushOutput
    <3>1. /\ next' = None /\ raced' = raced /\ took' = took /\ outputs' = Append(outputs, next)
          /\ l = "idle" /\ at[Owner] = "push"
      BY <1>2, <2>4 DEF PushOutput, Goto, TypeOK
    <3>2. next \in Files /\ Len(outputs) < MaxOutputs
      BY <1>1, <3>1 DEF Modes, Changing, TypeOK
    <3>3. outputs' \in Seq(Files) /\ Len(outputs') = Len(outputs) + 1 /\ Len(outputs) \in Nat
      BY <3>1, <3>2, AppendProperties, LenProperties
    <3>4. outputs' # <<>> /\ Len(outputs') <= MaxOutputs
      BY <3>2, <3>3, EmptySeq
    <3>5. raced' \in BOOLEAN
      BY <3>1 DEF TypeOK
    <3>6. QED
      BY <3>1, <3>3, <3>4, <3>5
  <2>5. QED
    BY <2>1, <2>2, <2>3, <2>4
<1>6. TypeOK'
  <2>1. next' \in Files \union {None} /\ took' \in SUBSET Pollers
    BY <1>5 DEF TypeOK
  <2>2. at' \in [Threads -> {"idle", "put", "check", "drain", "consume", "write", "clear",
                             "exited", "off", "close", "replace", "push", "join", "destroy",
                             "gone"}]
    BY <1>2 DEF TypeOK
  <2>3. QED
    BY <1>1, <1>5, <2>1, <2>2 DEF TypeOK
<1>7. Modes'
  <2>1. Changing' <=> l # "idle"
    BY <1>5 DEF Changing
  <2>2. Polls(Owner)' <=> l = "drain"
    BY <1>3 DEF Polls
  <2>3. at'[Bg] = at[Bg] /\ \A u \in Users : at'[u] = at[u]
    BY <1>3
  <2>4. QED
    BY <1>1, <1>3, <1>4, <1>5, <2>1, <2>2, <2>3 DEF Modes
<1>8. \A p \in Pollers : /\ at'[p] = "consume" <=> at[p] = "consume"
                         /\ at'[p] = "clear" <=> at[p] = "clear"
                         /\ Polls(p) /\ p \in took => Polls(p)' /\ p \in took'
  BY <1>1, <1>3, <1>5 DEF Polls
<1>9. outputs' # <<>> \/ Changing'
  BY <1>5 DEF Changing
<1>10. Holding' /\ InQueue' /\ Taken' /\ (raced' \/ InFiles')
  BY <1>1, <1>3, <1>5, <1>8, <1>9, ControlStep
<1>11. QED
  BY <1>6, <1>7, <1>10

\* The owner starts, stops and joins the background thread, and destroys the
\* logger.
LEMMA OwnerStep ==
  ASSUME LogInv, Stop \/ Join \/ Start \/ Destroy
  PROVE  LogInv'
<1> USE LoggerAssumption
<1> USE LogTypes DEF LogInv
<1>1. /\ UNCHANGED <<in, out, stored, got, open, holds, next, raced, buf, outputs, file>>
      /\ took' \in {took, took \ {Owner}}
      /\ \A u \in Users : at'[u] = at[u]
      /\ at[Owner] \in {"idle", "join"}
      /\ at'[Owner] \in {"idle", "join", "drain"}
      /\ at'[Bg] = at[Bg] \/ (at[Bg] \in {"off", "exited"} /\ at'[Bg] \in {"off", "check"})
  <2>1. CASE Stop
    BY <2>1 DEF Stop, Goto, queueVars, fileVars, TypeOK
  <2>2. CASE Join
    BY <2>2 DEF Join, queueVars, fileVars, TypeOK
  <2>3. CASE Start
    <3>1. at[Bg] = "off"
      BY <2>3 DEF Start, Modes
    <3>2. QED
      BY <2>3, <3>1 DEF Start, Goto, queueVars, fileVars, TypeOK
  <2>4. CASE Destroy
    BY <2>4 DEF Destroy, Goto, queueVars, fileVars, TypeOK
  <2>5. QED
    BY <2>1, <2>2, <2>3, <2>4
<1>2. TypeOK'
  <2>1. /\ running' \in BOOLEAN /\ dying' \in BOOLEAN
    BY DEF Stop, Join, Start, Destroy, TypeOK
  <2>2. at' \in [Threads -> {"idle", "put", "check", "drain", "consume", "write", "clear",
                             "exited", "off", "close", "replace", "push", "join", "destroy",
                             "gone"}]
    BY DEF Stop, Join, Start, Destroy, Goto, TypeOK
  <2>3. QED
    BY <1>1, <2>1, <2>2 DEF TypeOK
<1>3. next = None /\ next' = None
  BY <1>1 DEF Modes, Changing
<1>4. Modes'
  <2>1. ~Changing /\ ~Changing'
    BY <1>3 DEF Changing
  <2>2. CASE Stop
    BY <1>1, <2>1, <2>2 DEF Stop, Goto, Modes, Idle, Polls, TypeOK
  <2>3. CASE Join
    BY <1>1, <2>1, <2>3 DEF Join, Modes, Idle, Polls, TypeOK
  <2>4. CASE Start
    BY <1>1, <2>1, <2>4 DEF Start, Goto, Modes, Idle, Polls, TypeOK
  <2>5. CASE Destroy
    BY <1>1, <2>1, <2>5 DEF Destroy, Goto, Modes, Idle, Polls, TypeOK
  <2>6. QED
    BY <2>2, <2>3, <2>4, <2>5
<1>5. \A p \in Pollers : /\ at'[p] = "consume" <=> at[p] = "consume"
                         /\ at'[p] = "clear" <=> at[p] = "clear"
                         /\ Polls(p) /\ p \in took => Polls(p)' /\ p \in took'
  BY <1>1 DEF Polls
<1>6. CASE raced
  <2>1. Holding'
    BY <1>1, <1>5 DEF Holding
  <2>2. InQueue'
    BY <1>1, QueueKept
  <2>3. Taken'
    BY <1>1, <1>5 DEF Taken
  <2>4. QED
    BY <1>1, <1>2, <1>4, <1>6, <2>1, <2>2, <2>3
<1>7. CASE ~raced
  <2>1. outputs' # <<>> \/ Changing'
    BY <1>1, <1>3, <1>7 DEF InFiles, Changing
  <2>2. Holding' /\ InQueue' /\ Taken' /\ (raced' \/ InFiles')
    BY <1>1, <1>5, <2>1, ControlStep
  <2>3. QED
    BY <1>2, <1>4, <2>2
<1>8. QED
  BY <1>6, <1>7

\* The members are destroyed, the queue among them, which is empty.
LEMMA DestroyMembersStep ==
  ASSUME LogInv, DestroyMembers
  PROVE  LogInv'
<1> USE LoggerAssumption
<1> USE LogTypes DEF LogInv
<1>1. /\ at[Owner] = "destroy" /\ at' = [at EXCEPT ![Owner] = "gone"] /\ stored' = {}
      /\ open' = FALSE /\ buf = <<>>
      /\ UNCHANGED <<in, out, got, holds, took, running, dying, next, raced, buf, outputs, file>>
  BY DEF DestroyMembers, Goto, Queue!Close, fileVars
<1>2. at'[Owner] = "gone" /\ \A t \in Threads : t # Owner => at'[t] = at[t]
  BY <1>1 DEF TypeOK
<1>3. TypeOK'
  BY <1>1 DEF TypeOK
<1>4. \A p \in Pollers : /\ Polls(p)' <=> Polls(p)
                         /\ at'[p] = "consume" <=> at[p] = "consume"
                         /\ at'[p] = "clear" <=> at[p] = "clear"
  BY <1>1, <1>2 DEF Polls
<1>5. Modes'
  BY <1>1, <1>2, <1>4 DEF Modes, Idle, Changing
<1>6. Holding' /\ Taken'
  BY <1>1, <1>2, <1>4 DEF Holding, Taken
<1>7. InQueue'
  <2>1. out = in
    BY <1>1 DEF InQueue, Modes
  <2>2. out' .. in' - 1 = {}
    BY <1>1, <2>1
  <2>3. QED
    BY <1>1, <1>2, <2>1, <2>2 DEF InQueue
<1>8. raced' \/ InFiles'
  <2>1. (Consuming' <=> Consuming) /\ (Clearing' <=> Clearing)
    BY <1>4 DEF Consuming, Clearing
  <2>2. Appended' = Appended
    BY <1>1, <2>1 DEF Appended
  <2>3. ~raced => outputs' # <<>> \/ Changing'
    BY <1>1 DEF InFiles, Changing
  <2>4. ~raced => \A p \in Pollers : at'[p] = "consume" => holds'[p] = out' - 1
    BY <1>1, <1>4 DEF InFiles
  <2>5. QED
    BY <1>1, <2>1, <2>2, <2>3, <2>4, FilesKept
<1>9. QED
  BY <1>3, <1>5, <1>6, <1>7, <1>8

(***************************************************************************)
(* The theorems.                                                           *)
(***************************************************************************)

\* Every step preserves the inductive invariant.
LEMMA LogInvStep == LogInv /\ [Next]_vars => LogInv'
<1> SUFFICES ASSUME LogInv, [Next]_vars PROVE LogInv'
  OBVIOUS
<1>1. ASSUME NEW u \in Users, Log(u) \/ Publish(u) PROVE LogInv'
  BY <1>1, LogStep, PublishStep
<1>2. ASSUME NEW p \in Pollers, Poll(p) PROVE LogInv'
  BY <1>2, ClaimStep, ConsumeStep, GiveUpStep, WriteFileStep, ClearStep DEF Poll
<1>3. ASSUME NEW f \in Files, SetLogFile(f) \/ AddLogFile(f) PROVE LogInv'
  BY <1>3, ChangeStep
<1>4. CASE ClearOutputs \/ PushOutput
  BY <1>4, ChangeStep, LoggerAssumption
<1>5. CASE CheckRunning
  BY <1>5, CheckRunningStep
<1>6. CASE Stop \/ Join \/ Start \/ Destroy
  BY <1>6, OwnerStep
<1>7. CASE DestroyMembers
  BY <1>7, DestroyMembersStep
<1>8. CASE UNCHANGED vars
  <2>1. UNCHANGED <<in, out, stored, got, open, holds, at, took, running, dying, next, raced,
                    buf, outputs, file>>
    BY <1>8 DEF vars, queueVars, fileVars
  <2>2. TypeOK'
    BY <2>1 DEF LogInv, TypeOK
  <2>3. Modes' /\ Holding' /\ Taken' /\ Appended' = Appended /\ (Clearing' <=> Clearing)
    BY <2>1 DEF LogInv, Modes, Idle, Changing, Polls, Holding, Taken, Appended, Consuming, Clearing
  <2>4. InQueue'
    BY <2>1 DEF LogInv, InQueue
  <2>5. raced' \/ InFiles'
    BY <2>1, <2>3, FilesKept DEF LogInv, InFiles, Changing
  <2>6. QED
    BY <2>2, <2>3, <2>4, <2>5 DEF LogInv
<1>9. QED
  BY <1>1, <1>2, <1>3, <1>4, <1>5, <1>6, <1>7, <1>8 DEF Next

\* The inductive invariant holds in every state.
THEOREM LogInvariance == Spec => []LogInv
BY InitLog, LogInvStep, PTL DEF Spec

\* Every variable keeps its type: no more places are claimed than records
\* logged, and what threads hold, buffer and write are places of the queue.
THEOREM LogTypesHold == Spec => []TypeOK
<1>1. LogInv => TypeOK
  BY DEF LogInv
<1>2. QED
  BY <1>1, LogInvariance, PTL

\* However often the owner stops and starts the thread, the destructor never
\* polls beside it; setLogFile polls or closes files only if the files were
\* changed during a poll of the background thread.
THEOREM Alone == Spec => []SecondPoller
<1>1. LogInv => SecondPoller
  BY LogTypes DEF LogInv, Modes, SecondPoller, Polls
<1>2. QED
  BY <1>1, LogInvariance, PTL

\* Without a race, what is in m_buf and in the files is what was appended.
LEMMA OnlyAppended ==
  ASSUME LogInv, ~raced
  PROVE  Written \union Range(buf) = 0 .. Appended - 1
<1> USE DEF LogInv
<1>1. Written \subseteq 0 .. Appended - 1
  <2>1. SUFFICES ASSUME NEW x \in Written PROVE x \in 0 .. Appended - 1
    OBVIOUS
  <2>2. PICK f \in Files : \E i \in DOMAIN file[f] : x \in Range(file[f][i])
    BY WrittenIs
  <2>3. InOrderUpTo(file[f], Appended)
    BY DEF InFiles
  <2>4. QED
    BY <2>2, <2>3 DEF InOrderUpTo
<1>2. QED
  BY <1>1 DEF InFiles

\* In behaviours without a race: what is written to a file is in the order
\* in which log claimed the places, no write has a record of an earlier one
\* but where a file was added twice, and no record that was taken from the
\* queue is anywhere but in a file, in m_buf or on its way there.
THEOREM InOrder == Spec => []WrittenInOrder
<1>1. ASSUME LogInv, ~raced PROVE WrittenInOrder
  <2> USE <1>1, LogTypes DEF LogInv
  <2>1. PICK H : H = {holds[p] : p \in {q \in Pollers : holds[q] # None}}
    OBVIOUS
  <2>2. Written \union Range(buf) = 0 .. Appended - 1
    BY OnlyAppended
  <2>3. Written \union Range(buf) \union H = 0 .. out - 1
    <3>1. CASE Consuming
      <4>1. PICK p \in Pollers : at[p] = "consume"
        BY <3>1 DEF Consuming
      <4>2. Polls(p)
        BY <4>1 DEF Polls
      <4>3. \A q \in Pollers : q # p => at[q] # "consume"
        BY <4>2, AloneInPoll DEF Polls
      <4>4. \A q \in Pollers : q # p => holds[q] = None
        BY <4>3 DEF Holding
      <4>5. holds[p] = out - 1 /\ out - 1 # None /\ out - 1 >= 0
        BY <4>1, LoggerAssumption DEF InFiles, Holding
      <4>6. H = {out - 1}
        BY <2>1, <4>4, <4>5
      <4>7. Appended = out - 1
        BY <3>1 DEF Appended
      <4>8. QED
        BY <2>2, <4>5, <4>6, <4>7
    <3>2. CASE ~Consuming
      <4>1. \A p \in Pollers : holds[p] = None
        BY <3>2 DEF Consuming, Holding
      <4>2. H = {} /\ Appended = out
        BY <2>1, <3>2, <4>1 DEF Appended
      <4>3. QED
        BY <2>2, <4>2
    <3>3. QED
      BY <3>1, <3>2
  <2>4. \A f \in Files : /\ \A i \in DOMAIN file[f] : Increasing(file[f][i])
                         /\ \A i \in 1 .. Len(file[f]) - 1 :
                              file[f][i + 1] = file[f][i] \/ Behind(file[f][i], file[f][i + 1])
    BY DEF InFiles, InOrderUpTo
  <2>5. Increasing(buf)
    BY DEF InFiles
  <2>6. (\A p \in Pollers : at[p] # "clear") =>
          \A f \in Files : \A i \in DOMAIN file[f] : Behind(file[f][i], buf)
    BY DEF InFiles, Clearing, AllBehind
  <2>7. \A p \in Pollers : ~Polls(p) => holds[p] = None
    BY DEF Holding, Polls
  <2>8. (\A p \in Pollers : ~Polls(p)) => buf = <<>>
    BY DEF Taken
  <2>9. QED
    BY <2>1, <2>3, <2>4, <2>5, <2>6, <2>7, <2>8 DEF WrittenInOrder
<1>2. LogInv => WrittenInOrder
  BY <1>1 DEF WrittenInOrder
<1>3. QED
  BY <1>2, LogInvariance, PTL

\* When the destructor's poll is done the queue and m_buf are empty, race or
\* not, and in behaviours without a race every record ever logged is in a
\* file.
THEOREM AllWritten == Spec => []NothingLost
<1>1. ASSUME LogInv PROVE NothingLost
  <2> USE <1>1, LogTypes DEF LogInv
  <2>1. SUFFICES ASSUME at[Owner] \in {"destroy", "gone"}
                 PROVE  buf = <<>> /\ out = in /\ (~raced => Written = 0 .. in - 1)
    BY DEF NothingLost
  <2>2. ~running /\ at[Bg] = "off" /\ dying
    BY <2>1 DEF Modes
  <2>3. \A p \in Pollers : ~Polls(p)
    BY <2>1, <2>2 DEF Polls
  <2>4. buf = <<>> /\ ~Consuming
    BY <2>3 DEF Taken, Polls, Consuming
  <2>5. out = in /\ Appended = in
    BY <2>1, <2>2, <2>4 DEF InQueue, Appended
  <2>6. Range(buf) = {}
    BY <2>4 DEF Range
  <2>7. ~raced => Written = 0 .. in - 1
    BY <2>5, <2>6, OnlyAppended
  <2>8. QED
    BY <2>4, <2>5, <2>7
<1>2. QED
  BY <1>1, LogInvariance, PTL

(***************************************************************************)
(* The logger and its queue.                                               *)
(***************************************************************************)

\* The queue lives until the owner is gone.
QueueLives == open <=> at[Owner] # "gone"

LEMMA QueueLivesStep == LogInv /\ QueueLives /\ [Next]_vars => QueueLives'
<1> SUFFICES ASSUME LogInv, QueueLives, [Next]_vars PROVE QueueLives'
  OBVIOUS
<1> USE LogTypes, LoggerAssumption DEF LogInv, TypeOK, QueueLives
<1>1. ASSUME NEW u \in Users, Log(u) \/ Publish(u) PROVE QueueLives'
  <2>1. open' = open /\ at'[Owner] = at[Owner]
    BY <1>1 DEF Log, Publish, Goto, Queue!Reserve, Queue!Put
  <2>2. QED
    BY <2>1
<1>2. ASSUME NEW p \in Pollers, Poll(p) PROVE QueueLives'
  <2>1. PICK l : l = IF p \in took THEN "write" ELSE AfterPoll(p)
    OBVIOUS
  <2>2. l # "gone" /\ AfterPoll(p) # "gone"
    BY <2>1 DEF AfterPoll
  <2>3. open' = open
    BY <1>2 DEF Poll, Claim, Consume, GiveUp, WriteFile, Clear, Queue!Request, Queue!Get, queueVars
  <2>4. at[p] # "gone" /\ \E k : k # "gone" /\ at' = [at EXCEPT ![p] = k]
    BY <1>2, <2>1, <2>2 DEF Poll, Claim, Consume, GiveUp, WriteFile, Clear, Goto
  <2>5. at'[Owner] = "gone" <=> at[Owner] = "gone"
    BY <2>4
  <2>6. QED
    BY <2>3, <2>5
<1>3. ASSUME NEW f \in Files, SetLogFile(f) \/ AddLogFile(f) PROVE QueueLives'
  BY <1>3 DEF SetLogFile, AddLogFile, Goto, queueVars
<1>4. CASE ClearOutputs \/ PushOutput
  BY <1>4 DEF ClearOutputs, PushOutput, Goto, queueVars
<1>5. CASE CheckRunning \/ Stop \/ Join \/ Start \/ Destroy
  <2>1. open' = open
    BY <1>5 DEF CheckRunning, Stop, Join, Start, Destroy, queueVars
  <2>2. (at[Owner] = "gone") = (at'[Owner] = "gone")
    <3>1. CASE CheckRunning \/ Start
      BY <3>1 DEF CheckRunning, Start, Goto
    <3>2. CASE Stop \/ Destroy
      BY <3>2 DEF Stop, Destroy, Goto
    <3>3. CASE Join
      BY <3>3 DEF Join
    <3>4. QED
      BY <1>5, <3>1, <3>2, <3>3
  <2>3. QED
    BY <2>1, <2>2
<1>6. CASE DestroyMembers
  BY <1>6 DEF DestroyMembers, Goto, Queue!Close
<1>7. CASE UNCHANGED vars
  BY <1>7 DEF vars, queueVars
<1>8. QED
  BY <1>1, <1>2, <1>3, <1>4, <1>5, <1>6, <1>7 DEF Next

\* Every step of the logger is one the queue allows, or leaves it alone: a
\* place is filled and emptied by the thread that claimed it, and nobody
\* touches the queue after it was destroyed.
LEMMA QueueStep == LogInv /\ QueueLives /\ [Next]_vars => [Queue!Next]_(Queue!vars)
<1> SUFFICES ASSUME LogInv, QueueLives, [Next]_vars PROVE Queue!Next \/ UNCHANGED Queue!vars
  OBVIOUS
<1> USE LogTypes, LoggerAssumption DEF LogInv, TypeOK
<1>1. ASSUME NEW u \in Users, Log(u) PROVE Queue!Next
  <2>1. open
    BY <1>1 DEF Log, Modes, QueueLives
  <2>2. QED
    BY <1>1, <2>1 DEF Log, Queue!Next
<1>2. ASSUME NEW u \in Users, Publish(u) PROVE Queue!Next
  <2>1. open
    BY <1>2 DEF Publish, Modes, Idle, QueueLives
  <2>2. holds[u] \in Queue!Places
    BY <1>2 DEF Publish, Holding, Queue!Places
  <2>3. QED
    BY <1>2, <2>1, <2>2 DEF Publish, Queue!Next
<1>3. ASSUME NEW p \in Pollers, Claim(p) \/ Consume(p) PROVE Queue!Next
  <2>1. open
    <3>1. Polls(p)
      BY <1>3 DEF Claim, Consume, Polls
    <3>2. at[Owner] # "gone"
      <4>1. at[Owner] = "gone" => ~Polls(Owner) /\ at[Bg] = "off"
        BY DEF Modes, Polls
      <4>2. at[Bg] = "off" => ~Polls(Bg)
        BY DEF Polls
      <4>3. QED
        BY <3>1, <4>1, <4>2
    <3>3. QED
      BY <3>2 DEF QueueLives
  <2>2. CASE Claim(p)
    BY <2>1, <2>2 DEF Claim, Queue!Next
  <2>3. CASE Consume(p)
    <3>1. holds[p] \in Queue!Places
      BY <2>3 DEF Consume, Holding, Queue!Places
    <3>2. QED
      BY <2>1, <2>3, <3>1 DEF Consume, Queue!Next
  <2>4. QED
    BY <1>3, <2>2, <2>3
<1>4. ASSUME NEW p \in Pollers, GiveUp(p) \/ WriteFile(p) \/ Clear(p) PROVE UNCHANGED Queue!vars
  BY <1>4 DEF GiveUp, WriteFile, Clear, queueVars, Queue!vars
<1>5. ASSUME NEW f \in Files, SetLogFile(f) \/ AddLogFile(f) PROVE UNCHANGED Queue!vars
  BY <1>5 DEF SetLogFile, AddLogFile, queueVars, Queue!vars
<1>6. CASE ClearOutputs \/ PushOutput \/ CheckRunning \/ Stop \/ Join \/ Start \/ Destroy
  BY <1>6 DEF ClearOutputs, PushOutput, CheckRunning, Stop, Join, Start, Destroy, queueVars,
              Queue!vars
<1>7. CASE DestroyMembers
  <2>1. open
    BY <1>7 DEF DestroyMembers, QueueLives
  <2>2. QED
    BY <1>7, <2>1 DEF DestroyMembers, Queue!Next
<1>8. CASE UNCHANGED vars
  BY <1>8 DEF vars, queueVars, Queue!vars
<1>9. QED
  BY <1>1, <1>2, <1>3, <1>4, <1>5, <1>6, <1>7, <1>8 DEF Next, Poll

\* The logger keeps the contract of the queue it shares, also when two
\* threads poll: what it does with global_q is a behaviour of the numbered
\* buffer that MPMCQueue implements.
THEOREM KeepsTheContract == Spec => Queue!Spec
<1>1. Init => QueueLives /\ Queue!Init
  <2>1. Init => at[Owner] = "idle"
    BY LoggerAssumption DEF Init, Threads, Pollers
  <2>2. Init => open = TRUE /\ Queue!Init
    BY DEF Init, Queue!Init
  <2>3. QED
    BY <2>1, <2>2 DEF QueueLives
<1>2. QED
  BY <1>1, InitLog, LogInvStep, QueueLivesStep, QueueStep, PTL DEF Spec, Queue!Spec
==============================================================================
