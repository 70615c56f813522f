--------------------------- MODULE MPMCQueue_proofs ---------------------------
(***************************************************************************)
(* Proofs about MPMCQueue: the turn arithmetic, the inductive invariant    *)
(* IInv and the safety properties that follow from it, for any number of   *)
(* threads, any capacity and any counter width.                            *)
(***************************************************************************)
EXTENDS MPMCQueue, FiniteSetTheorems, TLAPS

(***************************************************************************)
(* Turn arithmetic.                                                        *)
(***************************************************************************)

\* Division with remainder.
LEMMA DivMod ==
  ASSUME NEW n \in Nat, NEW d \in Nat \ {0}
  PROVE  /\ n \div d \in Nat
         /\ n % d \in 0 .. d - 1
         /\ n = d * (n \div d) + (n % d)
OBVIOUS

\* A multiple of d that is less than d in size is 0.
LEMMA SmallMultiple ==
  ASSUME NEW d \in Nat \ {0}, NEW q \in Int, -d < d * q, d * q < d
  PROVE  q = 0
<1>1. CASE q > 0
  <2>1. d * q >= d
    BY <1>1
  <2>2. QED
    BY <2>1
<1>2. CASE q < 0
  <2>1. d * q <= -d
    BY <1>2
  <2>2. QED
    BY <2>1
<1>3. QED
  BY <1>1, <1>2

\* Quotient and remainder are unique.
LEMMA DivModUnique ==
  ASSUME NEW d \in Nat \ {0}, NEW q \in Nat, NEW r \in 0 .. d - 1
  PROVE  (d * q + r) \div d = q /\ (d * q + r) % d = r
<1> DEFINE n == d * q + r
           p == n \div d
           s == n % d
<1>1. n \in Nat
  OBVIOUS
<1>2. p \in Nat /\ s \in 0 .. d - 1 /\ n = d * p + s
  BY <1>1, DivMod
<1> HIDE DEF p, s
<1>3. d * (p - q) = r - s
  BY <1>2
<1>4. p - q = 0
  BY <1>2, <1>3, SmallMultiple
<1>5. p = q
  BY <1>2, <1>4
<1>6. s = r
  BY <1>2, <1>3, <1>5
<1>7. QED
  BY <1>5, <1>6 DEF p, s

\* A counter value is a wrap number, a lap and a slot.
LEMMA Decompose ==
  ASSUME NEW i \in Nat
  PROVE  /\ i = Wrap * (i \div Wrap) + (Cap * Turn(i) + Slot(i))
         /\ i \div Wrap \in Nat
         /\ Turn(i) \in 0 .. Laps - 1
         /\ Slot(i) \in Slots
         /\ Word(i) = Cap * Turn(i) + Slot(i)
         /\ Word(i) \in Nat
         /\ Wrap \in Nat \ {0}
<1> USE QueueAssumption
<1>1. Wrap \in Nat \ {0}
  BY DEF Wrap
<1>2. /\ i \div Wrap \in Nat
      /\ Word(i) \in 0 .. Wrap - 1
      /\ i = Wrap * (i \div Wrap) + Word(i)
  BY <1>1, DivMod DEF Word
<1>3. /\ Turn(i) \in Nat
      /\ Slot(i) \in 0 .. Cap - 1
      /\ Word(i) = Cap * Turn(i) + Slot(i)
  <2>1. Word(i) \in Nat /\ Cap \in Nat \ {0}
    BY <1>1, <1>2
  <2>2. QED
    BY <2>1, DivMod DEF Turn, Slot
<1>4. Turn(i) < Laps
  <2>1. SUFFICES ASSUME Turn(i) >= Laps PROVE FALSE
    BY <1>3
  <2>2. Cap * Turn(i) >= Cap * Laps
    BY <2>1, <1>3
  <2>3. QED
    BY <2>2, <1>2, <1>3 DEF Wrap
<1>5. QED
  BY <1>1, <1>2, <1>3, <1>4 DEF Slots

\* The converse: the decomposition determines the slot and the lap.
LEMMA Compose ==
  ASSUME NEW w \in Nat, NEW q \in 0 .. Laps - 1, NEW s \in Slots
  PROVE  /\ Slot(Wrap * w + (Cap * q + s)) = s
         /\ Turn(Wrap * w + (Cap * q + s)) = q
<1> USE QueueAssumption
<1> DEFINE r == Cap * q + s
<1>1. Wrap \in Nat \ {0} /\ Cap \in Nat \ {0}
  BY DEF Wrap
<1>2. r \in 0 .. Wrap - 1
  <2>1. Cap * q <= Cap * (Laps - 1)
    OBVIOUS
  <2>2. Cap * (Laps - 1) = Cap * Laps - Cap
    OBVIOUS
  <2>3. QED
    BY <2>1, <2>2 DEF Slots, Wrap
<1>3. Word(Wrap * w + r) = r
  <2> HIDE DEF r
  <2>1. QED
    BY <1>1, <1>2, DivModUnique DEF Word
<1>4. r % Cap = s /\ r \div Cap = q
  BY <1>1, DivModUnique DEF Slots
<1>5. QED
  BY <1>3, <1>4 DEF Slot, Turn

\* One capacity further on: the same slot, in the next lap.
LEMMA NextLap ==
  ASSUME NEW i \in Nat
  PROVE  Slot(i + Cap) = Slot(i) /\ WriteTurn(i + Cap) = TurnAfterRead(i)
<1> USE QueueAssumption
<1> DEFINE w == i \div Wrap
           q == Turn(i)
           s == Slot(i)
<1>1. /\ i = Wrap * w + (Cap * q + s)
      /\ w \in Nat /\ q \in 0 .. Laps - 1 /\ s \in Slots
      /\ Wrap \in Nat \ {0}
  BY Decompose
<1>2. Turn(Wrap - 1) = Laps - 1
  <2>1. Wrap - 1 = Wrap * 0 + (Cap * (Laps - 1) + (Cap - 1))
    BY DEF Wrap
  <2>2. Cap - 1 \in Slots /\ Laps - 1 \in 0 .. Laps - 1
    BY DEF Slots
  <2>3. QED
    BY <2>1, <2>2, Compose
<1> HIDE DEF w, q, s
<1>3. CASE q = Laps - 1
  <2>1. i + Cap = Wrap * (w + 1) + (Cap * 0 + s)
    BY <1>1, <1>3 DEF Wrap, Slots
  <2>2. w + 1 \in Nat /\ 0 \in 0 .. Laps - 1
    BY <1>1
  <2>3. /\ Slot(Wrap * (w + 1) + (Cap * 0 + s)) = s
        /\ Turn(Wrap * (w + 1) + (Cap * 0 + s)) = 0
    BY <1>1, <2>2, Compose, Zenon
  <2>4. QED
    BY <1>2, <1>3, <2>1, <2>3 DEF WriteTurn, TurnAfterRead, q, s
<1>4. CASE q # Laps - 1
  <2>1. i + Cap = Wrap * w + (Cap * (q + 1) + s)
    BY <1>1 DEF Slots
  <2>2. q + 1 \in 0 .. Laps - 1
    BY <1>1, <1>4
  <2>3. /\ Slot(Wrap * w + (Cap * (q + 1) + s)) = s
        /\ Turn(Wrap * w + (Cap * (q + 1) + s)) = q + 1
    BY <1>1, <2>2, Compose, Zenon
  <2>4. 2 * (q + 1) = 2 * q + 2
    BY <1>1
  <2>5. QED
    BY <1>2, <1>4, <2>1, <2>3, <2>4 DEF WriteTurn, TurnAfterRead, q, s
<1>5. QED
  BY <1>3, <1>4

\* Two positions of one slot are at least a capacity apart.
LEMMA Gap ==
  ASSUME NEW i \in Nat, NEW j \in Nat, i < j, Slot(i) = Slot(j)
  PROVE  i + Cap <= j
<1> USE QueueAssumption
<1> DEFINE w == i \div Wrap
           v == j \div Wrap
           k == Laps * (v - w) + (Turn(j) - Turn(i))
<1>1. /\ i = Wrap * w + (Cap * Turn(i) + Slot(i))
      /\ j = Wrap * v + (Cap * Turn(j) + Slot(j))
      /\ w \in Nat /\ v \in Nat
      /\ Turn(i) \in Nat /\ Turn(j) \in Nat
      /\ Slot(i) \in Int
  BY Decompose DEF Slots
<1> HIDE DEF w, v
<1>2. j - i = Cap * k /\ k \in Int
  BY <1>1 DEF Wrap
<1> HIDE DEF k
<1>3. k # 0
  BY <1>2
<1>4. QED
  BY <1>2, <1>3, SmallMultiple

\* Within one wrap a position is told by its counter word.
LEMMA WordInjective ==
  ASSUME NEW i \in Nat, NEW j \in Nat, Word(i) = Word(j),
         i - j < Wrap, j - i < Wrap
  PROVE  i = j
<1>1. Wrap \in Nat \ {0}
  BY Decompose
<1> DEFINE w == i \div Wrap
           v == j \div Wrap
<1>2. /\ i = Wrap * w + Word(i) /\ w \in Nat
      /\ j = Wrap * v + Word(j) /\ v \in Nat
      /\ Word(i) \in Nat
  BY Decompose
<1> HIDE DEF w, v
<1>3. j - i = Wrap * (v - w)
  BY <1>1, <1>2
<1>4. v - w = 0
  BY <1>1, <1>2, <1>3, SmallMultiple
<1>5. QED
  BY <1>1, <1>2, <1>3, <1>4

\* ... and by its slot and its turn, which is what the threads compare.
LEMMA TurnInjective ==
  ASSUME NEW i \in Nat, NEW j \in Nat, Slot(i) = Slot(j),
         Turn(i) = Turn(j), i - j < Wrap, j - i < Wrap
  PROVE  i = j
<1>1. Word(i) = Word(j)
  BY Decompose
<1>2. QED
  BY <1>1, WordInjective

\* Each slot has a first position.
LEMMA FirstPosition ==
  ASSUME NEW s \in Slots
  PROVE  FirstIn(s) \in First .. First + Cap - 1 /\ Slot(FirstIn(s)) = s
<1> USE QueueAssumption
<1> DEFINE w == First \div Wrap
           q == Turn(First)
           f == Slot(First)
           j == Wrap * w + (Cap * q + s)
<1>1. /\ First = Wrap * w + (Cap * q + f)
      /\ w \in Nat /\ q \in 0 .. Laps - 1 /\ f \in Slots
      /\ Wrap \in Nat \ {0}
  BY Decompose
<1>2. Slot(j) = s
  <2>1. w \in Nat /\ q \in 0 .. Laps - 1 /\ s \in Slots
    BY <1>1
  <2> HIDE DEF w, q
  <2>2. QED
    BY <2>1, Compose
<1>3. j \in Nat /\ j = First - f + s /\ s \in 0 .. Cap - 1 /\ f \in 0 .. Cap - 1
  BY <1>1 DEF Slots
<1> HIDE DEF j, f
<1>4. Slot(j + Cap) = s
  BY <1>2, <1>3, NextLap
<1>5. \E i \in First .. First + Cap - 1 : Slot(i) = s
  <2>1. CASE s >= f
    BY <2>1, <1>2, <1>3
  <2>2. CASE s < f
    BY <2>2, <1>3, <1>4
  <2>3. QED
    BY <2>1, <2>2, <1>3
<1>6. QED
  BY <1>5 DEF FirstIn

-----------------------------------------------------------------------------
(***************************************************************************)
(* What the turn of a slot says.                                           *)
(***************************************************************************)

\* The types of the position arithmetic.
LEMMA SlotTypes ==
  ASSUME NEW i \in Nat
  PROVE  /\ Slot(i) \in Slots
         /\ WriteTurn(i) \in Nat /\ ReadTurn(i) \in Nat
         /\ TurnAfterRead(i) \in Nat
<1>1. Turn(i) \in Nat /\ Slot(i) \in Slots
  BY Decompose
<1>2. QED
  BY <1>1 DEF WriteTurn, ReadTurn, TurnAfterRead

\* The window is made of naturals and holds every position a thread works on.
LEMMA WindowFacts ==
  /\ Window \subseteq Nat
  /\ First .. Last \subseteq Window
  /\ Positions \subseteq Window
  /\ \A i, j \in Window : i - j < Wrap /\ j - i < Wrap
  /\ \A i \in Positions : i + Cap \in Window
BY QueueAssumption DEF Window, Positions, Wrap

\* A write turn is even and a read turn odd.
LEMMA TurnParity ==
  ASSUME NEW i \in Nat, NEW j \in Nat
  PROVE  /\ WriteTurn(i) # ReadTurn(j)
         /\ WriteTurn(i) % 2 = 0
         /\ ReadTurn(j) % 2 = 1
<1>1. Turn(i) \in Nat /\ Turn(j) \in Nat
  BY Decompose
<1>2. QED
  BY <1>1 DEF WriteTurn, ReadTurn

\* In the window, a slot and one of its turns tell the position.
LEMMA TurnTells ==
  ASSUME NEW i \in Window, NEW j \in Window, Slot(i) = Slot(j),
         WriteTurn(i) = WriteTurn(j) \/ ReadTurn(i) = ReadTurn(j)
  PROVE  i = j
<1>1. i \in Nat /\ j \in Nat /\ i - j < Wrap /\ j - i < Wrap
  BY WindowFacts
<1>2. Turn(i) \in Nat /\ Turn(j) \in Nat
  BY <1>1, Decompose
<1>3. Turn(i) = Turn(j)
  BY <1>2 DEF WriteTurn, ReadTurn
<1>4. QED
  BY <1>1, <1>3, TurnInjective

\* The position a slot serves is the one whose turn it shows.
LEMMA ServedPosition ==
  ASSUME SlotsServe, NEW p \in Window
  PROVE  /\ turn[Slot(p)] = WriteTurn(p) => Serves(Slot(p), p) /\ ~Published(p)
         /\ turn[Slot(p)] = ReadTurn(p) => Serves(Slot(p), p) /\ Published(p)
<1>1. p \in Nat /\ Slot(p) \in Slots
  BY WindowFacts, SlotTypes
<1>2. PICK i \in Window : Serves(Slot(p), i)
  BY <1>1 DEF SlotsServe
<1>3. /\ i \in Nat /\ Slot(i) = Slot(p)
      /\ Published(i) => turn[Slot(p)] = ReadTurn(i)
      /\ ~Published(i) => turn[Slot(p)] = WriteTurn(i)
  BY <1>2, WindowFacts DEF Serves
<1>4. WriteTurn(p) # ReadTurn(i) /\ WriteTurn(i) # ReadTurn(p)
  BY <1>1, <1>3, TurnParity
<1>5. QED
  BY <1>2, <1>3, <1>4, TurnTells

-----------------------------------------------------------------------------
(***************************************************************************)
(* The initial states satisfy the invariant.                               *)
(***************************************************************************)
LEMMA InitIInv == Init => IInv
<1> USE QueueAssumption
<1> SUFFICES ASSUME Init PROVE IInv
  OBVIOUS
<1>1. \A t \in Threads : pc[t] = "idle"
  BY DEF Init
<1>2. \A i \in Window : ~Built(i) /\ ~Published(i) /\ ~Taken(i) /\ ~Freed(i)
  BY DEF Init, Built, Published, Taken, Freed, Window
<1>3. TypeOK
  <2>1. \A s \in Slots : WriteTurn(FirstIn(s)) \in Nat
    BY FirstPosition, SlotTypes
  <2>2. QED
    BY <2>1 DEF Init, TypeOK
<1>4. Claims
  BY <1>1 DEF Claims, Writing, Reading, WriterPc, ReaderPc, TryPushPc, TryPopPc
<1>5. Stages
  BY <1>1 DEF Stages
<1>6. SlotsServe
  <2>1. SUFFICES ASSUME NEW s \in Slots PROVE Serves(s, FirstIn(s)) /\ FirstIn(s) \in Window
    BY DEF SlotsServe
  <2>2. FirstIn(s) \in First .. First + Cap - 1 /\ Slot(FirstIn(s)) = s
    BY FirstPosition
  <2>3. FirstIn(s) \in Window
    BY <2>2 DEF Window
  <2>4. \A j \in Window : Slot(j) = s => ~(j < FirstIn(s))
    <3>1. SUFFICES ASSUME NEW j \in Window, Slot(j) = s, j < FirstIn(s) PROVE FALSE
      OBVIOUS
    <3>2. j + Cap <= FirstIn(s)
      BY <2>2, <2>3, <3>1, Gap, WindowFacts
    <3>3. QED
      BY <2>2, <3>2 DEF Window
  <2>5. QED
    BY <1>2, <2>2, <2>3, <2>4 DEF Serves, Init
<1>7. Delivered
  BY <1>2, WindowFacts DEF Delivered, Init
<1>8. QED
  BY <1>3, <1>4, <1>5, <1>6, <1>7, <1>1 DEF IInv

-----------------------------------------------------------------------------
(***************************************************************************)
(* Every step preserves the invariant.                                     *)
(***************************************************************************)

\* The stages of position i are the same after the step.
StagesKept(i) ==
  /\ Built(i)' <=> Built(i)
  /\ Published(i)' <=> Published(i)
  /\ Taken(i)' <=> Taken(i)
  /\ Freed(i)' <=> Freed(i)

\* A slot in which nothing happens serves the same position.
LEMMA OtherSlot ==
  ASSUME NEW r \in Slots, NEW i \in Window, Serves(r, i),
         turn'[r] = turn[r], data'[r] = data[r], alive' = alive,
         \A j \in Window : Slot(j) = r => StagesKept(j)
  PROVE  Serves(r, i)'
<1>1. Slot(i) = r /\ StagesKept(i)
  BY DEF Serves
<1>2. data'[r] = IF alive' /\ Built(i)' /\ ~Taken(i)' THEN i ELSE None
  BY <1>1 DEF Serves, StagesKept
<1>3. turn'[r] = IF Published(i)' THEN ReadTurn(i) ELSE WriteTurn(i)
  BY <1>1 DEF Serves, StagesKept
<1>4. ~Freed(i)'
  BY <1>1 DEF Serves, StagesKept
<1>5. \A j \in Window : Slot(j) = r =>
       /\ j < i => Published(j)' /\ Freed(j)'
       /\ j > i => ~Published(j)' /\ ~Freed(j)'
  BY DEF Serves, StagesKept
<1>6. QED
  BY <1>1, <1>2, <1>3, <1>4, <1>5 DEF Serves

\* No position changes its stage of life.
Unmoved == \A i \in Window : StagesKept(i)

\* Then every slot serves the position it served.
LEMMA UnmovedServes ==
  ASSUME SlotsServe, Delivered, Unmoved, UNCHANGED <<turn, data, got, alive>>
  PROVE  SlotsServe' /\ Delivered'
<1>1. Delivered'
  BY WindowFacts DEF Delivered, Unmoved, StagesKept
<1>2. SlotsServe'
  <2>1. SUFFICES ASSUME NEW s \in Slots, NEW i \in Window, Serves(s, i)
                 PROVE  Serves(s, i)'
    BY DEF SlotsServe
  <2>2. QED
    BY <2>1, OtherSlot DEF Unmoved
<1>3. QED
  BY <1>1, <1>2

\* A step that concerns one position leaves the other slots as they are.
LEMMA SlotStep ==
  ASSUME SlotsServe, NEW p \in Window, NEW k \in Window, Serves(Slot(p), k)',
         \A i \in Window : i # p => StagesKept(i),
         \A r \in Slots : r # Slot(p) => turn'[r] = turn[r] /\ data'[r] = data[r],
         alive' = alive
  PROVE  SlotsServe'
<1>1. SUFFICES ASSUME NEW r \in Slots, r # Slot(p)
               PROVE  \E i \in Window : Serves(r, i)'
  BY DEF SlotsServe
<1>2. PICK i \in Window : Serves(r, i)
  BY DEF SlotsServe
<1>3. \A j \in Window : Slot(j) = r => StagesKept(j)
  BY <1>1
<1>4. Serves(r, i)'
  BY <1>1, <1>2, <1>3, OtherSlot
<1>5. QED
  BY <1>4

\* A thread that holds no position before and after a step in which it at
\* most loads a counter or compares a turn.
LEMMA QuietStep ==
  ASSUME IInv, NEW t \in Threads, NEW p \in First .. Last,
         NEW l \in {"idle"} \union TryPushPc \union TryPopPc,
         pc[t] \in {"idle"} \union TryPushPc \union TryPopPc,
         alive,
         Goto(t, l),
         pos' = [pos EXCEPT ![t] = p],
         l \in TryPushPc => p <= head,
         l \in TryPopPc => p <= tail,
         l = "pushCas" => p < head \/ turn[Slot(p)] = WriteTurn(p),
         l = "popCas" => p < tail \/ turn[Slot(p)] = ReadTurn(p),
         draining' \in SUBSET Threads,
         UNCHANGED <<head, tail, turn, data, left, got, alive>>
  PROVE  IInv'
<1> USE DEF IInv
<1>1. TypeOK'
  BY DEF TypeOK, Goto
<1>2. /\ pc'[t] = l /\ pos'[t] = p
      /\ \A u \in Threads \ {t} : pc'[u] = pc[u] /\ pos'[u] = pos[u]
  BY DEF TypeOK, Goto
<1>3. \A u \in Threads, i \in Int :
         (Writing(u, i)' <=> Writing(u, i)) /\ (Reading(u, i)' <=> Reading(u, i))
  BY <1>2 DEF Writing, Reading, WriterPc, ReaderPc, TryPushPc, TryPopPc
<1>4. Claims'
  BY <1>2, <1>3 DEF Claims, WriterPc, ReaderPc, TryPushPc, TryPopPc, Positions
<1>5. Stages'
  BY <1>2 DEF Stages, TryPushPc, TryPopPc
<1>6. Unmoved
  <2>1. SUFFICES ASSUME NEW i \in Window
                 PROVE  StagesKept(i)
    BY DEF Unmoved
  <2>2. \A u \in Threads :
           /\ Writing(u, i)' <=> Writing(u, i)
           /\ Reading(u, i)' <=> Reading(u, i)
           /\ Writing(u, i) => pc'[u] = pc[u] /\ pos'[u] = pos[u]
           /\ Reading(u, i) => pc'[u] = pc[u]
    BY <1>2, <1>3, WindowFacts
       DEF Writing, Reading, WriterPc, ReaderPc, TryPushPc, TryPopPc
  <2>3. QED
    BY <2>2 DEF StagesKept, Built, Published, Taken, Freed
<1>7. QED
  BY <1>1, <1>4, <1>5, <1>6, UnmovedServes

\* A producer claims n positions, by fetch_add or by compare-and-swap.
LEMMA ClaimHead ==
  ASSUME IInv, NEW t \in Threads, NEW n \in 1 .. MaxBulk,
         NEW l \in {"pushWait", "pushWrite"},
         pc[t] \in {"idle"} \union TryPushPc,
         alive,
         head + n <= Last,
         l = "pushWrite" => turn[Slot(head)] = WriteTurn(head),
         head' = head + n,
         pos' = [pos EXCEPT ![t] = head],
         left' = [left EXCEPT ![t] = n],
         Goto(t, l),
         UNCHANGED <<tail, turn, data, draining, got, alive>>
  PROVE  IInv'
<1> USE DEF IInv
<1>0. /\ head \in Int /\ tail \in Int /\ First \in Int /\ Last \in Int
      /\ \A u \in Threads : pos[u] \in Int /\ left[u] \in Int
  BY QueueAssumption DEF TypeOK
<1>1. TypeOK'
  BY QueueAssumption DEF TypeOK, Goto, WriterPc
<1>2. /\ pc'[t] = l /\ pos'[t] = head /\ left'[t] = n
      /\ \A u \in Threads \ {t} : pc'[u] = pc[u] /\ pos'[u] = pos[u] /\ left'[u] = left[u]
  BY DEF TypeOK, Goto
<1>3. \A i \in Int :
        /\ Writing(t, i)' <=> head <= i /\ i < head + n
        /\ ~Writing(t, i) /\ ~Reading(t, i) /\ ~Reading(t, i)'
        /\ \A u \in Threads \ {t} :
             (Writing(u, i)' <=> Writing(u, i)) /\ (Reading(u, i)' <=> Reading(u, i))
  BY <1>2 DEF Writing, Reading, WriterPc, ReaderPc, TryPushPc
<1>4. \A u \in Threads, i \in Int : Writing(u, i) => i < head
  BY <1>0 DEF Claims, Writing
<1>5. Claims'
  <2>1. \A u, v \in Threads, i \in Int :
          (Writing(u, i)' /\ Writing(v, i)') \/ (Reading(u, i)' /\ Reading(v, i)') => u = v
    <3>1. SUFFICES ASSUME NEW u \in Threads, NEW v \in Threads, NEW i \in Int,
                          (Writing(u, i)' /\ Writing(v, i)') \/ (Reading(u, i)' /\ Reading(v, i)')
                   PROVE  u = v
      OBVIOUS
    <3>2. i \in Positions
      BY <1>0, <1>2, <3>1 DEF Claims, Writing, Reading, WriterPc, TypeOK, Positions
    <3>3. QED
      BY <1>0, <1>3, <1>4, <3>1, <3>2 DEF Claims
  <2>2. QED
    BY <1>0, <1>2, <2>1 DEF Claims, WriterPc, ReaderPc, TryPushPc, TryPopPc, Positions
<1>6. Stages'
  BY <1>0, <1>2 DEF Stages
<1>7. Unmoved
  <2>1. SUFFICES ASSUME NEW i \in Window
                 PROVE  StagesKept(i)
    BY DEF Unmoved
  <2>2. i \in Int
    BY WindowFacts
  <2>3. Taken(i)' <=> Taken(i)
    BY <1>2, <1>3, <2>2 DEF Taken
  <2>4. Freed(i)' <=> Freed(i)
    BY <1>2, <1>3, <2>2 DEF Freed
  <2>5. Published(i)' <=> Published(i)
    BY <1>0, <1>3, <2>2 DEF Published
  <2>6. Built(i)' <=> Built(i)
    BY <1>0, <1>2, <1>3, <2>2 DEF Built
  <2>7. QED
    BY <2>3, <2>4, <2>5, <2>6 DEF StagesKept
<1>8. QED
  BY <1>1, <1>5, <1>6, <1>7, UnmovedServes

\* A consumer claims a position, by fetch_add or by compare-and-swap.
LEMMA ClaimTail ==
  ASSUME IInv, NEW t \in Threads,
         NEW l \in {"popWait", "popRead"},
         pc[t] \in {"idle"} \union TryPopPc,
         alive,
         tail + 1 <= Last,
         l = "popRead" => turn[Slot(tail)] = ReadTurn(tail),
         tail' = tail + 1,
         pos' = [pos EXCEPT ![t] = tail],
         Goto(t, l),
         UNCHANGED <<head, turn, data, left, draining, got, alive>>
  PROVE  IInv'
<1> USE DEF IInv
<1>0. /\ head \in Int /\ tail \in Int /\ First \in Int /\ Last \in Int
      /\ First <= tail
      /\ \A u \in Threads : pos[u] \in Int /\ left[u] \in Int
  BY QueueAssumption DEF TypeOK
<1>1. TypeOK'
  BY QueueAssumption DEF TypeOK, Goto, ReaderPc
<1>2. /\ pc'[t] = l /\ pos'[t] = tail
      /\ \A u \in Threads \ {t} : pc'[u] = pc[u] /\ pos'[u] = pos[u]
  BY DEF TypeOK, Goto
<1>3. \A i \in Int :
        /\ Reading(t, i)' <=> i = tail
        /\ ~Writing(t, i) /\ ~Writing(t, i)' /\ ~Reading(t, i)
        /\ \A u \in Threads \ {t} :
             (Writing(u, i)' <=> Writing(u, i)) /\ (Reading(u, i)' <=> Reading(u, i))
  BY <1>2 DEF Writing, Reading, WriterPc, ReaderPc, TryPopPc
<1>4. \A u \in Threads, i \in Int : Reading(u, i) => i < tail
  BY <1>0 DEF Claims, Reading
<1>5. Claims'
  <2>1. \A u, v \in Threads, i \in Positions :
          (Writing(u, i)' /\ Writing(v, i)') \/ (Reading(u, i)' /\ Reading(v, i)') => u = v
    BY <1>0, <1>3, <1>4 DEF Claims, Positions
  <2>2. QED
    BY <1>0, <1>2, <2>1 DEF Claims, WriterPc, ReaderPc, TryPushPc, TryPopPc, Positions
<1>6. Stages'
  BY <1>0, <1>2 DEF Stages
<1>7. Unmoved
  <2>1. SUFFICES ASSUME NEW i \in Window
                 PROVE  StagesKept(i)
    BY DEF Unmoved
  <2>2. i \in Int
    BY WindowFacts
  <2>3. Taken(i)' <=> Taken(i)
    BY <1>0, <1>2, <1>3, <1>4, <2>2 DEF Taken
  <2>4. Freed(i)' <=> Freed(i)
    BY <1>0, <1>3, <1>4, <2>2 DEF Freed
  <2>5. Published(i)' <=> Published(i)
    BY <1>3, <2>2 DEF Published
  <2>6. Built(i)' <=> Built(i)
    BY <1>2, <1>3, <2>2 DEF Built
  <2>7. QED
    BY <2>3, <2>4, <2>5, <2>6 DEF StagesKept
<1>8. QED
  BY <1>1, <1>5, <1>6, <1>7, UnmovedServes

\* What a thread that waits for, or is inside, a slot relies on: no other
\* thread is in the same role at its position.
LEMMA Holder ==
  ASSUME IInv, NEW t \in Threads
  PROVE  /\ pc[t] \in WriterPc \union ReaderPc =>
              pos[t] \in Positions /\ pos[t] \in Nat /\ Slot(pos[t]) \in Slots
         /\ pc[t] \in WriterPc =>
              /\ Writing(t, pos[t])
              /\ pos[t] < head
              /\ \A u \in Threads : Writing(u, pos[t]) => u = t
         /\ pc[t] \in ReaderPc =>
              /\ Reading(t, pos[t])
              /\ pos[t] < tail
              /\ \A u \in Threads : Reading(u, pos[t]) => u = t
<1> USE QueueAssumption DEF IInv
<1>1. /\ head \in First .. Last /\ tail \in First .. Last
      /\ pos[t] \in First .. Last /\ left[t] \in Nat
  BY DEF TypeOK
<1>2. CASE pc[t] \in WriterPc
  <2>1. pos[t] < head /\ Writing(t, pos[t])
    BY <1>1, <1>2 DEF Claims, Writing
  <2>2. pos[t] \in Positions /\ pos[t] \in Nat
    BY <1>1, <2>1 DEF Positions
  <2>3. pc[t] \notin ReaderPc
    BY <1>2 DEF WriterPc, ReaderPc
  <2>4. QED
    BY <2>1, <2>2, <2>3, SlotTypes DEF Claims
<1>3. CASE pc[t] \in ReaderPc
  <2>1. pos[t] < tail /\ Reading(t, pos[t])
    BY <1>1, <1>3 DEF Claims, Reading
  <2>2. pos[t] \in Positions /\ pos[t] \in Nat
    BY <1>1, <2>1 DEF Positions
  <2>3. pc[t] \notin WriterPc
    BY <1>3 DEF WriterPc, ReaderPc
  <2>4. QED
    BY <2>1, <2>2, <2>3, SlotTypes DEF Claims
<1>4. QED
  BY <1>2, <1>3

\* The end of a spin loop.
LEMMA AwaitStep ==
  ASSUME IInv, NEW t \in Threads, alive,
         AwaitWriteTurn(t) \/ AwaitReadTurn(t)
  PROVE  IInv'
<1> USE DEF IInv, AwaitWriteTurn, AwaitReadTurn
<1>1. TypeOK'
  BY DEF TypeOK, Goto, WriterPc, ReaderPc
<1>2. /\ pc'[t] # pc[t]
      /\ pc[t] = "pushWait" => pc'[t] = "pushWrite"
      /\ pc[t] = "popWait" => pc'[t] = "popRead"
      /\ pc[t] \in {"pushWait", "popWait"}
      /\ \A u \in Threads \ {t} : pc'[u] = pc[u]
  BY DEF TypeOK, Goto
<1>3. \A u \in Threads, i \in Int :
         (Writing(u, i)' <=> Writing(u, i)) /\ (Reading(u, i)' <=> Reading(u, i))
  BY <1>2 DEF Writing, Reading, WriterPc, ReaderPc
<1>4. Claims'
  <2>1. \A u \in Threads : /\ pc'[u] \in WriterPc <=> pc[u] \in WriterPc
                           /\ pc'[u] \in ReaderPc <=> pc[u] \in ReaderPc
                           /\ pc'[u] \in TryPushPc <=> pc[u] \in TryPushPc
                           /\ pc'[u] \in TryPopPc <=> pc[u] \in TryPopPc
    BY <1>2 DEF WriterPc, ReaderPc, TryPushPc, TryPopPc
  <2>2. \A u, v \in Threads, i \in Positions :
          (Writing(u, i)' /\ Writing(v, i)') \/ (Reading(u, i)' /\ Reading(v, i)') => u = v
    BY <1>3 DEF Claims, Positions
  <2>3. QED
    BY <2>1, <2>2 DEF Claims, Positions
<1>5. Stages'
  BY <1>2 DEF Stages
<1>6. Unmoved
  <2>1. SUFFICES ASSUME NEW i \in Window
                 PROVE  StagesKept(i)
    BY DEF Unmoved
  <2>2. i \in Int
    BY WindowFacts
  <2>3. QED
    BY <1>2, <1>3, <2>2 DEF StagesKept, Built, Published, Taken, Freed
<1>7. QED
  BY <1>1, <1>4, <1>5, <1>6, UnmovedServes

\* The element is built: position pos[t] enters the next stage of its life.
LEMMA ConstructStep ==
  ASSUME IInv, NEW t \in Threads, alive, Construct(t)
  PROVE  IInv'
<1> USE DEF IInv, Construct
<1> DEFINE p == pos[t]
           s == Slot(p)
<1>0. pc[t] = "pushWrite" /\ pc[t] \in WriterPc
  BY DEF WriterPc
<1>1. /\ p \in Window /\ p \in Positions /\ p \in Nat /\ s \in Slots
      /\ p < head /\ Writing(t, p)
      /\ \A u \in Threads : Writing(u, p) => u = t
  BY <1>0, Holder, WindowFacts
<1>2. Serves(s, p) /\ ~Published(p) /\ turn[s] = WriteTurn(p)
  BY <1>0, <1>1, ServedPosition DEF Stages
<1>3. ~Taken(p)
  <2>1. \A u \in Threads : Reading(u, p) => pc[u] # "popRelease"
    BY <1>1, <1>2, TurnParity DEF Reading, Stages
  <2>2. QED
    BY <1>2, <2>1 DEF Serves, Taken, Freed
<1>4. TypeOK'
  BY <1>1 DEF TypeOK, Goto, WriterPc
<1>5. /\ pc'[t] = "pushPublish"
      /\ \A u \in Threads \ {t} : pc'[u] = pc[u]
      /\ data'[s] = p
      /\ \A r \in Slots \ {s} : data'[r] = data[r]
  BY <1>1 DEF TypeOK, Goto
<1>6. \A u \in Threads, i \in Int :
         (Writing(u, i)' <=> Writing(u, i)) /\ (Reading(u, i)' <=> Reading(u, i))
  BY <1>0, <1>5 DEF Writing, Reading, WriterPc, ReaderPc
<1>7. Claims'
  <2>1. \A u \in Threads : /\ pc'[u] \in WriterPc <=> pc[u] \in WriterPc
                           /\ pc'[u] \in ReaderPc <=> pc[u] \in ReaderPc
                           /\ pc'[u] \in TryPushPc <=> pc[u] \in TryPushPc
                           /\ pc'[u] \in TryPopPc <=> pc[u] \in TryPopPc
    BY <1>0, <1>5 DEF WriterPc, ReaderPc, TryPushPc, TryPopPc
  <2>2. \A u, v \in Threads, i \in Positions :
          (Writing(u, i)' /\ Writing(v, i)') \/ (Reading(u, i)' /\ Reading(v, i)') => u = v
    BY <1>6 DEF Claims, Positions
  <2>3. QED
    BY <2>1, <2>2 DEF Claims, Positions
<1>8. Stages'
  BY <1>0, <1>5 DEF Stages
<1>9. ASSUME NEW i \in Window
      PROVE  /\ Published(i)' <=> Published(i)
             /\ Taken(i)' <=> Taken(i)
             /\ Freed(i)' <=> Freed(i)
             /\ i # p => StagesKept(i)
  <2>1. i \in Int
    BY WindowFacts
  <2>2. Taken(i)' <=> Taken(i)
    BY <1>0, <1>5, <1>6, <2>1 DEF Taken
  <2>3. i # p => (Built(i)' <=> Built(i))
    BY <1>0, <1>5, <1>6, <2>1 DEF Built
  <2>4. QED
    BY <1>6, <2>1, <2>2, <2>3 DEF Published, Freed, StagesKept
<1>10. Built(p)'
  BY <1>1, <1>5, <1>6 DEF Built
<1>11. Delivered'
  BY <1>9, WindowFacts DEF Delivered
<1>12. SlotsServe'
  <2>1. Serves(s, p)'
    BY <1>1, <1>2, <1>3, <1>5, <1>9, <1>10 DEF Serves
  <2>2. QED
    BY <1>1, <1>5, <1>9, <2>1, SlotStep
<1>13. QED
  BY <1>4, <1>7, <1>8, <1>11, <1>12

\* The element is published: the slot turns to the consumer of pos[t].
LEMMA StoreReadTurnStep ==
  ASSUME IInv, NEW t \in Threads, alive, StoreReadTurn(t)
  PROVE  IInv'
<1> USE DEF IInv, StoreReadTurn
<1> PICK p \in Nat : p = pos[t]
  BY QueueAssumption DEF TypeOK
<1> DEFINE s == Slot(p)
           l == IF left[t] > 1 THEN "pushWait" ELSE "idle"
<1>0. pc[t] = "pushPublish" /\ pc[t] \in WriterPc
  BY DEF WriterPc
<1>1. /\ p \in Window /\ p \in Positions /\ p \in Nat /\ s \in Slots
      /\ p < head /\ Writing(t, p)
      /\ \A u \in Threads : Writing(u, p) => u = t
  BY <1>0, Holder, WindowFacts
<1>2. Serves(s, p) /\ ~Published(p) /\ turn[s] = WriteTurn(p)
  BY <1>0, <1>1, ServedPosition DEF Stages
<1>3. left[t] > 0 /\ left[t] \in Nat /\ p + left[t] <= head /\ head <= Last /\ head \in Int
  BY <1>0, QueueAssumption DEF Claims, TypeOK
<1>4. TypeOK'
  <2>1. p + 1 \in First .. Last /\ ReadTurn(p) \in Nat
    BY <1>1, <1>3, SlotTypes, QueueAssumption DEF Positions
  <2>2. left[t] - 1 \in 0 .. MaxBulk
    BY <1>3, QueueAssumption DEF TypeOK
  <2>3. pc' \in [Threads -> {"idle"} \union WriterPc \union ReaderPc
                              \union TryPushPc \union TryPopPc]
    BY DEF TypeOK, Goto, WriterPc
  <2>4. QED
    BY <1>1, <2>1, <2>2, <2>3 DEF TypeOK
<1>5. /\ pc'[t] = l /\ pos'[t] = p + 1 /\ left'[t] = left[t] - 1
      /\ \A u \in Threads \ {t} : pc'[u] = pc[u] /\ pos'[u] = pos[u] /\ left'[u] = left[u]
      /\ turn'[s] = ReadTurn(p)
      /\ \A r \in Slots \ {s} : turn'[r] = turn[r]
  BY <1>1 DEF TypeOK, Goto
<1>6. \A u \in Threads, i \in Int :
         /\ Writing(u, i)' <=> Writing(u, i) /\ (i # p \/ u # t)
         /\ Reading(u, i)' <=> Reading(u, i)
  <2>1. ASSUME NEW i \in Int
        PROVE  Writing(t, i)' <=> Writing(t, i) /\ i # p
    BY <1>0, <1>1, <1>3, <1>5 DEF Writing, WriterPc
  <2>2. \A i \in Int : Reading(t, i)' <=> Reading(t, i)
    BY <1>0, <1>5 DEF Reading, ReaderPc
  <2>3. \A u \in Threads \ {t}, i \in Int :
           (Writing(u, i)' <=> Writing(u, i)) /\ (Reading(u, i)' <=> Reading(u, i))
    BY <1>5 DEF Writing, Reading
  <2>4. QED
    BY <2>1, <2>2, <2>3
<1>7. Claims'
  <2>1. /\ l \notin ReaderPc /\ l \notin TryPushPc /\ l \notin TryPopPc
        /\ l \in WriterPc => left[t] > 1
    BY DEF WriterPc, ReaderPc, TryPushPc, TryPopPc
  <2>2. \A u, v \in Threads, i \in Positions :
          (Writing(u, i)' /\ Writing(v, i)') \/ (Reading(u, i)' /\ Reading(v, i)') => u = v
    BY <1>6 DEF Claims, Positions
  <2>3. pc'[t] \in WriterPc => left'[t] > 0 /\ pos'[t] + left'[t] <= head
    BY <1>1, <1>3, <1>5, <2>1
  <2>4. QED
    BY <1>5, <2>1, <2>2, <2>3 DEF Claims, Positions
<1>8. Stages'
  <2>1. SUFFICES ASSUME NEW u \in Threads, u # t, Slot(pos[u]) = s
                 PROVE  /\ pc[u] \notin {"pushWrite", "pushPublish"}
                        /\ pc[u] \notin {"popRead", "popRelease"}
                        /\ pc[u] = "pushCas" => pos[u] < head
                        /\ pc[u] = "popCas" => pos[u] < tail
    <3>1. \A u \in Threads : pos[u] \in Nat /\ Slot(pos[u]) \in Slots
      BY SlotTypes, QueueAssumption DEF TypeOK
    <3>2. \A u \in Threads \ {t} : Slot(pos[u]) # s => turn'[Slot(pos[u])] = turn[Slot(pos[u])]
      BY <1>5, <3>1
    <3>3. QED
      BY <1>5, <2>1, <3>2 DEF Stages
  <2>2. pos[u] \in Window /\ pos[u] \in Nat
    BY WindowFacts DEF TypeOK
  <2>3. turn[s] = WriteTurn(pos[u]) => pos[u] = p
    BY <1>1, <1>2, <2>1, <2>2, TurnTells
  <2>4. turn[s] # ReadTurn(pos[u])
    BY <1>1, <1>2, <2>2, TurnParity
  <2>5. pc[u] \notin {"pushWrite", "pushPublish"}
    <3>1. SUFFICES ASSUME pc[u] \in {"pushWrite", "pushPublish"} PROVE FALSE
      OBVIOUS
    <3>2. Writing(u, pos[u])
      BY <3>1, Holder DEF WriterPc
    <3>3. QED
      BY <1>1, <2>1, <2>3, <3>1, <3>2 DEF Stages
  <2>6. QED
    BY <1>1, <2>1, <2>3, <2>4, <2>5 DEF Stages
<1>9. ASSUME NEW i \in Window
      PROVE  /\ Taken(i)' <=> Taken(i)
             /\ Freed(i)' <=> Freed(i)
             /\ Published(i)' <=> Published(i) \/ i = p
             /\ Built(i)' <=> Built(i)
  <2>1. i \in Int
    BY WindowFacts
  <2>2. Taken(i)' <=> Taken(i)
    BY <1>0, <1>5, <1>6, <2>1 DEF Taken, Reading, ReaderPc
  <2>3. Freed(i)' <=> Freed(i)
    BY <1>6, <2>1 DEF Freed
  <2>4. Published(i)' <=> Published(i) \/ i = p
    BY <1>1, <1>6, <2>1 DEF Published
  <2>5. CASE i = p
    <3>1. Built(i)
      BY <1>0, <1>1, <2>5 DEF Built
    <3>2. Built(i)'
      BY <1>1, <1>6, <2>1, <2>5 DEF Built
    <3>3. QED
      BY <2>2, <2>3, <2>4, <3>1, <3>2
  <2>6. CASE i # p
    <3>1. ~(pc'[t] = "pushPublish")
      BY <1>5
    <3>2. Built(i)' <=> Built(i)
      BY <1>1, <1>5, <1>6, <2>1, <2>6, <3>1 DEF Built
    <3>3. QED
      BY <2>2, <2>3, <2>4, <3>2
  <2>7. QED
    BY <2>5, <2>6
<1>10. Delivered'
  BY <1>9, WindowFacts DEF Delivered
<1>11. SlotsServe'
  <2>1. Serves(s, p)'
    <3>1. turn'[s] = ReadTurn(p) /\ Published(p)'
      BY <1>1, <1>5, <1>9
    <3>2. data'[s] = IF alive' /\ Built(p)' /\ ~Taken(p)' THEN p ELSE None
      BY <1>1, <1>2, <1>9 DEF Serves
    <3>3. ~Freed(p)'
      BY <1>1, <1>2, <1>9 DEF Serves
    <3>4. ASSUME NEW j \in Window, Slot(j) = s
          PROVE  /\ j < p => Published(j)' /\ Freed(j)'
                 /\ j > p => ~Published(j)' /\ ~Freed(j)'
      BY <1>1, <1>2, <1>9, <3>4, WindowFacts DEF Serves
    <3>5. QED
      BY <3>1, <3>2, <3>3, <3>4 DEF Serves
  <2>2. \A i \in Window : i # p => StagesKept(i)
    BY <1>9 DEF StagesKept
  <2>3. \A r \in Slots : r # Slot(p) => turn'[r] = turn[r] /\ data'[r] = data[r]
    BY <1>5
  <2>4. SlotsServe /\ p \in Window /\ alive' = alive
    BY <1>1
  <2>5. QED
    BY <2>1, <2>2, <2>3, <2>4, SlotStep
<1>12. QED
  BY <1>4, <1>7, <1>8, <1>10, <1>11

\* The consumer of pos[t] gets its element.
LEMMA TakeStep ==
  ASSUME IInv, NEW t \in Threads, alive, Take(t)
  PROVE  IInv'
<1> USE DEF IInv, Take
<1> PICK p \in Nat : p = pos[t]
  BY QueueAssumption DEF TypeOK
<1> DEFINE s == Slot(p)
<1>0. pc[t] = "popRead" /\ pc[t] \in ReaderPc
  BY DEF ReaderPc
<1>1. /\ p \in Window /\ p \in Positions /\ s \in Slots
      /\ p < tail /\ Reading(t, p)
      /\ \A u \in Threads : Reading(u, p) => u = t
  BY <1>0, Holder, WindowFacts
<1>2. Serves(s, p) /\ Published(p) /\ Built(p) /\ ~Taken(p)
  <2>1. Serves(s, p) /\ Published(p)
    BY <1>0, <1>1, ServedPosition DEF Stages
  <2>2. QED
    BY <1>0, <1>1, <2>1 DEF Published, Built, Taken
<1>3. data[s] = p
  BY <1>2 DEF Serves
<1>4. TypeOK'
  BY <1>1, <1>3 DEF TypeOK, Goto, ReaderPc
<1>5. /\ pc'[t] = "popRelease"
      /\ \A u \in Threads \ {t} : pc'[u] = pc[u]
      /\ data'[s] = None
      /\ \A r \in Slots : r # Slot(p) => turn'[r] = turn[r] /\ data'[r] = data[r]
      /\ got'[p] = p
      /\ \A i \in Positions : i # p => got'[i] = got[i]
  BY <1>1, <1>3 DEF TypeOK, Goto
<1>6. \A u \in Threads, i \in Int :
         (Writing(u, i)' <=> Writing(u, i)) /\ (Reading(u, i)' <=> Reading(u, i))
  BY <1>0, <1>5 DEF Writing, Reading, WriterPc, ReaderPc
<1>7. Claims'
  <2>1. \A u \in Threads : /\ pc'[u] \in WriterPc <=> pc[u] \in WriterPc
                           /\ pc'[u] \in ReaderPc <=> pc[u] \in ReaderPc
                           /\ pc'[u] \in TryPushPc <=> pc[u] \in TryPushPc
                           /\ pc'[u] \in TryPopPc <=> pc[u] \in TryPopPc
    BY <1>0, <1>5 DEF WriterPc, ReaderPc, TryPushPc, TryPopPc
  <2>2. \A u, v \in Threads, i \in Positions :
          (Writing(u, i)' /\ Writing(v, i)') \/ (Reading(u, i)' /\ Reading(v, i)') => u = v
    BY <1>6 DEF Claims, Positions
  <2>3. QED
    BY <2>1, <2>2 DEF Claims, Positions
<1>8. Stages'
  BY <1>0, <1>5 DEF Stages
<1>9. ASSUME NEW i \in Window
      PROVE  /\ Built(i)' <=> Built(i)
             /\ Published(i)' <=> Published(i)
             /\ Freed(i)' <=> Freed(i)
             /\ Taken(i)' <=> Taken(i) \/ i = p
  <2>1. i \in Int
    BY WindowFacts
  <2>2. Built(i)' <=> Built(i)
    BY <1>0, <1>5, <1>6, <2>1 DEF Built
  <2>3. Taken(i)' <=> Taken(i) \/ i = p
    BY <1>0, <1>1, <1>5, <1>6, <2>1 DEF Taken, Reading
  <2>4. QED
    BY <1>6, <2>1, <2>2, <2>3 DEF Published, Freed
<1>10. Delivered'
  BY <1>1, <1>5, <1>9, WindowFacts DEF Delivered
<1>11. SlotsServe'
  <2>1. Serves(s, p)'
    <3>1. turn'[s] = ReadTurn(p) /\ Published(p)'
      BY <1>1, <1>2, <1>9 DEF Serves
    <3>2. Taken(p)' /\ ~Freed(p)'
      BY <1>1, <1>2, <1>9 DEF Serves
    <3>3. ASSUME NEW j \in Window, Slot(j) = s
          PROVE  /\ j < p => Published(j)' /\ Freed(j)'
                 /\ j > p => ~Published(j)' /\ ~Freed(j)'
      BY <1>2, <1>9, <3>3 DEF Serves
    <3>4. QED
      BY <1>5, <3>1, <3>2, <3>3 DEF Serves
  <2>2. \A i \in Window : i # p => StagesKept(i)
    BY <1>9 DEF StagesKept
  <2>3. SlotsServe /\ p \in Window /\ alive' = alive
    BY <1>1
  <2>4. QED
    BY <1>5, <2>1, <2>2, <2>3, SlotStep
<1>12. QED
  BY <1>4, <1>7, <1>8, <1>10, <1>11

\* The slot turns to the producer of the position one capacity further on.
LEMMA StoreWriteTurnStep ==
  ASSUME IInv, NEW t \in Threads, alive, StoreWriteTurn(t)
  PROVE  IInv'
<1> USE DEF IInv, StoreWriteTurn
<1> PICK p \in Nat : p = pos[t]
  BY QueueAssumption DEF TypeOK
<1> DEFINE s == Slot(p)
           k == p + Cap
           l == IF t \in draining THEN "popCheck" ELSE "idle"
<1>0. pc[t] = "popRelease" /\ pc[t] \in ReaderPc
  BY DEF ReaderPc
<1>1. /\ p \in Window /\ p \in Positions /\ s \in Slots
      /\ p < tail /\ Reading(t, p)
      /\ \A u \in Threads : Reading(u, p) => u = t
      /\ tail \in First .. Last
  BY <1>0, Holder, WindowFacts DEF TypeOK
<1>2. Serves(s, p) /\ Published(p) /\ turn[s] = ReadTurn(p)
  BY <1>0, <1>1, ServedPosition DEF Stages
<1>3. Taken(p)
  BY <1>0, <1>1 DEF Taken
<1>4. /\ k \in Window /\ k \in Nat /\ Slot(k) = s /\ k > p
      /\ WriteTurn(k) = TurnAfterRead(p) /\ TurnAfterRead(p) \in Nat
  BY <1>1, WindowFacts, NextLap, SlotTypes, QueueAssumption
<1>5. /\ pc'[t] = l /\ pos'[t] \in First .. Last /\ pos'[t] <= tail
      /\ \A u \in Threads \ {t} : pc'[u] = pc[u] /\ pos'[u] = pos[u]
      /\ turn'[s] = WriteTurn(k)
      /\ \A r \in Slots : r # Slot(p) => turn'[r] = turn[r] /\ data'[r] = data[r]
  BY <1>1, <1>4, QueueAssumption DEF TypeOK, Goto, Positions
<1>6. TypeOK'
  <2>1. turn' \in [Slots -> Nat]
    BY <1>1, <1>4 DEF TypeOK
  <2>2. pos' \in [Threads -> First .. Last]
    BY <1>5 DEF TypeOK
  <2>3. pc' \in [Threads -> {"idle"} \union WriterPc \union ReaderPc
                              \union TryPushPc \union TryPopPc]
    BY DEF TypeOK, Goto, TryPopPc
  <2>4. QED
    BY <2>1, <2>2, <2>3 DEF TypeOK
<1>7. \A u \in Threads, i \in Int :
         /\ Writing(u, i)' <=> Writing(u, i)
         /\ Reading(u, i)' <=> Reading(u, i) /\ u # t
  BY <1>0, <1>5 DEF Writing, Reading, WriterPc, ReaderPc
<1>8. Claims'
  <2>1. /\ l \notin WriterPc /\ l \notin ReaderPc /\ l \notin TryPushPc
    BY DEF WriterPc, ReaderPc, TryPushPc
  <2>2. \A u, v \in Threads, i \in Positions :
          (Writing(u, i)' /\ Writing(v, i)') \/ (Reading(u, i)' /\ Reading(v, i)') => u = v
    BY <1>7 DEF Claims, Positions
  <2>3. QED
    BY <1>5, <2>1, <2>2 DEF Claims, Positions
<1>9. Stages'
  <2>1. SUFFICES ASSUME NEW u \in Threads, u # t, Slot(pos[u]) = s
                 PROVE  /\ pc[u] \notin {"pushWrite", "pushPublish"}
                        /\ pc[u] \notin {"popRead", "popRelease"}
                        /\ pc[u] = "pushCas" => pos[u] < head
                        /\ pc[u] = "popCas" => pos[u] < tail
    <3>1. \A u \in Threads : pos[u] \in Nat /\ Slot(pos[u]) \in Slots
      BY SlotTypes, QueueAssumption DEF TypeOK
    <3>2. \A u \in Threads \ {t} : Slot(pos[u]) # s => turn'[Slot(pos[u])] = turn[Slot(pos[u])]
      BY <1>5, <3>1
    <3>3. QED
      BY <1>5, <2>1, <3>2 DEF Stages
  <2>2. pos[u] \in Window /\ pos[u] \in Nat
    BY WindowFacts DEF TypeOK
  <2>3. turn[s] = ReadTurn(pos[u]) => pos[u] = p
    BY <1>1, <1>2, <2>1, <2>2, TurnTells
  <2>4. turn[s] # WriteTurn(pos[u])
    BY <1>1, <1>2, <2>2, TurnParity
  <2>5. pc[u] \notin {"popRead", "popRelease"}
    <3>1. SUFFICES ASSUME pc[u] \in {"popRead", "popRelease"} PROVE FALSE
      OBVIOUS
    <3>2. Reading(u, pos[u])
      BY <3>1, Holder DEF ReaderPc
    <3>3. QED
      BY <1>1, <2>1, <2>3, <3>1, <3>2 DEF Stages
  <2>6. QED
    BY <1>1, <2>1, <2>3, <2>4, <2>5 DEF Stages
<1>10. ASSUME NEW i \in Window
       PROVE  /\ Built(i)' <=> Built(i)
              /\ Published(i)' <=> Published(i)
              /\ Taken(i)' <=> Taken(i)
              /\ Freed(i)' <=> Freed(i) \/ i = p
  <2>1. i \in Int
    BY WindowFacts
  <2>2. Built(i)' <=> Built(i)
    BY <1>0, <1>5, <1>7, <2>1 DEF Built, Writing, WriterPc
  <2>3. Taken(i)' <=> Taken(i)
    BY <1>0, <1>1, <1>3, <1>5, <1>7, <2>1 DEF Taken, Reading
  <2>4. Freed(i)' <=> Freed(i) \/ i = p
    BY <1>0, <1>1, <1>7, <2>1 DEF Freed, Reading
  <2>5. QED
    BY <1>7, <2>1, <2>2, <2>3, <2>4 DEF Published
<1>11. Delivered'
  BY <1>10, WindowFacts DEF Delivered
<1>12. SlotsServe'
  <2>1. Serves(s, k)'
    <3>1. ~Published(k) /\ ~Freed(k)
      BY <1>2, <1>4 DEF Serves
    <3>2. ~Built(k)
      <4>1. SUFFICES ASSUME Built(k) PROVE FALSE
        OBVIOUS
      <4>2. PICK u \in Threads : Writing(u, k) /\ pc[u] = "pushPublish" /\ pos[u] = k
        BY <3>1, <4>1 DEF Built, Published
      <4>3. turn[s] = WriteTurn(k)
        BY <1>4, <4>2 DEF Stages
      <4>4. QED
        BY <1>2, <1>4, <4>3, TurnParity
    <3>3. data'[s] = None
      BY <1>2, <1>3 DEF Serves
    <3>4. ~Published(k)' /\ ~Freed(k)' /\ ~Built(k)'
      BY <1>4, <1>10, <3>1, <3>2
    <3>5. ASSUME NEW j \in Window, Slot(j) = s
          PROVE  /\ j < k => Published(j)' /\ Freed(j)'
                 /\ j > k => ~Published(j)' /\ ~Freed(j)'
      <4>1. j \in Nat
        BY WindowFacts
      <4>2. j < k => j <= p
        BY <1>4, <3>5, <4>1, Gap, QueueAssumption
      <4>3. QED
        BY <1>2, <1>4, <1>10, <3>5, <4>1, <4>2 DEF Serves
    <3>6. QED
      BY <1>4, <1>5, <3>3, <3>4, <3>5 DEF Serves
  <2>2. \A i \in Window : i # p => StagesKept(i)
    BY <1>10 DEF StagesKept
  <2>3. SlotsServe /\ p \in Window /\ alive' = alive
    BY <1>1
  <2>4. QED
    BY <1>4, <1>5, <2>1, <2>2, <2>3, SlotStep
<1>13. QED
  BY <1>6, <1>8, <1>9, <1>11, <1>12

\* The destructor leaves no element behind.
LEMMA DestructStep ==
  ASSUME IInv, alive, Destruct
  PROVE  IInv'
<1> USE DEF IInv, Destruct
<1>1. TypeOK'
  BY DEF TypeOK
<1>2. Claims' /\ Stages'
  BY DEF Claims, Stages, Writing, Reading, WriterPc, ReaderPc, TryPushPc, TryPopPc
<1>3. ASSUME NEW i \in Window
      PROVE  StagesKept(i) /\ (Built(i) <=> Published(i))
  BY DEF StagesKept, Built, Published, Taken, Freed, Writing, Reading, WriterPc, ReaderPc
<1>4. Delivered'
  BY <1>3, WindowFacts DEF Delivered, StagesKept
<1>5. SlotsServe'
  <2>1. SUFFICES ASSUME NEW s \in Slots, NEW i \in Window, Serves(s, i)
                 PROVE  Serves(s, i)'
    BY DEF SlotsServe
  <2>2. data'[s] = None
    <3>1. i \in Nat
      BY WindowFacts
    <3>2. CASE Published(i)
      BY <2>1, <3>1, <3>2, TurnParity DEF Serves
    <3>3. CASE ~Published(i)
      BY <1>3, <2>1, <3>3 DEF Serves
    <3>4. QED
      BY <3>2, <3>3
  <2>3. QED
    BY <1>3, <2>1, <2>2 DEF Serves, StagesKept
<1>6. QED
  BY <1>1, <1>2, <1>4, <1>5

\* The bound on claims keeps head_ below Last.
LEMMA RoomBound ==
  ASSUME TypeOK, NEW n \in Nat, Room(n)
  PROVE  head + n <= Last
<1>1. IsFiniteSet({t \in Threads : pc[t] \in TryPushPc})
  BY QueueAssumption, FS_Subset
<1>2. Cardinality({t \in Threads : pc[t] \in TryPushPc}) \in Nat
  BY <1>1, FS_CardinalityType
<1>3. QED
  BY <1>2, QueueAssumption DEF Room, TypeOK

\* IInv is inductive.
LEMMA StepIInv == IInv /\ [Next]_vars => IInv'
<1> SUFFICES ASSUME IInv, [Next]_vars PROVE IInv'
  OBVIOUS
<1>1. CASE UNCHANGED vars
  BY <1>1 DEF vars, IInv, TypeOK, Claims, Stages, SlotsServe, Serves, Delivered,
              Built, Published, Taken, Freed, Writing, Reading
<1>2. CASE alive /\ Destruct
  BY <1>2, DestructStep
<1>3. ASSUME alive, NEW t \in Threads, Call(t) \/ Continue(t)
      PROVE  IInv'
  <2> USE <1>3
  <2>0. /\ TypeOK /\ Claims /\ Stages /\ SlotsServe
        /\ head \in First .. Last /\ tail \in First .. Last /\ pos[t] \in First .. Last
        /\ First \in Nat /\ Last \in Nat
        /\ pos = [pos EXCEPT ![t] = pos[t]]
        /\ draining \in SUBSET Threads
        /\ pc[t] \in TryPushPc => pos[t] <= head
        /\ pc[t] \in TryPopPc => pos[t] <= tail
    BY QueueAssumption DEF IInv, TypeOK, Claims
  <2>1. ASSUME NEW n \in 1 .. MaxBulk, FetchAddHead(t, n) PROVE IInv'
    <3>1. head + n <= Last
      BY <2>0, <2>1, RoomBound, QueueAssumption DEF FetchAddHead
    <3>2. QED
      BY <2>1, <3>1, ClaimHead DEF FetchAddHead
  <2>2. CASE LoadHead(t)
    <3>1. /\ pc[t] = "idle" /\ pos' = [pos EXCEPT ![t] = head] /\ Goto(t, "pushCheck")
          /\ UNCHANGED <<head, tail, turn, data, left, got, alive>>
          /\ draining' \in SUBSET Threads
      BY <2>0, <2>2 DEF LoadHead
    <3>2. head <= head /\ "pushCheck" \in TryPushPc /\ "pushCheck" \notin TryPopPc
      BY <2>0 DEF TryPushPc, TryPopPc
    <3>3. QED
      BY <2>0, <3>1, <3>2, QuietStep
  <2>3. CASE FetchAddTail(t)
    <3>1. tail + 1 <= Last
      BY <2>0, <2>3 DEF FetchAddTail
    <3>2. QED
      BY <2>3, <3>1, ClaimTail DEF FetchAddTail
  <2>4. ASSUME NEW drain \in BOOLEAN, LoadTail(t, drain) PROVE IInv'
    <3>1. /\ pc[t] = "idle" /\ pos' = [pos EXCEPT ![t] = tail] /\ Goto(t, "popCheck")
          /\ UNCHANGED <<head, tail, turn, data, left, got, alive>>
          /\ draining' \in SUBSET Threads
      BY <2>0, <2>4 DEF LoadTail
    <3>2. tail <= tail /\ "popCheck" \in TryPopPc /\ "popCheck" \notin TryPushPc
      BY <2>0 DEF TryPushPc, TryPopPc
    <3>3. QED
      BY <2>0, <3>1, <3>2, QuietStep
  <2>5. CASE AwaitWriteTurn(t) \/ AwaitReadTurn(t)
    BY <2>5, AwaitStep
  <2>6. CASE Construct(t)
    BY <2>6, ConstructStep
  <2>7. CASE StoreReadTurn(t)
    BY <2>7, StoreReadTurnStep
  <2>8. CASE Take(t)
    BY <2>8, TakeStep
  <2>9. CASE StoreWriteTurn(t)
    BY <2>9, StoreWriteTurnStep
  <2>10. CASE CheckWriteTurn(t)
    <3>1. pos[t] <= head
      BY <2>0, <2>10 DEF CheckWriteTurn, TryPushPc
    <3>2. draining' = draining
      BY <2>10 DEF CheckWriteTurn
    <3>3. CASE turn[Slot(pos[t])] = WriteTurn(pos[t])
      BY <2>0, <2>10, <3>1, <3>2, <3>3, QuietStep DEF CheckWriteTurn, TryPushPc, TryPopPc
    <3>4. CASE turn[Slot(pos[t])] # WriteTurn(pos[t])
      BY <2>0, <2>10, <3>1, <3>2, <3>4, QuietStep DEF CheckWriteTurn, TryPushPc, TryPopPc
    <3>5. QED
      BY <3>3, <3>4
  <2>11. CASE CasHead(t)
    <3>1. pc[t] = "pushCas" /\ pos[t] <= head /\ pos[t] \in Nat /\ head \in Nat
      BY <2>0, <2>11 DEF CasHead, TryPushPc
    <3>2. CASE Word(head) = Word(pos[t])
      <4>1. pos[t] = head
        <5>1. head - pos[t] < Wrap /\ pos[t] - head < Wrap
          BY <2>0, WindowFacts
        <5>2. QED
          BY <3>1, <3>2, <5>1, WordInjective
      <4>2. turn[Slot(head)] = WriteTurn(head)
        BY <3>1, <2>0, <4>1 DEF Stages
      <4>3. /\ head' = head + 1 /\ left' = [left EXCEPT ![t] = 1]
            /\ Goto(t, "pushWrite") /\ pos' = [pos EXCEPT ![t] = head]
            /\ head + 1 <= Last /\ 1 \in 1 .. MaxBulk
            /\ UNCHANGED <<tail, turn, data, draining, got, alive>>
        BY <2>0, <2>11, <3>2, <4>1, QueueAssumption DEF CasHead
      <4>4. QED
        BY <3>1, <4>2, <4>3, ClaimHead DEF TryPushPc
    <3>3. CASE Word(head) # Word(pos[t])
      BY <2>0, <2>11, <3>1, <3>3, QuietStep DEF CasHead, TryPushPc, TryPopPc
    <3>4. QED
      BY <3>2, <3>3
  <2>12. CASE ReloadHead(t)
    <3>1. pos[t] <= head /\ draining' = draining
      BY <2>0, <2>12 DEF ReloadHead, TryPushPc
    <3>2. CASE Word(head) = Word(pos[t])
      BY <2>0, <2>12, <3>1, <3>2, QuietStep DEF ReloadHead, TryPushPc, TryPopPc
    <3>3. CASE Word(head) # Word(pos[t])
      BY <2>0, <2>12, <3>1, <3>3, QuietStep DEF ReloadHead, TryPushPc, TryPopPc
    <3>4. QED
      BY <3>2, <3>3
  <2>13. CASE CheckReadTurn(t)
    <3>1. pos[t] <= tail /\ draining' = draining
      BY <2>0, <2>13 DEF CheckReadTurn, TryPopPc
    <3>2. CASE turn[Slot(pos[t])] = ReadTurn(pos[t])
      BY <2>0, <2>13, <3>1, <3>2, QuietStep DEF CheckReadTurn, TryPushPc, TryPopPc
    <3>3. CASE turn[Slot(pos[t])] # ReadTurn(pos[t])
      BY <2>0, <2>13, <3>1, <3>3, QuietStep DEF CheckReadTurn, TryPushPc, TryPopPc
    <3>4. QED
      BY <3>2, <3>3
  <2>14. CASE CasTail(t)
    <3>1. pc[t] = "popCas" /\ pos[t] <= tail /\ pos[t] \in Nat /\ tail \in Nat
      BY <2>0, <2>14 DEF CasTail, TryPopPc
    <3>2. CASE Word(tail) = Word(pos[t])
      <4>1. pos[t] = tail
        <5>1. tail - pos[t] < Wrap /\ pos[t] - tail < Wrap
          BY <2>0, WindowFacts
        <5>2. QED
          BY <3>1, <3>2, <5>1, WordInjective
      <4>2. turn[Slot(tail)] = ReadTurn(tail)
        BY <3>1, <2>0, <4>1 DEF Stages
      <4>3. Published(tail)
        BY <2>0, <4>2, WindowFacts, ServedPosition
      <4>4. tail + 1 <= Last
        BY <2>0, <4>3 DEF Published
      <4>5. /\ tail' = tail + 1 /\ Goto(t, "popRead")
            /\ pos' = [pos EXCEPT ![t] = tail]
            /\ UNCHANGED <<head, turn, data, left, draining, got, alive>>
        BY <2>0, <2>14, <3>2, <4>1 DEF CasTail
      <4>6. QED
        BY <3>1, <4>2, <4>4, <4>5, ClaimTail DEF TryPopPc
    <3>3. CASE Word(tail) # Word(pos[t])
      BY <2>0, <2>14, <3>1, <3>3, QuietStep DEF CasTail, TryPushPc, TryPopPc
    <3>4. QED
      BY <3>2, <3>3
  <2>15. CASE ReloadTail(t)
    <3>1. pos[t] <= tail /\ draining' = draining
      BY <2>0, <2>15 DEF ReloadTail, TryPopPc
    <3>2. CASE Word(tail) = Word(pos[t])
      BY <2>0, <2>15, <3>1, <3>2, QuietStep DEF ReloadTail, TryPushPc, TryPopPc
    <3>3. CASE Word(tail) # Word(pos[t])
      BY <2>0, <2>15, <3>1, <3>3, QuietStep DEF ReloadTail, TryPushPc, TryPopPc
    <3>4. QED
      BY <3>2, <3>3
  <2>16. CASE RefreshTail(t)
    <3>1. /\ pc[t] = "popReload" /\ pos' = [pos EXCEPT ![t] = tail]
          /\ UNCHANGED <<head, tail, turn, data, left, got, alive>>
          /\ draining' \in SUBSET Threads
          /\ Goto(t, "idle") \/ Goto(t, "popCheck")
      BY <2>0, <2>16 DEF RefreshTail
    <3>2. /\ tail <= tail /\ pc[t] \in TryPopPc
          /\ "popCheck" \in TryPopPc /\ "popCheck" \notin TryPushPc
          /\ "idle" \notin TryPushPc \union TryPopPc
      BY <2>0, <3>1 DEF TryPushPc, TryPopPc
    <3>3. QED
      BY <2>0, <3>1, <3>2, QuietStep
  <2>17. QED
    BY <2>1, <2>2, <2>3, <2>4, <2>5, <2>6, <2>7, <2>8, <2>9, <2>10, <2>11,
       <2>12, <2>13, <2>14, <2>15, <2>16 DEF Call, Continue
<1>4. QED
  BY <1>1, <1>2, <1>3 DEF Next

-----------------------------------------------------------------------------
(***************************************************************************)
(* The theorems.                                                           *)
(***************************************************************************)

\* IInv holds in every reachable state of the queue.
THEOREM Invariance == Spec => []IInv
<1>1. Init => IInv
  BY InitIInv
<1>2. IInv /\ [Next]_vars => IInv'
  BY StepIInv
<1>3. QED
  BY <1>1, <1>2, PTL DEF Spec

\* Every variable keeps its type; in particular no try_emplace or try_pop
\* moves a counter past the positions that were handed out.
THEOREM TypeCorrect == Spec => []TypeOK
<1>1. IInv => TypeOK
  BY DEF IInv
<1>2. QED
  BY <1>1, Invariance, PTL

\* No two threads are ever inside the same slot of MPMCQueue: the unlocked
\* accesses of emplace, pop and their variants to slot.data never race.
THEOREM Exclusion == Spec => []SlotExclusive
<1>1. IInv => SlotExclusive
  <2>1. SUFFICES ASSUME IInv, NEW s \in Slots, NEW t \in Inside(s), NEW u \in Inside(s)
                 PROVE  t = u
    BY DEF SlotExclusive
  <2>2. /\ t \in Threads /\ u \in Threads
        /\ Slot(pos[t]) = s /\ Slot(pos[u]) = s
        /\ pc[t] \in {"pushWrite", "pushPublish", "popRead", "popRelease"}
        /\ pc[u] \in {"pushWrite", "pushPublish", "popRead", "popRelease"}
    BY DEF Inside
  <2>3. pos[t] \in Window /\ pos[u] \in Window /\ pos[t] \in Nat /\ pos[u] \in Nat
    BY <2>1, <2>2, WindowFacts DEF IInv, TypeOK
  <2>4. WriteTurn(pos[t]) # ReadTurn(pos[u]) /\ WriteTurn(pos[u]) # ReadTurn(pos[t])
    BY <2>3, TurnParity
  <2>5. CASE pc[t] \in {"pushWrite", "pushPublish"}
    <3>1. turn[s] = WriteTurn(pos[t])
      BY <2>1, <2>2, <2>5 DEF IInv, Stages
    <3>2. pc[u] \in {"pushWrite", "pushPublish"} /\ turn[s] = WriteTurn(pos[u])
      BY <2>1, <2>2, <2>4, <3>1 DEF IInv, Stages
    <3>3. pos[t] = pos[u]
      BY <2>2, <2>3, <3>1, <3>2, TurnTells
    <3>4. QED
      BY <2>1, <2>2, <2>5, <3>2, <3>3, Holder DEF WriterPc
  <2>6. CASE pc[t] \in {"popRead", "popRelease"}
    <3>1. turn[s] = ReadTurn(pos[t])
      BY <2>1, <2>2, <2>6 DEF IInv, Stages
    <3>2. pc[u] \in {"popRead", "popRelease"} /\ turn[s] = ReadTurn(pos[u])
      BY <2>1, <2>2, <2>4, <3>1 DEF IInv, Stages
    <3>3. pos[t] = pos[u]
      BY <2>2, <2>3, <3>1, <3>2, TurnTells
    <3>4. QED
      BY <2>1, <2>2, <2>6, <3>2, <3>3, Holder DEF ReaderPc
  <2>7. QED
    BY <2>2, <2>5, <2>6
<1>2. QED
  BY <1>1, Invariance, PTL

\* A producer constructs only into a slot without an element, and a consumer
\* finds in its slot the element of its own position.
THEOREM Access == Spec => []AccessesLive
<1>1. IInv => AccessesLive
  <2>1. SUFFICES ASSUME IInv, NEW t \in Threads
                 PROVE  /\ pc[t] = "pushWrite" => data[Slot(pos[t])] = None
                        /\ pc[t] = "popRead" => data[Slot(pos[t])] = pos[t]
    BY DEF AccessesLive
  <2>2. CASE pc[t] = "pushWrite"
    <3>1. pos[t] \in Window /\ Writing(t, pos[t])
      BY <2>1, <2>2, Holder, WindowFacts DEF WriterPc
    <3>2. Serves(Slot(pos[t]), pos[t])
      BY <2>1, <2>2, <3>1, ServedPosition DEF IInv, Stages
    <3>3. ~Built(pos[t])
      BY <2>2, <3>1 DEF Built
    <3>4. QED
      BY <2>2, <3>2, <3>3 DEF Serves
  <2>3. CASE pc[t] = "popRead"
    <3>1. pos[t] \in Window /\ Reading(t, pos[t])
      BY <2>1, <2>3, Holder, WindowFacts DEF ReaderPc
    <3>2. Serves(Slot(pos[t]), pos[t]) /\ Published(pos[t])
      BY <2>1, <2>3, <3>1, ServedPosition DEF IInv, Stages
    <3>3. alive /\ Built(pos[t]) /\ ~Taken(pos[t])
      BY <2>1, <2>3, <3>1, <3>2 DEF IInv, Published, Built, Taken
    <3>4. QED
      BY <2>3, <3>2, <3>3 DEF Serves
  <2>4. QED
    BY <2>2, <2>3
<1>2. QED
  BY <1>1, Invariance, PTL

\* The queue is first in, first out and delivers each element once.
THEOREM Order == Spec => []InOrder
<1>1. IInv => InOrder
  <2>1. SUFFICES ASSUME IInv, NEW i \in Positions
                 PROVE  /\ got[i] \in {i, None}
                        /\ got[i] = i => i < tail /\ i < head /\ \A s \in Slots : data[s] # i
    BY DEF InOrder
  <2>2. i # None /\ i \in Window /\ i \in Nat /\ Slot(i) \in Slots
    BY WindowFacts, SlotTypes, QueueAssumption DEF Positions
  <2>3. got[i] = IF Taken(i) THEN i ELSE None
    BY <2>1 DEF IInv, Delivered
  <2>4. ASSUME Taken(i)
        PROVE  i < tail /\ i < head /\ \A s \in Slots : data[s] # i
    <3>1. PICK j \in Window : Serves(Slot(i), j)
      BY <2>1, <2>2 DEF IInv, SlotsServe
    <3>2. Published(i)
      <4>1. CASE Freed(i)
        BY <2>2, <3>1, <4>1, WindowFacts DEF Serves
      <4>2. CASE ~Freed(i)
        <5>1. PICK u \in Threads : Reading(u, i) /\ pc[u] = "popRelease"
          BY <2>4, <4>2 DEF Taken, Freed
        <5>2. turn[Slot(i)] = ReadTurn(i)
          BY <2>1, <5>1 DEF IInv, Stages, Reading
        <5>3. QED
          BY <2>1, <2>2, <5>2, ServedPosition DEF IInv
      <4>3. QED
        BY <4>1, <4>2
    <3>3. ASSUME NEW s \in Slots PROVE data[s] # i
      <4>1. PICK k \in Window : Serves(s, k)
        BY <2>1 DEF IInv, SlotsServe
      <4>2. QED
        BY <2>2, <2>4, <4>1 DEF Serves
    <3>4. QED
      BY <2>4, <3>2, <3>3 DEF Taken, Published
  <2>5. QED
    BY <2>2, <2>3, <2>4
<1>2. QED
  BY <1>1, Invariance, PTL

\* With no call under way, the odd turns mark the elements pushed and never
\* popped, which are the ones the destructor of MPMCQueue destroys.
THEOREM Destruction == Spec => []DestructorFrees
<1>1. IInv => DestructorFrees
  <2>1. SUFFICES ASSUME IInv, alive, \A t \in Threads : pc[t] = "idle"
                 PROVE  /\ \A s \in Slots : turn[s] % 2 = 1 <=> data[s] # None
                        /\ {data[s] : s \in Slots} \ {None} = tail .. head - 1
    BY DEF DestructorFrees
  <2>2. \A i \in Window :
          /\ i \in Nat /\ i # None
          /\ Built(i) <=> i < head
          /\ Published(i) <=> i < head
          /\ Taken(i) <=> i < tail
          /\ Freed(i) <=> i < tail
    BY <2>1, WindowFacts, QueueAssumption
       DEF Built, Published, Taken, Freed, Writing, Reading, WriterPc, ReaderPc
  <2>3. head \in First .. Last /\ tail \in First .. Last /\ First \in Nat /\ Last \in Nat
    BY <2>1, QueueAssumption DEF IInv, TypeOK
  <2>4. ASSUME NEW s \in Slots, NEW i \in Window, Serves(s, i)
        PROVE  /\ turn[s] % 2 = 1 <=> data[s] # None
               /\ i >= tail
               /\ data[s] = IF i < head THEN i ELSE None
    <3>1. i >= tail
      BY <2>2, <2>3, <2>4 DEF Serves
    <3>2. data[s] = IF i < head THEN i ELSE None
      BY <2>1, <2>2, <2>3, <2>4, <3>1 DEF Serves
    <3>3. turn[s] % 2 = 1 <=> i < head
      BY <2>2, <2>4, TurnParity DEF Serves
    <3>4. QED
      BY <2>2, <3>1, <3>2, <3>3
  <2>5. \A s \in Slots : turn[s] % 2 = 1 <=> data[s] # None
    BY <2>1, <2>4 DEF IInv, SlotsServe
  <2>6. ASSUME NEW s \in Slots, data[s] # None
        PROVE  data[s] \in tail .. head - 1
    <3>1. PICK i \in Window : Serves(s, i)
      BY <2>1 DEF IInv, SlotsServe
    <3>2. QED
      BY <2>2, <2>3, <2>4, <2>6, <3>1
  <2>7. ASSUME NEW i \in tail .. head - 1
        PROVE  \E s \in Slots : data[s] = i /\ i # None
    <3>1. i \in Window /\ i \in Nat /\ Slot(i) \in Slots
      BY <2>3, SlotTypes, WindowFacts
    <3>2. PICK j \in Window : Serves(Slot(i), j)
      BY <2>1, <3>1 DEF IInv, SlotsServe
    <3>3. i = j
      BY <2>2, <2>3, <3>1, <3>2 DEF Serves
    <3>4. QED
      BY <2>2, <2>3, <2>4, <3>1, <3>2, <3>3
  <2>8. QED
    BY <2>5, <2>6, <2>7
<1>2. QED
  BY <1>1, Invariance, PTL

(***************************************************************************)
(* MPMCQueue implements TicketFifo: claiming a position reserves a place,  *)
(* constructing an element fills it, taking it empties it, and every other *)
(* step of the queue is invisible.                                         *)
(***************************************************************************)

\* The elements in the slots.
Stored == {data[s] : s \in Slots} \ {None}

\* A stored element is in the slot of its own position, and is not yet taken.
LEMMA StoredInItsSlot ==
  ASSUME IInv, NEW s \in Slots, data[s] # None
  PROVE  s = Slot(data[s]) /\ data[s] \in Window /\ ~Taken(data[s])
<1>1. PICK i \in Window : Serves(s, i)
  BY DEF IInv, SlotsServe
<1>2. data[s] = i /\ Slot(i) = s /\ ~Taken(i)
  BY <1>1 DEF Serves
<1>3. QED
  BY <1>2

\* Init maps to TicketFifo's initial state.
LEMMA FifoInit == Init => Fifo!Init
<1>1. Init => Stored = {}
  BY DEF Init, Stored
<1>2. QED
  BY <1>1 DEF Init, Fifo!Init, Fifo!Places, Positions, Stored

\* Constructing the element of a position fills the position's place.
LEMMA ConstructPuts ==
  ASSUME IInv, NEW t \in Threads, alive, Construct(t)
  PROVE  \E i \in Positions : Fifo!Put(i)
<1> PICK p \in Positions : p = pos[t]
  BY Holder DEF Construct, WriterPc
<1> DEFINE s == Slot(p)
<1>1. /\ pc[t] = "pushWrite" /\ pc[t] \in WriterPc /\ p < head /\ p \in Window
      /\ p \in Nat /\ s \in Slots /\ Writing(t, p) /\ p # None
  BY Holder, WindowFacts, QueueAssumption DEF Construct, WriterPc
<1>2. Serves(s, p) /\ turn[s] = WriteTurn(p)
  BY <1>1, ServedPosition DEF IInv, Stages
<1>3. data[s] = None
  <2>1. ~Built(p)
    BY <1>1 DEF Built
  <2>2. QED
    BY <1>2, <2>1 DEF Serves
<1>4. p \notin Stored
  BY <1>3, StoredInItsSlot DEF Stored
<1>5. got[p] = None
  <2>1. \A u \in Threads : Reading(u, p) => pc[u] # "popRelease"
    BY <1>1, <1>2, TurnParity DEF Reading, IInv, Stages
  <2>2. ~Taken(p)
    BY <1>2, <2>1 DEF Serves, Taken, Freed
  <2>3. QED
    BY <2>2 DEF IInv, Delivered
<1>6. ASSUME p >= First + Cap
      PROVE  got[p - Cap] # None
  <2>1. p - Cap \in Positions /\ p - Cap \in Nat /\ p - Cap \in Window /\ p - Cap < p
        /\ (p - Cap) + Cap = p
    BY <1>1, <1>6, QueueAssumption, WindowFacts DEF Positions
  <2>2. Slot(p - Cap) = s
    BY <2>1, NextLap
  <2>3. Taken(p - Cap)
    BY <1>2, <2>1, <2>2 DEF Serves, Freed, Taken
  <2>4. QED
    BY <2>1, <2>3, QueueAssumption DEF IInv, Delivered
<1>7. Stored' = Stored \union {p}
  <2>1. data' = [data EXCEPT ![s] = p] /\ data \in [Slots -> Positions \union {None}]
    BY DEF Construct, IInv, TypeOK
  <2>2. QED
    BY <1>1, <1>3, <2>1 DEF Stored
<1>8. UNCHANGED <<head, tail, got, alive>>
  BY DEF Construct
<1>9. Fifo!Put(p)
  BY <1>1, <1>4, <1>5, <1>6, <1>7, <1>8 DEF Fifo!Put, Stored
<1>10. QED
  BY <1>9

\* Taking the element of a position empties the position's place.
LEMMA TakeGets ==
  ASSUME IInv, NEW t \in Threads, alive, Take(t)
  PROVE  \E i \in Positions : Fifo!Get(i)
<1> PICK p \in Positions : p = pos[t]
  BY Holder DEF Take, ReaderPc
<1> DEFINE s == Slot(p)
<1>1. /\ pc[t] = "popRead" /\ pc[t] \in ReaderPc /\ p < tail /\ p \in Window
      /\ p \in Nat /\ s \in Slots /\ Reading(t, p) /\ p # None
  BY Holder, WindowFacts, QueueAssumption DEF Take, ReaderPc
<1>2. Serves(s, p) /\ Published(p)
  BY <1>1, ServedPosition DEF IInv, Stages
<1>3. data[s] = p
  <2>1. Built(p) /\ ~Taken(p)
    BY <1>1, <1>2 DEF Published, Built, Taken
  <2>2. QED
    BY <1>2, <2>1 DEF Serves
<1>4. data' = [data EXCEPT ![s] = None] /\ data \in [Slots -> Positions \union {None}]
  BY DEF Take, IInv, TypeOK
<1>5. \A r \in Slots : data[r] = p => r = s
  BY <1>1, StoredInItsSlot
<1>6. Stored' = Stored \ {p}
  BY <1>1, <1>3, <1>4, <1>5 DEF Stored
<1>7. p \in Stored
  BY <1>1, <1>3 DEF Stored
<1>8. got' = [got EXCEPT ![p] = p] /\ UNCHANGED <<head, tail, alive>>
  BY <1>3 DEF Take
<1>9. Fifo!Get(p)
  BY <1>1, <1>6, <1>7, <1>8 DEF Fifo!Get, Stored
<1>10. QED
  BY <1>9

\* The destructor closes the buffer with nothing left in it.
LEMMA DestructCloses ==
  ASSUME IInv, alive, Destruct
  PROVE  Fifo!Close
<1>1. ASSUME NEW s \in Slots PROVE data'[s] = None
  <2>1. PICK i \in Window : Serves(s, i)
    BY DEF IInv, SlotsServe
  <2>2. i \in Nat
    BY WindowFacts
  <2>3. CASE Published(i)
    BY <2>1, <2>2, <2>3, TurnParity DEF Serves, Destruct
  <2>4. CASE ~Published(i)
    <3>1. ~Built(i)
      BY <2>4 DEF Built, Published, Destruct, Writing, WriterPc
    <3>2. QED
      BY <2>1, <3>1 DEF Serves, Destruct
  <2>5. QED
    BY <2>3, <2>4
<1>2. Stored' = {}
  BY <1>1 DEF Stored
<1>3. QED
  BY <1>2 DEF Fifo!Close, Destruct, Stored

\* Every step of the queue is a step of the buffer or invisible to it.
LEMMA FifoStep ==
  ASSUME IInv, [Next]_vars
  PROVE  [Fifo!Next]_Fifo!vars
<1>1. CASE UNCHANGED vars
  BY <1>1 DEF vars, Fifo!vars
<1>2. CASE alive /\ Destruct
  BY <1>2, DestructCloses DEF Fifo!Next
<1>3. ASSUME alive, NEW t \in Threads, Call(t) \/ Continue(t)
      PROVE  [Fifo!Next]_Fifo!vars
  <2>0. /\ head \in First .. Last /\ tail \in First .. Last /\ pos[t] \in First .. Last
        /\ First \in Nat /\ Last \in Nat /\ TypeOK /\ Stages /\ SlotsServe
    BY QueueAssumption DEF IInv, TypeOK
  <2>1. ASSUME NEW n \in 1 .. MaxBulk, FetchAddHead(t, n) PROVE Fifo!Reserve
    <3>1. head + n <= Last
      BY <2>0, <2>1, RoomBound, QueueAssumption DEF FetchAddHead
    <3>2. QED
      BY <2>0, <2>1, <3>1 DEF FetchAddHead, Fifo!Reserve
  <2>2. ASSUME FetchAddTail(t) PROVE Fifo!Request
    BY <2>0, <2>2 DEF FetchAddTail, Fifo!Request
  <2>3. ASSUME Construct(t) PROVE \E i \in Positions : Fifo!Put(i)
    BY <1>3, <2>3, ConstructPuts
  <2>4. ASSUME Take(t) PROVE \E i \in Positions : Fifo!Get(i)
    BY <1>3, <2>4, TakeGets
  <2>5. ASSUME CasHead(t) PROVE Fifo!Reserve \/ UNCHANGED Fifo!vars
    <3>1. CASE head' = head + 1 /\ head < Last
      BY <2>0, <2>5, <3>1 DEF CasHead, Fifo!Reserve
    <3>2. CASE UNCHANGED head
      BY <2>5, <3>2 DEF CasHead, Fifo!vars
    <3>3. QED
      BY <2>5, <3>1, <3>2 DEF CasHead
  <2>6. ASSUME CasTail(t) PROVE Fifo!Request \/ UNCHANGED Fifo!vars
    <3>1. CASE Word(tail) = Word(pos[t])
      <4>1. pos[t] = tail
        BY <2>0, <3>1, WindowFacts, WordInjective
      <4>2. Published(tail)
        BY <2>0, <2>6, <4>1, WindowFacts, ServedPosition
           DEF CasTail, Stages
      <4>3. tail < Last
        BY <2>0, <4>2 DEF Published
      <4>4. QED
        BY <2>6, <3>1, <4>3 DEF CasTail, Fifo!Request
    <3>2. CASE Word(tail) # Word(pos[t])
      BY <2>6, <3>2 DEF CasTail, Fifo!vars
    <3>3. QED
      BY <3>1, <3>2
  <2>7. ASSUME \/ LoadHead(t) \/ (\E drain \in BOOLEAN : LoadTail(t, drain))
               \/ AwaitWriteTurn(t) \/ StoreReadTurn(t) \/ CheckWriteTurn(t)
               \/ ReloadHead(t) \/ AwaitReadTurn(t) \/ StoreWriteTurn(t)
               \/ CheckReadTurn(t) \/ ReloadTail(t) \/ RefreshTail(t)
        PROVE  UNCHANGED Fifo!vars
    BY <2>7 DEF LoadHead, LoadTail, AwaitWriteTurn, StoreReadTurn, CheckWriteTurn,
                ReloadHead, AwaitReadTurn, StoreWriteTurn, CheckReadTurn, ReloadTail,
                RefreshTail, Fifo!vars
  <2>8. QED
    BY <1>3, <2>1, <2>2, <2>3, <2>4, <2>5, <2>6, <2>7
       DEF Call, Continue, Fifo!Next, Fifo!Places, Positions
<1>4. QED
  BY <1>1, <1>2, <1>3 DEF Next

\* MPMCQueue is a bounded first-in-first-out buffer of capacity_ places: the
\* slots, turns and compare-and-swap loops of mpmc_queue.hpp implement it.
THEOREM Refinement == Spec => ImplementsFifo
<1>1. Init => Fifo!Init
  BY FifoInit
<1>2. IInv /\ [Next]_vars => [Fifo!Next]_Fifo!vars
  BY FifoStep
<1>3. QED
  BY <1>1, <1>2, Invariance, PTL DEF Spec, ImplementsFifo, Fifo!Spec
=============================================================================
