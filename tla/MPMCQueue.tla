------------------------------ MODULE MPMCQueue ------------------------------
(***************************************************************************)
(* The lock-free bounded queue of include/mpmc_queue.hpp.                  *)
(*                                                                         *)
(* head_ and tail_ count the positions claimed by producers and consumers. *)
(* Position i lives in slot i & mask_ and belongs to lap turn(i); a slot's *)
(* turn is 2 * lap while it waits to be written in that lap and            *)
(* 2 * lap + 1 while it waits to be read.  Every atomic operation of the   *)
(* code is one step here; the accesses to the slot's memory between them   *)
(* are one step each, so that two threads inside one slot are visible.     *)
(*                                                                         *)
(* An element is named by the position its producer claimed for it: the    *)
(* code never looks at elements, and positions are unique.                 *)
(***************************************************************************)
EXTENDS Integers, FiniteSets

CONSTANTS Threads,  \* threads that call the queue, each any operation
          Cap,      \* capacity_
          Laps,     \* laps before a counter overflows: 2^64 = Cap * Laps
          First,    \* positions pushed and popped before the behaviour starts
          Last,     \* bound: no position from Last on is claimed
          MaxBulk,  \* bound: elements of one bulk_push
          None      \* no element

\* The constructor asserts that capacity_ is a power of two, hence a divisor
\* of 2^64.  Fewer positions are handed out than there are counter values:
\* a thread is not suspended while the counters go once around.
ASSUME QueueAssumption ==
  /\ IsFiniteSet(Threads)
  /\ Cap \in Nat /\ Cap > 1
  /\ Laps \in Nat \ {0}
  /\ First \in Nat
  /\ Last \in Nat /\ First <= Last
  /\ Last - First + Cap <= Cap * Laps
  /\ MaxBulk \in Nat \ {0}
  /\ None \notin Int

VARIABLES head,      \* head_, before it is reduced to a word
          tail,      \* tail_, likewise
          turn,      \* slot.turn
          data,      \* slot.data: the element constructed in the slot, or None
          pc,        \* where each thread is
          pos,       \* its old_head or old_tail
          left,      \* elements its push has still to write (bulk_push: n - i)
          draining,  \* threads inside bulk_pop or try_consume_all
          got,       \* history: the element the consumer of each position got
          alive      \* the queue has not been destroyed

vars == <<head, tail, turn, data, pc, pos, left, draining, got, alive>>

Positions == First .. Last - 1
Slots == 0 .. Cap - 1

Wrap == Cap * Laps                  \* 2^64
Word(i) == i % Wrap                 \* the counter as the uint64_t holds it
Slot(i) == Word(i) % Cap
Turn(i) == Word(i) \div Cap

WriteTurn(i) == 2 * Turn(i)
ReadTurn(i) == 2 * Turn(i) + 1

\* The turn a reader leaves behind: the next lap's, and 0 after the last lap.
TurnAfterRead(i) ==
  IF Turn(i) = Turn(Wrap - 1) THEN 0 ELSE 2 * Turn(i) + 2

WriterPc == {"pushWait", "pushWrite", "pushPublish"}
ReaderPc == {"popWait", "popRead", "popRelease"}
TryPushPc == {"pushCheck", "pushCas", "pushReload"}
TryPopPc == {"popCheck", "popCas", "popReload"}

-----------------------------------------------------------------------------
\* The position that slot s serves first.
FirstIn(s) == CHOOSE i \in First .. First + Cap - 1 : Slot(i) = s

\* The constructor's state, after First elements went through the queue.
Init ==
  /\ head = First
  /\ tail = First
  /\ turn = [s \in Slots |-> WriteTurn(FirstIn(s))]
  /\ data = [s \in Slots |-> None]
  /\ pc = [t \in Threads |-> "idle"]
  /\ pos = [t \in Threads |-> First]
  /\ left = [t \in Threads |-> 0]
  /\ draining = {}
  /\ got = [i \in Positions |-> None]
  /\ alive = TRUE

Goto(t, label) == pc' = [pc EXCEPT ![t] = label]

\* Bound: n more positions can be claimed, also if every try_emplace under
\* way succeeds.
Room(n) ==
  head + Cardinality({t \in Threads : pc[t] \in TryPushPc}) + n <= Last

(***************************************************************************)
(* Mutants: plausible bugs, each of which breaks one of the properties     *)
(* below.  No specification uses them.                                     *)
(***************************************************************************)

\* bulk_push writes one element too many (i <= n).
FetchAddHeadWritesMore(t, n) ==
  /\ pc[t] = "idle"
  /\ Room(n)
  /\ head' = head + n
  /\ pos' = [pos EXCEPT ![t] = head]
  /\ left' = [left EXCEPT ![t] = n + 1]
  /\ Goto(t, "pushWait")
  /\ UNCHANGED <<tail, turn, data, draining, got, alive>>

\* bulk_push claims one position for n elements.
FetchAddHeadClaimsOne(t, n) ==
  /\ pc[t] = "idle"
  /\ Room(n)
  /\ head' = head + 1
  /\ pos' = [pos EXCEPT ![t] = head]
  /\ left' = [left EXCEPT ![t] = n]
  /\ Goto(t, "pushWait")
  /\ UNCHANGED <<tail, turn, data, draining, got, alive>>

\* The producer looks only at the parity of the turn, not at the lap.
AwaitWriteTurnAnyLap(t) ==
  /\ pc[t] = "pushWait"
  /\ turn[Slot(pos[t])] % 2 = 0
  /\ Goto(t, "pushWrite")
  /\ UNCHANGED <<head, tail, turn, data, pos, left, draining, got, alive>>

\* A plain store in place of the compare-and-swap.
CasHeadBlind(t) ==
  /\ pc[t] = "pushCas"
  /\ head < Last
  /\ head' = pos[t] + 1
  /\ left' = [left EXCEPT ![t] = 1]
  /\ Goto(t, "pushWrite")
  /\ UNCHANGED <<tail, turn, data, pos, draining, got, alive>>

\* A plain store in place of the compare-and-swap of tail_.
CasTailBlind(t) ==
  /\ pc[t] = "popCas"
  /\ tail' = pos[t] + 1
  /\ Goto(t, "popRead")
  /\ UNCHANGED <<head, turn, data, pos, left, draining, got, alive>>

\* The consumer looks only at the parity of the turn.
CheckReadTurnAnyLap(t) ==
  /\ pc[t] = "popCheck"
  /\ Goto(t, IF turn[Slot(pos[t])] % 2 = 1 THEN "popCas" ELSE "popReload")
  /\ UNCHANGED <<head, tail, turn, data, pos, left, draining, got, alive>>

\* The consumer does not destroy the element it moved from.
TakeNoDestroy(t) ==
  /\ pc[t] = "popRead"
  /\ got' = [got EXCEPT ![pos[t]] = data[Slot(pos[t])]]
  /\ Goto(t, "popRelease")
  /\ UNCHANGED <<head, tail, turn, data, pos, left, draining, alive>>

\* The turn is not reset after the counters' last lap.
StoreWriteTurnNoReset(t) ==
  /\ pc[t] = "popRelease"
  /\ turn' = [turn EXCEPT ![Slot(pos[t])] = ReadTurn(pos[t]) + 1]
  /\ IF t \in draining
     THEN pos' = [pos EXCEPT ![t] = @ + 1] /\ Goto(t, "popCheck")
     ELSE UNCHANGED pos /\ Goto(t, "idle")
  /\ UNCHANGED <<head, tail, data, left, draining, got, alive>>

\* bulk_push stores the turn of its last element only.
StoreReadTurnLastOnly(t) ==
  /\ pc[t] = "pushPublish"
  /\ IF left[t] > 1
     THEN Goto(t, "pushWait") /\ UNCHANGED turn
     ELSE Goto(t, "idle") /\ turn' = [turn EXCEPT ![Slot(pos[t])] = ReadTurn(pos[t])]
  /\ left' = [left EXCEPT ![t] = @ - 1]
  /\ pos' = [pos EXCEPT ![t] = @ + 1]
  /\ UNCHANGED <<head, tail, data, draining, got, alive>>

\* bulk_pop and try_consume_all drop the tail_ they reloaded, as try_pop does.
RefreshTailDropped(t) ==
  /\ pc[t] = "popReload"
  /\ t \in draining
  /\ IF Word(tail) = Word(pos[t])
     THEN draining' = draining \ {t} /\ Goto(t, "idle")
     ELSE Goto(t, "popCheck") /\ UNCHANGED draining
  /\ UNCHANGED <<head, tail, turn, data, pos, left, got, alive>>

(***************************************************************************)
(* Producers.                                                              *)
(***************************************************************************)

\* emplace and emplace_with (n = 1) and bulk_push: claim n positions.
FetchAddHead(t, n) ==
  /\ pc[t] = "idle"
  /\ Room(n)
  /\ head' = head + n
  /\ pos' = [pos EXCEPT ![t] = head]
  /\ left' = [left EXCEPT ![t] = n]
  /\ Goto(t, "pushWait")
  /\ UNCHANGED <<tail, turn, data, draining, got, alive>>

\* The spin loop ends: the position's slot has reached the position's lap.
AwaitWriteTurn(t) ==
  /\ pc[t] = "pushWait"
  /\ turn[Slot(pos[t])] = WriteTurn(pos[t])
  /\ Goto(t, "pushWrite")
  /\ UNCHANGED <<head, tail, turn, data, pos, left, draining, got, alive>>

Construct(t) ==
  /\ pc[t] = "pushWrite"
  /\ data' = [data EXCEPT ![Slot(pos[t])] = pos[t]]
  /\ Goto(t, "pushPublish")
  /\ UNCHANGED <<head, tail, turn, pos, left, draining, got, alive>>

\* The turn store that lets the consumer in; bulk_push goes on to its next.
StoreReadTurn(t) ==
  /\ pc[t] = "pushPublish"
  /\ turn' = [turn EXCEPT ![Slot(pos[t])] = ReadTurn(pos[t])]
  /\ left' = [left EXCEPT ![t] = @ - 1]
  /\ pos' = [pos EXCEPT ![t] = @ + 1]
  /\ Goto(t, IF left[t] > 1 THEN "pushWait" ELSE "idle")
  /\ UNCHANGED <<head, tail, data, draining, got, alive>>

\* try_emplace
LoadHead(t) ==
  /\ pc[t] = "idle"
  /\ Room(1)
  /\ pos' = [pos EXCEPT ![t] = head]
  /\ Goto(t, "pushCheck")
  /\ UNCHANGED <<head, tail, turn, data, left, draining, got, alive>>

CheckWriteTurn(t) ==
  /\ pc[t] = "pushCheck"
  /\ Goto(t, IF turn[Slot(pos[t])] = WriteTurn(pos[t])
             THEN "pushCas" ELSE "pushReload")
  /\ UNCHANGED <<head, tail, turn, data, pos, left, draining, got, alive>>

\* A failed compare-and-swap loads the value it found into old_head.
CasHead(t) ==
  /\ pc[t] = "pushCas"
  /\ \/ /\ Word(head) = Word(pos[t])
        /\ head < Last
        /\ head' = head + 1
        /\ left' = [left EXCEPT ![t] = 1]
        /\ Goto(t, "pushWrite")
        /\ UNCHANGED pos
     \/ /\ Word(head) # Word(pos[t])
        /\ pos' = [pos EXCEPT ![t] = head]
        /\ Goto(t, "pushCheck")
        /\ UNCHANGED <<head, left>>
  /\ UNCHANGED <<tail, turn, data, draining, got, alive>>

\* now_head is compared and dropped: the loop goes round with old_head as
\* it was.
ReloadHead(t) ==
  /\ pc[t] = "pushReload"
  /\ Goto(t, IF Word(head) = Word(pos[t]) THEN "idle" ELSE "pushCheck")
  /\ UNCHANGED <<head, tail, turn, data, pos, left, draining, got, alive>>

(***************************************************************************)
(* Consumers.                                                              *)
(***************************************************************************)

\* pop and consume
FetchAddTail(t) ==
  /\ pc[t] = "idle"
  /\ tail < Last
  /\ tail' = tail + 1
  /\ pos' = [pos EXCEPT ![t] = tail]
  /\ Goto(t, "popWait")
  /\ UNCHANGED <<head, turn, data, left, draining, got, alive>>

AwaitReadTurn(t) ==
  /\ pc[t] = "popWait"
  /\ turn[Slot(pos[t])] = ReadTurn(pos[t])
  /\ Goto(t, "popRead")
  /\ UNCHANGED <<head, tail, turn, data, pos, left, draining, got, alive>>

\* Move the element out, or run the functor on it, and destroy it.
Take(t) ==
  /\ pc[t] = "popRead"
  /\ got' = [got EXCEPT ![pos[t]] = data[Slot(pos[t])]]
  /\ data' = [data EXCEPT ![Slot(pos[t])] = None]
  /\ Goto(t, "popRelease")
  /\ UNCHANGED <<head, tail, turn, pos, left, draining, alive>>

\* The turn store that lets the next lap's producer in.  bulk_pop and
\* try_consume_all go on at old_tail + 1.
StoreWriteTurn(t) ==
  /\ pc[t] = "popRelease"
  /\ turn' = [turn EXCEPT ![Slot(pos[t])] = TurnAfterRead(pos[t])]
  /\ \/ /\ t \in draining
        /\ pos' = [pos EXCEPT ![t] = @ + 1]
        /\ Goto(t, "popCheck")
     \/ /\ t \notin draining
        /\ Goto(t, "idle")
        /\ UNCHANGED pos
  /\ UNCHANGED <<head, tail, data, left, draining, got, alive>>

\* try_pop, or bulk_pop and try_consume_all when drain holds
LoadTail(t, drain) ==
  /\ pc[t] = "idle"
  /\ pos' = [pos EXCEPT ![t] = tail]
  /\ draining' = IF drain THEN draining \union {t} ELSE draining
  /\ Goto(t, "popCheck")
  /\ UNCHANGED <<head, tail, turn, data, left, got, alive>>

CheckReadTurn(t) ==
  /\ pc[t] = "popCheck"
  /\ Goto(t, IF turn[Slot(pos[t])] = ReadTurn(pos[t])
             THEN "popCas" ELSE "popReload")
  /\ UNCHANGED <<head, tail, turn, data, pos, left, draining, got, alive>>

CasTail(t) ==
  /\ pc[t] = "popCas"
  /\ \/ /\ Word(tail) = Word(pos[t])
        /\ tail' = tail + 1
        /\ Goto(t, "popRead")
        /\ UNCHANGED pos
     \/ /\ Word(tail) # Word(pos[t])
        /\ pos' = [pos EXCEPT ![t] = tail]
        /\ Goto(t, "popCheck")
        /\ UNCHANGED tail
  /\ UNCHANGED <<head, turn, data, left, draining, got, alive>>

\* try_pop: now_tail is compared and dropped, as in try_emplace.
ReloadTail(t) ==
  /\ pc[t] = "popReload"
  /\ t \notin draining
  /\ Goto(t, IF Word(tail) = Word(pos[t]) THEN "idle" ELSE "popCheck")
  /\ UNCHANGED <<head, tail, turn, data, pos, left, draining, got, alive>>

\* bulk_pop and try_consume_all: give up only if tail_ has not moved, and
\* otherwise go on from where it is.
RefreshTail(t) ==
  /\ pc[t] = "popReload"
  /\ t \in draining
  /\ pos' = [pos EXCEPT ![t] = tail]
  /\ \/ /\ Word(tail) = Word(pos[t])
        /\ draining' = draining \ {t}
        /\ Goto(t, "idle")
     \/ /\ Word(tail) # Word(pos[t])
        /\ Goto(t, "popCheck")
        /\ UNCHANGED draining
  /\ UNCHANGED <<head, tail, turn, data, left, got, alive>>

\* The destructor, which runs when no thread is in the queue any more: it
\* destroys the element of each slot whose turn is odd.
Destruct ==
  /\ \A t \in Threads : pc[t] = "idle"
  /\ data' = [s \in Slots |-> IF turn[s] % 2 = 1 THEN None ELSE data[s]]
  /\ alive' = FALSE
  /\ UNCHANGED <<head, tail, turn, pc, pos, left, draining, got>>
-----------------------------------------------------------------------------
\* A call of one of the queue's functions.
Call(t) ==
  \/ \E n \in 1 .. MaxBulk : FetchAddHead(t, n)
  \/ LoadHead(t)
  \/ FetchAddTail(t)
  \/ \E drain \in BOOLEAN : LoadTail(t, drain)

\* A call under way goes on.
Continue(t) ==
  \/ AwaitWriteTurn(t) \/ Construct(t) \/ StoreReadTurn(t)
  \/ CheckWriteTurn(t) \/ CasHead(t) \/ ReloadHead(t)
  \/ AwaitReadTurn(t) \/ Take(t) \/ StoreWriteTurn(t)
  \/ CheckReadTurn(t) \/ CasTail(t) \/ ReloadTail(t) \/ RefreshTail(t)

Next ==
  /\ alive
  /\ (\E t \in Threads : Call(t) \/ Continue(t)) \/ Destruct

Spec == Init /\ [][Next]_vars

\* A thread inside the queue keeps running; nobody has to call it.
FairSpec == Spec /\ \A t \in Threads : WF_vars(alive /\ Continue(t))
-----------------------------------------------------------------------------
\* Every variable has its type.
TypeOK ==
  /\ head \in First .. Last
  /\ tail \in First .. Last
  /\ turn \in [Slots -> Nat]
  /\ data \in [Slots -> Positions \union {None}]
  /\ pc \in [Threads -> {"idle"} \union WriterPc \union ReaderPc
                          \union TryPushPc \union TryPopPc]
  /\ pos \in [Threads -> First .. Last]
  /\ left \in [Threads -> 0 .. MaxBulk]
  /\ draining \in SUBSET Threads
  /\ got \in [Positions -> Positions \union {None}]
  /\ alive \in BOOLEAN

\* The threads that touch the memory of slot s: between seeing its turn (or
\* winning the compare-and-swap) and storing the next one.
Inside(s) ==
  {t \in Threads : /\ pc[t] \in {"pushWrite", "pushPublish", "popRead", "popRelease"}
                   /\ Slot(pos[t]) = s}

\* emplace, try_emplace, pop, try_pop and the bulk functions access a slot's
\* memory without a lock; the turns keep any two threads out of the same slot.
SlotExclusive ==
  \A s \in Slots : \A t, u \in Inside(s) : t = u

\* No element is constructed over a live one, and no consumer moves out of
\* a slot whose element is gone: it finds the element of its own position.
AccessesLive ==
  \A t \in Threads :
    /\ pc[t] = "pushWrite" => data[Slot(pos[t])] = None
    /\ pc[t] = "popRead" => data[Slot(pos[t])] = pos[t]

\* First in, first out, and exactly once: the consumer of position i got the
\* element of position i, no other consumer did, and it is no longer stored.
InOrder ==
  \A i \in Positions :
    /\ got[i] \in {i, None}
    /\ got[i] = i => i < tail /\ i < head /\ \A s \in Slots : data[s] # i

\* Once no call is under way, the odd turns mark exactly the slots that hold
\* an element, so that the destructor destroys each of them once and no
\* other; these are the elements pushed and never popped.
DestructorFrees ==
  (alive /\ \A t \in Threads : pc[t] = "idle") =>
    /\ \A s \in Slots : turn[s] % 2 = 1 <=> data[s] # None
    /\ {data[s] : s \in Slots} \ {None} = tail .. head - 1

\* The queue implements the buffer of numbered places.
Fifo == INSTANCE TicketFifo WITH
          Capacity <- Cap, in <- head, out <- tail,
          stored <- {data[s] : s \in Slots} \ {None}, open <- alive
ImplementsFifo == Fifo!Spec

\* A consumer that waits in pop or consume for a position a producer has
\* claimed, and a producer that waits in emplace, emplace_with or bulk_push
\* for a slot whose previous position a consumer has claimed, get through.
WaitersServed ==
  \A t \in Threads :
    /\ pc[t] = "popWait" /\ pos[t] < head ~> pc[t] # "popWait"
    /\ pc[t] = "pushWait" /\ pos[t] < tail + Cap ~> pc[t] # "pushWait"

\* bulk_pop and try_consume_all return once producers stop: they retry from
\* the tail_ they reloaded.
DrainsReturn == \A t \in Threads : t \in draining ~> t \notin draining

\* try_emplace and try_pop either claim a position or give up.
TryCallsReturn ==
  \A t \in Threads :
    pc[t] \in TryPushPc \union TryPopPc ~> pc[t] \notin TryPushPc \union TryPopPc
-----------------------------------------------------------------------------
(***************************************************************************)
(* Why the queue works: an inductive invariant.  A position is claimed,    *)
(* built, published, taken and freed, in this order, and a slot serves     *)
(* the positions that share it one lap after the other.                    *)
(***************************************************************************)
Writing(t, i) == pc[t] \in WriterPc /\ pos[t] <= i /\ i < pos[t] + left[t]
Reading(t, i) == pc[t] \in ReaderPc /\ pos[t] = i

Built(i) ==
  i < head /\ \A t \in Threads : Writing(t, i) => pc[t] = "pushPublish" /\ pos[t] = i
Published(i) == i < head /\ \A t \in Threads : ~Writing(t, i)
Taken(i) == i < tail /\ \A t \in Threads : Reading(t, i) => pc[t] = "popRelease"
Freed(i) == i < tail /\ \A t \in Threads : ~Reading(t, i)

\* The positions whose turns are told apart: they span less than one wrap.
Window == First .. Last + Cap - 1

\* A position is held by at most one producer and at most one consumer, and
\* only after it was claimed.
Claims ==
  /\ \A t \in Threads : pc[t] \in WriterPc => left[t] > 0 /\ pos[t] + left[t] <= head
  /\ \A t \in Threads : pc[t] \in ReaderPc => pos[t] < tail
  /\ \A t \in Threads : pc[t] \in TryPushPc => pos[t] <= head
  /\ \A t \in Threads : pc[t] \in TryPopPc => pos[t] <= tail
  /\ \A t, u \in Threads, i \in Positions :
       (Writing(t, i) /\ Writing(u, i)) \/ (Reading(t, i) /\ Reading(u, i)) => t = u

\* What a thread has seen of its slot's turn still holds, or the position
\* has been claimed by another thread and its compare-and-swap will fail.
Stages ==
  \A t \in Threads :
    /\ pc[t] \in {"pushWrite", "pushPublish"} => turn[Slot(pos[t])] = WriteTurn(pos[t])
    /\ pc[t] \in {"popRead", "popRelease"} => turn[Slot(pos[t])] = ReadTurn(pos[t])
    /\ pc[t] = "pushCas" => pos[t] < head \/ turn[Slot(pos[t])] = WriteTurn(pos[t])
    /\ pc[t] = "popCas" => pos[t] < tail \/ turn[Slot(pos[t])] = ReadTurn(pos[t])

\* Slot s serves position i: its turn is i's, every earlier position of the
\* slot is done with and no later one has been written or read.
Serves(s, i) ==
  /\ Slot(i) = s
  /\ turn[s] = IF Published(i) THEN ReadTurn(i) ELSE WriteTurn(i)
  /\ data[s] = IF alive /\ Built(i) /\ ~Taken(i) THEN i ELSE None
  /\ ~Freed(i)
  /\ \A j \in Window : Slot(j) = s =>
       /\ j < i => Published(j) /\ Freed(j)
       /\ j > i => ~Published(j) /\ ~Freed(j)

SlotsServe == \A s \in Slots : \E i \in Window : Serves(s, i)

Delivered == \A i \in Positions : got[i] = IF Taken(i) THEN i ELSE None

\* The inductive invariant behind SlotExclusive, AccessesLive and InOrder:
\* the turn protocol of mpmc_queue.hpp hands each slot from the producer to
\* the consumer of one lap and on to the producer of the next.
IInv ==
  /\ TypeOK
  /\ Claims
  /\ Stages
  /\ SlotsServe
  /\ Delivered
  /\ alive \/ \A t \in Threads : pc[t] = "idle"
=============================================================================
