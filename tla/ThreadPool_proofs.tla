--------------------------- MODULE ThreadPool_proofs ---------------------------
(***************************************************************************)
(* Proofs about ThreadPool.  The pool uses the queue as its specification  *)
(* allows, so that the theorems about the queue hold in the pool; with     *)
(* them and the invariant below follow the pool's safety properties, for   *)
(* any number of workers, sessions and operations.                         *)
(***************************************************************************)
EXTENDS ThreadPool, FiniteSetTheorems, TLAPS

QP == INSTANCE MPMCQueue_proofs WITH
        Threads <- Workers \union {Acceptor}, First <- 0, Last <- NSessions, MaxBulk <- 1

(***************************************************************************)
(* The inductive invariant.                                                *)
(***************************************************************************)

\* Where a worker has no suspended session.
IdlePc == {"top", "lock", "predFirst", "predSecond", "predStop", "sleep", "exited"}

\* The queue is there until every worker has exited; nobody drains it.
Alive ==
  /\ wpc \in [Workers -> IdlePc \union {"poll", "popping", "admit", "work", "waitIo", "reap"}]
  /\ acc \in {"accept", "emplace", "notify", "stop", "join", "gone"}
  /\ alive <=> acc # "gone"
  /\ acc = "gone" => \A w \in Workers : wpc[w] = "exited"
  /\ draining = {}

\* The types of the pool's other variables.
PoolTypeOK ==
  /\ seen \in [Workers -> [of : {"head", "tail"}, at : 0 .. NSessions]]
  /\ mutex \in Workers \union {None}
  /\ asleep \in SUBSET Workers
  /\ coros \in [Workers -> SUBSET Sessions]
  /\ requestStop \in BOOLEAN
  /\ tokens \in SUBSET Workers
  /\ st \in [Sessions -> {"none", "submitted", "suspended", "done", "destroyed"}]
  /\ home \in [Sessions -> Workers \union {None}]
  /\ io \in [Sessions -> {"none", "prepared", "inflight", "completed"}]
  /\ ops \in [Sessions -> 0 .. MaxIo]

\* Worker w has taken session pos[w] from the queue and not yet started it.
Carries(w) ==
  \/ wpc[w] = "admit"
  \/ wpc[w] = "popping" /\ pc[w] = "popRelease"

\* A session that has been taken and not started is carried by one worker.
Carried ==
  /\ \A w \in Workers : Carries(w) =>
       pos[w] \in Sessions /\ got[pos[w]] = pos[w] /\ st[pos[w]] = "submitted"
  /\ \A w, v \in Workers : Carries(w) /\ Carries(v) /\ pos[w] = pos[v] => w = v
  /\ \A s \in Sessions : st[s] = "submitted" /\ got[s] # None =>
       \E w \in Workers : Carries(w) /\ pos[w] = s

\* What the state of a session says about its ring and its place in the
\* lists of suspended coroutines.
Ledger ==
  \A s \in Sessions :
    /\ st[s] = "none" <=> s >= head
    /\ st[s] \in {"none", "submitted"} => home[s] = None /\ io[s] = "none" /\ ops[s] = 0
    /\ st[s] \in {"suspended", "done", "destroyed"} => got[s] = s /\ home[s] \in Workers
    /\ st[s] = "suspended" <=> io[s] # "none"
    /\ st[s] = "suspended" => s \in coros[home[s]]
    /\ st[s] = "done" => ops[s] = 0 \/ s \in coros[home[s]]
    /\ \A w \in Workers : s \in coros[w] => home[s] = w /\ st[s] \in {"suspended", "done"}

\* What a worker's list may contain, by the place the worker is at.
Phases ==
  \A w \in Workers :
    /\ wpc[w] \in IdlePc => coros[w] = {}
    /\ wpc[w] # "reap" => \A s \in coros[w] : st[s] = "suspended"
    /\ wpc[w] = "waitIo" => coros[w] # {} /\ \A s \in coros[w] : io[s] # "prepared"

PoolInv == Alive /\ PoolTypeOK /\ Carried /\ Ledger /\ Phases

(***************************************************************************)
(* The queue in the pool.                                                  *)
(***************************************************************************)

\* The queue of ThreadPool is the queue that the theorems are about.
LEMMA SameQueue ==
  /\ Q!Spec <=> QP!Spec
  /\ Q!IInv <=> QP!IInv
  /\ Q!AccessesLive <=> QP!AccessesLive
  /\ Q!InOrder <=> QP!InOrder
<1>1. Q!Spec <=> QP!Spec
  BY DEF
         Q!Init, QP!Init, Q!vars, QP!vars, Q!Next, QP!Next, Q!Spec, QP!Spec,
         Q!Slots, QP!Slots, Q!Positions, QP!Positions, Q!Wrap, QP!Wrap, Q!Word,
         QP!Word, Q!Slot, QP!Slot, Q!Turn, QP!Turn, Q!WriteTurn, QP!WriteTurn,
         Q!ReadTurn, QP!ReadTurn, Q!TurnAfterRead, QP!TurnAfterRead, Q!WriterPc,
         QP!WriterPc, Q!ReaderPc, QP!ReaderPc, Q!TryPushPc, QP!TryPushPc,
         Q!TryPopPc, QP!TryPopPc, Q!FirstIn, QP!FirstIn, Q!Goto, QP!Goto, Q!Room,
         QP!Room, Q!FetchAddHead, QP!FetchAddHead, Q!AwaitWriteTurn,
         QP!AwaitWriteTurn, Q!Construct, QP!Construct, Q!StoreReadTurn,
         QP!StoreReadTurn, Q!LoadHead, QP!LoadHead, Q!CheckWriteTurn,
         QP!CheckWriteTurn, Q!CasHead, QP!CasHead, Q!ReloadHead, QP!ReloadHead,
         Q!FetchAddTail, QP!FetchAddTail, Q!AwaitReadTurn, QP!AwaitReadTurn, Q!Take,
         QP!Take, Q!StoreWriteTurn, QP!StoreWriteTurn, Q!LoadTail, QP!LoadTail,
         Q!CheckReadTurn, QP!CheckReadTurn, Q!CasTail, QP!CasTail, Q!ReloadTail,
         QP!ReloadTail, Q!RefreshTail, QP!RefreshTail, Q!Destruct, QP!Destruct,
         Q!Call, QP!Call, Q!Continue, QP!Continue, Q!Cardinality, QP!Cardinality
<1>2. Q!IInv <=> QP!IInv
  BY DEF
         Q!Init, QP!Init, Q!vars, QP!vars, Q!Next, QP!Next, Q!Spec, QP!Spec,
         Q!Slots, QP!Slots, Q!Positions, QP!Positions, Q!Wrap, QP!Wrap, Q!Word,
         QP!Word, Q!Slot, QP!Slot, Q!Turn, QP!Turn, Q!WriteTurn, QP!WriteTurn,
         Q!ReadTurn, QP!ReadTurn, Q!TurnAfterRead, QP!TurnAfterRead, Q!WriterPc,
         QP!WriterPc, Q!ReaderPc, QP!ReaderPc, Q!TryPushPc, QP!TryPushPc,
         Q!TryPopPc, QP!TryPopPc, Q!FirstIn, QP!FirstIn, Q!Goto, QP!Goto, Q!Room,
         QP!Room, Q!FetchAddHead, QP!FetchAddHead, Q!AwaitWriteTurn,
         QP!AwaitWriteTurn, Q!Construct, QP!Construct, Q!StoreReadTurn,
         QP!StoreReadTurn, Q!LoadHead, QP!LoadHead, Q!CheckWriteTurn,
         QP!CheckWriteTurn, Q!CasHead, QP!CasHead, Q!ReloadHead, QP!ReloadHead,
         Q!FetchAddTail, QP!FetchAddTail, Q!AwaitReadTurn, QP!AwaitReadTurn, Q!Take,
         QP!Take, Q!StoreWriteTurn, QP!StoreWriteTurn, Q!LoadTail, QP!LoadTail,
         Q!CheckReadTurn, QP!CheckReadTurn, Q!CasTail, QP!CasTail, Q!ReloadTail,
         QP!ReloadTail, Q!RefreshTail, QP!RefreshTail, Q!Destruct, QP!Destruct,
         Q!Call, QP!Call, Q!Continue, QP!Continue, Q!Cardinality, QP!Cardinality,
         Q!IInv, QP!IInv, Q!TypeOK, QP!TypeOK, Q!Claims, QP!Claims, Q!Stages,
         QP!Stages, Q!SlotsServe, QP!SlotsServe, Q!Delivered, QP!Delivered,
         Q!Window, QP!Window, Q!Serves, QP!Serves, Q!Freed, QP!Freed, Q!Taken,
         QP!Taken, Q!Published, QP!Published, Q!Built, QP!Built, Q!Reading,
         QP!Reading, Q!Writing, QP!Writing, Q!AccessesLive, QP!AccessesLive,
         Q!InOrder, QP!InOrder
<1>3. (Q!AccessesLive <=> QP!AccessesLive) /\ (Q!InOrder <=> QP!InOrder)
  BY DEF
         Q!Init, QP!Init, Q!vars, QP!vars, Q!Next, QP!Next, Q!Spec, QP!Spec,
         Q!Slots, QP!Slots, Q!Positions, QP!Positions, Q!Wrap, QP!Wrap, Q!Word,
         QP!Word, Q!Slot, QP!Slot, Q!Turn, QP!Turn, Q!WriteTurn, QP!WriteTurn,
         Q!ReadTurn, QP!ReadTurn, Q!TurnAfterRead, QP!TurnAfterRead, Q!WriterPc,
         QP!WriterPc, Q!ReaderPc, QP!ReaderPc, Q!TryPushPc, QP!TryPushPc,
         Q!TryPopPc, QP!TryPopPc, Q!FirstIn, QP!FirstIn, Q!Goto, QP!Goto, Q!Room,
         QP!Room, Q!FetchAddHead, QP!FetchAddHead, Q!AwaitWriteTurn,
         QP!AwaitWriteTurn, Q!Construct, QP!Construct, Q!StoreReadTurn,
         QP!StoreReadTurn, Q!LoadHead, QP!LoadHead, Q!CheckWriteTurn,
         QP!CheckWriteTurn, Q!CasHead, QP!CasHead, Q!ReloadHead, QP!ReloadHead,
         Q!FetchAddTail, QP!FetchAddTail, Q!AwaitReadTurn, QP!AwaitReadTurn, Q!Take,
         QP!Take, Q!StoreWriteTurn, QP!StoreWriteTurn, Q!LoadTail, QP!LoadTail,
         Q!CheckReadTurn, QP!CheckReadTurn, Q!CasTail, QP!CasTail, Q!ReloadTail,
         QP!ReloadTail, Q!RefreshTail, QP!RefreshTail, Q!Destruct, QP!Destruct,
         Q!Call, QP!Call, Q!Continue, QP!Continue, Q!Cardinality, QP!Cardinality,
         Q!IInv, QP!IInv, Q!TypeOK, QP!TypeOK, Q!Claims, QP!Claims, Q!Stages,
         QP!Stages, Q!SlotsServe, QP!SlotsServe, Q!Delivered, QP!Delivered,
         Q!Window, QP!Window, Q!Serves, QP!Serves, Q!Freed, QP!Freed, Q!Taken,
         QP!Taken, Q!Published, QP!Published, Q!Built, QP!Built, Q!Reading,
         QP!Reading, Q!Writing, QP!Writing, Q!AccessesLive, QP!AccessesLive,
         Q!InOrder, QP!InOrder
<1>4. QED
  BY <1>1, <1>2, <1>3

\* The pool satisfies what the queue assumes of its constants.
LEMMA QueueConstants ==
  /\ QP!IsFiniteSet(Workers \union {Acceptor})
  /\ Cap \in Nat /\ Cap > 1
  /\ Laps \in Nat \ {0}
  /\ 0 \in Nat
  /\ NSessions \in Nat /\ 0 <= NSessions
  /\ NSessions - 0 + Cap <= Cap * Laps
  /\ 1 \in Nat \ {0}
  /\ None \notin Int
<1>1. IsFiniteSet(Workers \union {Acceptor})
  BY PoolAssumption, FS_AddElement
<1>2. QP!IsFiniteSet(Workers \union {Acceptor})
  BY <1>1 DEF QP!IsFiniteSet, IsFiniteSet
<1>3. QED
  BY <1>2, PoolAssumption

\* What is proved about the queue, in the pool.
LEMMA QueueTheorems == Q!Spec => [](Q!IInv /\ Q!AccessesLive /\ Q!InOrder)
<1>1. QP!Spec => []QP!IInv
  BY QueueConstants, QP!Invariance, PTL
<1>2. QP!Spec => []QP!AccessesLive
  BY QueueConstants, QP!Access, PTL
<1>3. QP!Spec => []QP!InOrder
  BY QueueConstants, QP!Order, PTL
<1>4. QED
  BY <1>1, <1>2, <1>3, SameQueue, PTL

\* Initially the pool has its queue.
LEMMA InitAlive == Init => Alive
  BY DEF Init, Alive, IdlePc, Q!Init

\* A step of the pool is a step of the queue or leaves it alone, and the
\* queue outlives the work threads.
LEMMA QueueStep ==
  ASSUME Alive, [Next]_vars
  PROVE  Alive' /\ [Q!Next]_(Q!vars)
<1> USE DEF Alive, IdlePc, Move
<1>1. ASSUME NEW w \in Workers, WorkerStep(w)
      PROVE  Alive' /\ [Q!Next]_(Q!vars)
  <2>1. CASE TryPop(w)
    <3>1. Q!LoadTail(w, FALSE) /\ Q!Next
      BY <2>1 DEF TryPop, Q!Next, Q!Call
    <3>2. QED
      BY <2>1, <3>1 DEF TryPop, Q!LoadTail, accVars
  <2>2. CASE Popping(w)
    <3>1. Q!Next
      BY <2>2 DEF Popping, Q!Next, Q!Continue
    <3>2. wpc' \in [Workers -> IdlePc \union {"poll", "popping", "admit", "work", "waitIo", "reap"}]
      BY <2>2 DEF Popping
    <3>3. UNCHANGED <<acc, alive, draining>>
      BY <2>2 DEF Popping, accVars, Q!CheckReadTurn, Q!CasTail, Q!Take, Q!StoreWriteTurn,
                  Q!ReloadTail
    <3>4. acc # "gone"
      BY <2>2 DEF Popping
    <3>5. QED
      BY <3>1, <3>2, <3>3, <3>4
  <2>3. CASE ~(TryPop(w) \/ Popping(w))
    <3>1. UNCHANGED queueVars /\ acc' = acc
      BY <1>1, <2>3
      DEF WorkerStep, CheckToken, Lock, LoadFirst, LoadSecond, LoadRequestStop, Sleep, Admit,
          NothingSuspended, SubmitAndWait, WaitReturns, Reap, Sweep, accVars
    <3>2. /\ wpc' \in [Workers -> IdlePc \union {"poll", "popping", "admit", "work", "waitIo", "reap"}]
          /\ wpc[w] # "exited"
      BY <1>1, <2>3
      DEF WorkerStep, CheckToken, Lock, LoadFirst, LoadSecond, LoadRequestStop, Sleep, Admit,
          NothingSuspended, SubmitAndWait, WaitReturns, Reap, Sweep
    <3>3. QED
      BY <3>1, <3>2 DEF queueVars, Q!vars
  <2>4. QED
    BY <2>1, <2>2, <2>3
<1>2. ASSUME NEW w \in Workers, WakeSpuriously(w)
      PROVE  Alive' /\ [Q!Next]_(Q!vars)
  BY <1>2 DEF WakeSpuriously, accVars, queueVars, Q!vars
<1>3. ASSUME NEW s \in Sessions, Complete(s)
      PROVE  Alive' /\ [Q!Next]_(Q!vars)
  BY <1>3 DEF Complete, accVars, queueVars, Q!vars
<1>4. CASE Accept
  <2>1. Q!FetchAddHead(Acceptor, 1) /\ Q!Next
    BY <1>4 DEF Accept, Q!Next, Q!Call
  <2>2. QED
    BY <1>4, <2>1 DEF Accept, Q!FetchAddHead
<1>5. CASE Emplace
  <2>1. Q!Next
    BY <1>5 DEF Emplace, Q!Next, Q!Continue
  <2>2. QED
    BY <1>5, <2>1 DEF Emplace, Q!AwaitWriteTurn, Q!Construct, Q!StoreReadTurn
<1>6. CASE Join
  <2>1. Q!Destruct /\ Q!Next
    BY <1>6 DEF Join, Q!Next
  <2>2. QED
    BY <1>6, <2>1 DEF Join, Q!Destruct
<1>7. CASE Notify \/ (\E w \in Workers : SetToken(w)) \/ NotifyAll \/ RequestStop
  BY <1>7 DEF Notify, SetToken, NotifyAll, RequestStop, queueVars, Q!vars
<1>8. CASE UNCHANGED vars
  BY <1>8 DEF vars, queueVars, accVars, Q!vars
<1>9. QED
  BY <1>1, <1>2, <1>3, <1>4, <1>5, <1>6, <1>7, <1>8 DEF Next, AcceptorStep

\* The pool uses the queue only as the queue allows.
THEOREM PoolUsesQueue == Spec => UsesQueue
<1>1. Init => Q!Init
  BY DEF Init
<1>2. QED
  BY <1>1, InitAlive, QueueStep, PTL DEF Spec, UsesQueue, Q!Spec

\* What the queue guarantees holds in the pool.
LEMMA QueueInPool == Spec => [](Alive /\ Q!IInv /\ Q!AccessesLive /\ Q!InOrder)
<1>1. Spec => []Alive
  BY InitAlive, QueueStep, PTL DEF Spec
<1>2. QED
  BY <1>1, PoolUsesQueue, QueueTheorems, PTL DEF UsesQueue

(***************************************************************************)
(* The invariant of the pool.                                              *)
(***************************************************************************)

\* The queue's variables, as the pool uses them.
LEMMA QueueTypes ==
  ASSUME Q!IInv
  PROVE  /\ head \in 0 .. NSessions /\ tail \in 0 .. NSessions
         /\ pos \in [Workers \union {Acceptor} -> 0 .. NSessions]
         /\ got \in [Sessions -> Sessions \union {None}]
         /\ DOMAIN pc = Workers \union {Acceptor}
BY DEF Q!IInv, Q!TypeOK, Q!Positions, Sessions

\* A worker that takes an element gets the session of its position, which
\* was submitted and which nobody got before.
LEMMA TakeSession ==
  ASSUME Q!IInv, Q!AccessesLive, Q!InOrder', NEW w \in Workers, Q!Take(w)
  PROVE  /\ pos[w] \in Sessions /\ pos[w] < head
         /\ got[pos[w]] = None
         /\ got' = [got EXCEPT ![pos[w]] = pos[w]]
<1> DEFINE i == pos[w]
<1>1. /\ pc[w] = "popRead" /\ w \in Workers \union {Acceptor}
      /\ UNCHANGED <<head, tail, pos>>
  BY DEF Q!Take
<1>2. i \in Sessions /\ i < tail
  <2>1. i < tail
    BY <1>1 DEF Q!IInv, Q!Claims, Q!ReaderPc
  <2>2. QED
    BY <1>1, <2>1, QueueTypes, PoolAssumption DEF Sessions
<1>3. got' = [got EXCEPT ![i] = i]
  BY <1>1 DEF Q!Take, Q!AccessesLive
<1>4. got[i] = None
  <2>1. Q!Reading(w, i) /\ ~Q!Taken(i)
    BY <1>1 DEF Q!Reading, Q!Taken, Q!ReaderPc
  <2>2. QED
    BY <1>2, <2>1 DEF Q!IInv, Q!Delivered, Q!Positions, Sessions
<1>5. i < head
  <2>1. got'[i] = i
    BY <1>2, <1>3, QueueTypes
  <2>2. QED
    BY <1>1, <1>2, <2>1 DEF Q!InOrder, Q!Positions, Sessions
<1>6. QED
  BY <1>2, <1>3, <1>4, <1>5

\* The initial state satisfies the invariant.
LEMMA InitPool == Init => PoolInv
<1> SUFFICES ASSUME Init PROVE PoolInv
  OBVIOUS
<1> USE PoolAssumption DEF Init, Sessions
<1>1. Alive
  BY InitAlive
<1>2. PoolTypeOK
  <2>1. [of |-> "head", at |-> 0] \in [of : {"head", "tail"}, at : 0 .. NSessions]
    OBVIOUS
  <2>2. seen \in [Workers -> [of : {"head", "tail"}, at : 0 .. NSessions]]
    BY <2>1
  <2>3. /\ coros \in [Workers -> SUBSET Sessions]
        /\ home \in [Sessions -> Workers \union {None}]
        /\ ops \in [Sessions -> 0 .. MaxIo]
    OBVIOUS
  <2>4. QED
    BY <2>2, <2>3 DEF PoolTypeOK
<1>3. Carried
  BY DEF Carried, Carries
<1>4. Ledger
  BY DEF Ledger, Q!Init
<1>5. Phases
  BY DEF Phases
<1>6. QED
  BY <1>1, <1>2, <1>3, <1>4, <1>5 DEF PoolInv

\* The types of the pool's variables are kept.
LEMMA TypeStep ==
  ASSUME PoolInv, Q!IInv, [Next]_vars
  PROVE  PoolTypeOK'
<1> USE DEF PoolInv, PoolTypeOK
<1>1. ASSUME NEW w \in Workers, NEW s \in Sessions, Run(s, w)
      PROVE  /\ st' \in [Sessions -> {"none", "submitted", "suspended", "done", "destroyed"}]
             /\ io' \in [Sessions -> {"none", "prepared", "inflight", "completed"}]
             /\ ops' \in [Sessions -> 0 .. MaxIo]
  BY <1>1, PoolAssumption DEF Run
<1>2. ASSUME NEW w \in Workers, WorkerStep(w) \/ WakeSpuriously(w)
      PROVE  PoolTypeOK'
  <2>1. CASE CheckToken(w) \/ Lock(w) \/ LoadSecond(w) \/ LoadRequestStop(w) \/ Sleep(w)
             \/ WakeSpuriously(w) \/ TryPop(w) \/ Popping(w) \/ NothingSuspended(w) \/ WaitReturns(w)
    BY <2>1 DEF CheckToken, Lock, LoadSecond, LoadRequestStop, Sleep, WakeSpuriously, TryPop,
                Popping, NothingSuspended, WaitReturns, accVars, sessionVars, idleVars
  <2>2. CASE LoadFirst(w)
    <3>1. /\ [of |-> "head", at |-> head] \in [of : {"head", "tail"}, at : 0 .. NSessions]
          /\ [of |-> "tail", at |-> tail] \in [of : {"head", "tail"}, at : 0 .. NSessions]
      BY QueueTypes
    <3>2. QED
      BY <2>2, <3>1 DEF LoadFirst, accVars, sessionVars
  <2>3. CASE Admit(w)
    <3>1. got[pos[w]] \in Sessions
      BY <2>3 DEF Admit, Carried, Carries
    <3>2. QED
      BY <1>1, <2>3, <3>1 DEF Admit, accVars, idleVars
  <2>4. CASE SubmitAndWait(w)
    BY <2>4 DEF SubmitAndWait, accVars, idleVars
  <2>5. ASSUME NEW s \in Sessions, Reap(w, s) PROVE PoolTypeOK'
    BY <1>1, <2>5 DEF Reap, accVars, idleVars
  <2>6. CASE Sweep(w)
    BY <2>6 DEF Sweep, accVars, idleVars
  <2>7. QED
    BY <1>2, <2>1, <2>2, <2>3, <2>4, <2>5, <2>6 DEF WorkerStep
<1>3. ASSUME NEW s \in Sessions, Complete(s)
      PROVE  PoolTypeOK'
  BY <1>3 DEF Complete, accVars, idleVars
<1>4. CASE AcceptorStep \/ Accept \/ RequestStop
  BY <1>4 DEF AcceptorStep, Accept, RequestStop, Emplace, Notify, SetToken, NotifyAll, Join,
              sessionVars, idleVars
<1>5. CASE UNCHANGED vars
  BY <1>5 DEF vars, accVars, idleVars, sessionVars
<1>6. QED
  BY <1>2, <1>3, <1>4, <1>5 DEF Next

\* A step that touches no session, no list and no position of a carrier.
LEMMA QuietStep ==
  ASSUME PoolInv,
         UNCHANGED <<sessionVars, coros, head, got>>,
         \A w \in Workers : /\ Carries(w)' <=> Carries(w)
                            /\ Carries(w) => pos'[w] = pos[w]
  PROVE  Carried' /\ Ledger'
BY DEF PoolInv, Carried, Ledger, sessionVars

\* Looking for work, waiting and stopping.
LEMMA IdleSteps ==
  ASSUME PoolInv, NEW w \in Workers,
         \/ CheckToken(w) \/ Lock(w) \/ LoadFirst(w) \/ LoadSecond(w) \/ LoadRequestStop(w)
         \/ Sleep(w) \/ WakeSpuriously(w) \/ NothingSuspended(w) \/ WaitReturns(w)
  PROVE  Carried' /\ Ledger' /\ Phases'
<1> USE DEF PoolInv, Alive, IdlePc, Move
<1>1. /\ UNCHANGED <<queueVars, coros, sessionVars>>
      /\ \/ UNCHANGED wpc
         \/ \E label \in IdlePc \union {"poll", "reap"} :
              /\ wpc' = [wpc EXCEPT ![w] = label]
              /\ wpc[w] \notin {"admit", "popping"}
              /\ label \in IdlePc => wpc[w] \in IdlePc \/ coros[w] = {}
              /\ wpc[w] # "reap"
  BY DEF CheckToken, Lock, LoadFirst, LoadSecond, LoadRequestStop, Sleep, WakeSpuriously,
         NothingSuspended, WaitReturns
<1>2. Carried' /\ Ledger'
  BY <1>1, QuietStep DEF queueVars, Carries
<1>3. Phases'
  BY <1>1 DEF Phases, sessionVars
<1>4. QED
  BY <1>2, <1>3

\* try_pop begins.
LEMMA TryPopStep ==
  ASSUME PoolInv, Q!IInv, NEW w \in Workers, TryPop(w)
  PROVE  Carried' /\ Ledger' /\ Phases'
<1> USE DEF PoolInv, Alive, IdlePc, Move
<1>1. /\ UNCHANGED <<coros, sessionVars, head, got>>
      /\ wpc' = [wpc EXCEPT ![w] = "popping"] /\ wpc[w] = "poll"
      /\ pc' = [pc EXCEPT ![w] = "popCheck"]
      /\ pos' = [pos EXCEPT ![w] = tail]
  BY DEF TryPop, Q!LoadTail, Q!Goto
<1>2. Carried' /\ Ledger'
  BY <1>1, QuietStep, QueueTypes DEF Carries
<1>3. Phases'
  BY <1>1 DEF Phases, sessionVars
<1>4. QED
  BY <1>2, <1>3

\* try_pop goes on.
LEMMA PoppingStep ==
  ASSUME PoolInv, Q!IInv, Q!AccessesLive, Q!InOrder', NEW w \in Workers, Popping(w)
  PROVE  Carried' /\ Ledger' /\ Phases'
<1> USE DEF PoolInv, Alive, IdlePc, Move
<1>1. /\ UNCHANGED <<coros, sessionVars, head>> /\ wpc[w] = "popping"
      /\ wpc' \in {wpc, [wpc EXCEPT ![w] = "admit"], [wpc EXCEPT ![w] = "work"],
                   [wpc EXCEPT ![w] = "popping"]}
  BY DEF Popping, Q!CheckReadTurn, Q!CasTail, Q!Take, Q!StoreWriteTurn, Q!ReloadTail
<1>2. Phases'
  BY <1>1 DEF Phases, sessionVars
<1>3. CASE Q!CheckReadTurn(w) \/ Q!CasTail(w) \/ Q!ReloadTail(w)
  <2>1. /\ UNCHANGED got
        /\ \E label \in {"popCas", "popReload", "popRead", "popCheck", "idle"} :
             pc' = [pc EXCEPT ![w] = label]
        /\ pc[w] # "popRelease"
        /\ \A v \in Workers : v # w => pos'[v] = pos[v]
    BY <1>3, QueueTypes DEF Q!CheckReadTurn, Q!CasTail, Q!ReloadTail, Q!Goto
  <2>2. wpc'[w] # "admit"
    BY <1>1, <1>3 DEF Popping, Q!CheckReadTurn, Q!CasTail, Q!ReloadTail, Q!StoreWriteTurn
  <2>3. QED
    BY <1>1, <1>2, <2>1, <2>2, QuietStep, QueueTypes DEF Carries
<1>4. CASE Q!StoreWriteTurn(w)
  <2>1. /\ UNCHANGED <<got, pos>>
        /\ pc' = [pc EXCEPT ![w] = "idle"]
        /\ pc[w] = "popRelease"
    BY <1>4 DEF Q!StoreWriteTurn, Q!Goto
  <2>2. wpc' = [wpc EXCEPT ![w] = "admit"]
    BY <2>1 DEF Popping, Q!CheckReadTurn, Q!CasTail, Q!ReloadTail, Q!Take
  <2>3. QED
    BY <1>1, <1>2, <2>1, <2>2, QuietStep, QueueTypes DEF Carries
<1>5. CASE Q!Take(w)
  <2>1. /\ UNCHANGED pos
        /\ pc' = [pc EXCEPT ![w] = "popRelease"]
        /\ pc[w] = "popRead"
    BY <1>5 DEF Q!Take, Q!Goto
  <2>2. UNCHANGED wpc
    BY <2>1, <1>1 DEF Popping, Q!StoreWriteTurn, Q!ReloadTail
  <2>3. /\ pos[w] \in Sessions /\ pos[w] < head
        /\ got[pos[w]] = None
        /\ got' = [got EXCEPT ![pos[w]] = pos[w]]
    BY <1>5, TakeSession
  <2>4. st[pos[w]] = "submitted"
    BY <2>3, PoolAssumption, QueueTypes DEF Ledger, PoolTypeOK, Sessions
  <2>5. Ledger'
    BY <1>1, <2>3, QueueTypes DEF Ledger, sessionVars
  <2>6. \A v \in Workers : Carries(v)' <=> Carries(v) \/ v = w
    BY <1>1, <2>1, <2>2, QueueTypes DEF Carries
  <2>7. ~Carries(w)
    BY <1>1, <2>1 DEF Carries
  <2>8. \A v \in Workers : Carries(v) => pos[v] # pos[w]
    BY <2>3, PoolAssumption DEF Carried, Sessions
  <2>9. Carried'
    BY <1>1, <2>1, <2>3, <2>4, <2>6, <2>8, QueueTypes DEF Carried, sessionVars
  <2>10. QED
    BY <1>2, <2>5, <2>9
<1>6. QED
  BY <1>3, <1>4, <1>5 DEF Popping

\* A session is started.
LEMMA AdmitStep ==
  ASSUME PoolInv, NEW w \in Workers, Admit(w)
  PROVE  Carried' /\ Ledger' /\ Phases'
<1> USE DEF PoolInv, Alive, IdlePc, Move
<1> DEFINE s == got[pos[w]]
<1>1. /\ Carries(w) /\ s = pos[w] /\ s \in Sessions /\ got[s] = s /\ st[s] = "submitted"
      /\ home[s] = None /\ io[s] = "none" /\ ops[s] = 0
  BY DEF Admit, Carries, Carried, Ledger, Sessions
<1>2. /\ UNCHANGED <<head, got, pos, pc>>
      /\ wpc[w] = "admit" /\ wpc' = [wpc EXCEPT ![w] = "poll"]
      /\ home' = [home EXCEPT ![s] = w]
      /\ Run(s, w)
      /\ coros' = IF st'[s] = "done" THEN coros ELSE [coros EXCEPT ![w] = @ \union {s}]
  BY DEF Admit, queueVars
<1> HIDE DEF s
<1>3. \A v \in Workers : Carries(v)' <=> Carries(v) /\ v # w
  BY <1>2 DEF Carries
<1>4. \A v \in Workers : s \notin coros[v]
  BY <1>1 DEF Ledger
<1>5. Carried'
  <2>1. \A r \in Sessions : r # s => st'[r] = st[r]
    BY <1>2 DEF Run, PoolTypeOK
  <2>2. st'[s] # "submitted"
    BY <1>1, <1>2 DEF Run, PoolTypeOK
  <2>3. QED
    BY <1>1, <1>2, <1>3, <2>1, <2>2 DEF Carried
<1>6. CASE st' = [st EXCEPT ![s] = "done"] /\ io' = [io EXCEPT ![s] = "none"] /\ UNCHANGED ops
  BY <1>1, <1>2, <1>4, <1>5, <1>6 DEF Ledger, Phases, PoolTypeOK
<1>7. CASE /\ st' = [st EXCEPT ![s] = "suspended"]
           /\ io' = [io EXCEPT ![s] = "prepared"]
           /\ ops' = [ops EXCEPT ![s] = @ + 1]
  <2>1. Ledger'
    BY <1>1, <1>2, <1>4, <1>7 DEF Ledger, PoolTypeOK
  <2>2. Phases'
    BY <1>1, <1>2, <1>4, <1>7 DEF Phases, PoolTypeOK
  <2>3. QED
    BY <1>5, <2>1, <2>2
<1>8. QED
  BY <1>2, <1>6, <1>7 DEF Run

\* Nothing that takes sessions from the queue happens.
LEMMA CarriersStay ==
  ASSUME PoolInv, UNCHANGED queueVars,
         \A w \in Workers : wpc'[w] # wpc[w] =>
           {wpc[w], wpc'[w]} \intersect {"admit", "popping"} = {},
         \A s \in Sessions : st'[s] = "submitted" <=> st[s] = "submitted"
  PROVE  Carried'
<1>1. \A w \in Workers : Carries(w)' <=> Carries(w)
  BY DEF Carries, queueVars
<1>2. QED
  BY <1>1 DEF PoolInv, Carried, queueVars

\* A worker hands its operations to the kernel.
LEMMA SubmitStep ==
  ASSUME PoolInv, NEW w \in Workers, SubmitAndWait(w)
  PROVE  Carried' /\ Ledger' /\ Phases'
<1> USE DEF PoolInv, Alive, IdlePc, Move
<1>1. /\ UNCHANGED <<queueVars, st, coros, home, ops>>
      /\ wpc[w] = "work" /\ wpc' = [wpc EXCEPT ![w] = "waitIo"] /\ coros[w] # {}
      /\ io' = [s \in Sessions |->
                  IF home[s] = w /\ io[s] = "prepared" THEN "inflight" ELSE io[s]]
  BY DEF SubmitAndWait
<1>2. Carried'
  BY <1>1, CarriersStay
<1>3. Ledger'
  BY <1>1 DEF Ledger, PoolTypeOK, queueVars
<1>4. Phases'
  BY <1>1 DEF Phases, Ledger, PoolTypeOK
<1>5. QED
  BY <1>2, <1>3, <1>4

\* A completion resumes its session.
LEMMA ReapStep ==
  ASSUME PoolInv, NEW w \in Workers, NEW s \in Sessions, Reap(w, s)
  PROVE  Carried' /\ Ledger' /\ Phases'
<1> USE DEF PoolInv, Alive, IdlePc
<1>1. /\ UNCHANGED <<queueVars, wpc, coros, home>>
      /\ wpc[w] = "reap" /\ home[s] = w /\ io[s] = "completed" /\ Run(s, w)
  BY DEF Reap, Completed
<1>2. st[s] = "suspended" /\ s \in coros[w] /\ \A v \in Workers : s \in coros[v] => v = w
  BY <1>1 DEF Ledger
<1>3. CASE st' = [st EXCEPT ![s] = "done"] /\ io' = [io EXCEPT ![s] = "none"] /\ UNCHANGED ops
  <2>1. Carried'
    BY <1>1, <1>2, <1>3, CarriersStay DEF PoolTypeOK
  <2>2. Ledger'
    BY <1>1, <1>2, <1>3 DEF Ledger, PoolTypeOK, queueVars
  <2>3. Phases'
    BY <1>1, <1>2, <1>3 DEF Phases, PoolTypeOK
  <2>4. QED
    BY <2>1, <2>2, <2>3
<1>4. CASE /\ st' = [st EXCEPT ![s] = "suspended"]
           /\ io' = [io EXCEPT ![s] = "prepared"]
           /\ ops' = [ops EXCEPT ![s] = @ + 1]
  <2>1. Carried'
    BY <1>1, <1>2, <1>4, CarriersStay DEF PoolTypeOK
  <2>2. Ledger'
    BY <1>1, <1>2, <1>4 DEF Ledger, PoolTypeOK, queueVars
  <2>3. Phases'
    BY <1>1, <1>2, <1>4 DEF Phases, PoolTypeOK
  <2>4. QED
    BY <2>1, <2>2, <2>3
<1>5. QED
  BY <1>1, <1>3, <1>4 DEF Run

\* Finished coroutines are destroyed.
LEMMA SweepStep ==
  ASSUME PoolInv, NEW w \in Workers, Sweep(w)
  PROVE  Carried' /\ Ledger' /\ Phases'
<1> USE DEF PoolInv, Alive, IdlePc, Move
<1> DEFINE dead == {s \in coros[w] : st[s] = "done"}
<1>1. /\ UNCHANGED <<queueVars, home, io, ops>>
      /\ wpc[w] = "reap" /\ wpc' = [wpc EXCEPT ![w] = "poll"]
      /\ st' = [s \in Sessions |-> IF s \in dead THEN "destroyed" ELSE st[s]]
      /\ coros' = [coros EXCEPT ![w] = @ \ dead]
  BY DEF Sweep
<1>2. Carried'
  BY <1>1, CarriersStay
<1>3. Ledger'
  BY <1>1 DEF Ledger, PoolTypeOK, queueVars
<1>4. Phases'
  BY <1>1 DEF Phases, Ledger, PoolTypeOK
<1>5. QED
  BY <1>2, <1>3, <1>4

\* The kernel completes an operation.
LEMMA CompleteStep ==
  ASSUME PoolInv, NEW s \in Sessions, Complete(s)
  PROVE  Carried' /\ Ledger' /\ Phases'
<1> USE DEF PoolInv, Alive, IdlePc
<1>1. /\ UNCHANGED <<queueVars, wpc, coros, st, home, ops>>
      /\ io[s] = "inflight" /\ io' = [io EXCEPT ![s] = "completed"]
  BY DEF Complete
<1>2. Carried'
  BY <1>1, CarriersStay
<1>3. Ledger'
  BY <1>1 DEF Ledger, PoolTypeOK, queueVars
<1>4. Phases'
  BY <1>1 DEF Phases, PoolTypeOK
<1>5. QED
  BY <1>2, <1>3, <1>4

\* A session is submitted: the queue position it gets is its own number.
LEMMA AcceptStep ==
  ASSUME PoolInv, Q!IInv, Q!IInv', Q!InOrder, Accept
  PROVE  Carried' /\ Ledger' /\ Phases'
<1> USE DEF PoolInv, Alive, IdlePc
<1>1. /\ UNCHANGED <<wpc, coros, home, io, ops, got>>
      /\ head' = head + 1
      /\ st' = [st EXCEPT ![head] = "submitted"]
      /\ \A w \in Workers : pos'[w] = pos[w] /\ pc'[w] = pc[w]
  BY QueueTypes, PoolAssumption DEF Accept, Q!FetchAddHead, Q!Goto
<1>2. head \in Sessions /\ st[head] = "none"
  <2>1. head \in 0 .. NSessions /\ head' \in 0 .. NSessions
    BY DEF Q!IInv, Q!TypeOK
  <2>2. head \in Sessions
    BY <1>1, <2>1, PoolAssumption DEF Sessions
  <2>3. QED
    BY <2>1, <2>2 DEF Ledger
<1>3. \A w \in Workers : Carries(w)' <=> Carries(w)
  BY <1>1 DEF Carries
<1>4. got[head] = None
  <2>1. head \in Q!Positions /\ head \in Int
    BY <1>2 DEF Q!Positions, Sessions
  <2>2. got[head] \in {head, None} /\ (got[head] = head => head < head)
    BY <2>1 DEF Q!InOrder
  <2>3. QED
    BY <2>1, <2>2
<1>5. Carried'
  <2>1. /\ \A s \in Sessions : s # head => st'[s] = st[s]
        /\ \A s \in Sessions : got'[s] = got[s]
        /\ st'[head] = "submitted"
    BY <1>1, <1>2 DEF PoolTypeOK
  <2>2. \A w \in Workers : Carries(w) =>
          pos[w] # head /\ pos[w] \in Sessions /\ got[pos[w]] = pos[w]
          /\ st[pos[w]] = "submitted"
    BY <1>2, <1>4 DEF Carried
  <2>3. \A w \in Workers : Carries(w)' =>
          pos'[w] \in Sessions /\ got'[pos'[w]] = pos'[w] /\ st'[pos'[w]] = "submitted"
    BY <1>1, <1>3, <2>1, <2>2
  <2>4. \A w, v \in Workers : Carries(w)' /\ Carries(v)' /\ pos'[w] = pos'[v] => w = v
    BY <1>1, <1>3 DEF Carried
  <2>5. \A s \in Sessions : st'[s] = "submitted" /\ got'[s] # None =>
          \E w \in Workers : Carries(w)' /\ pos'[w] = s
    BY <1>1, <1>3, <1>4, <2>1 DEF Carried
  <2>6. QED
    BY <2>3, <2>4, <2>5 DEF Carried
<1>6. Ledger'
  BY <1>1, <1>2, QueueTypes DEF Ledger, PoolTypeOK, Sessions
<1>7. Phases'
  BY <1>1, <1>2 DEF Phases, PoolTypeOK, Ledger
<1>8. QED
  BY <1>5, <1>6, <1>7

\* The acceptor's other steps touch no session.
LEMMA AcceptorSteps ==
  ASSUME PoolInv, Q!IInv, AcceptorStep \/ RequestStop
  PROVE  Carried' /\ Ledger' /\ Phases'
<1> USE DEF PoolInv, Alive, IdlePc
<1>1. /\ UNCHANGED <<wpc, coros, sessionVars, head, got>>
      /\ \A w \in Workers : pos'[w] = pos[w] /\ pc'[w] = pc[w]
  <2>1. CASE Emplace
    BY <2>1, QueueTypes, PoolAssumption
    DEF Emplace, Q!AwaitWriteTurn, Q!Construct, Q!StoreReadTurn, Q!Goto
  <2>2. CASE Join
    BY <2>2 DEF Join, Q!Destruct
  <2>3. CASE Notify \/ (\E w \in Workers : SetToken(w)) \/ NotifyAll \/ RequestStop
    BY <2>3 DEF Notify, SetToken, NotifyAll, RequestStop, queueVars
  <2>4. QED
    BY <2>1, <2>2, <2>3 DEF AcceptorStep
<1>2. Carried' /\ Ledger'
  BY <1>1, QuietStep DEF Carries
<1>3. Phases'
  BY <1>1 DEF Phases, sessionVars
<1>4. QED
  BY <1>2, <1>3


\* Every step of the pool preserves the invariant.
LEMMA PoolStep ==
  ASSUME PoolInv, Q!IInv, Q!IInv', Q!AccessesLive, Q!InOrder, Q!InOrder', [Next]_vars
  PROVE  PoolInv'
<1>1. Alive'
  BY QueueStep DEF PoolInv
<1>2. PoolTypeOK'
  BY TypeStep
<1>3. Carried' /\ Ledger' /\ Phases'
  <2>1. ASSUME NEW w \in Workers, WorkerStep(w)
        PROVE  Carried' /\ Ledger' /\ Phases'
    <3>1. CASE \/ CheckToken(w) \/ Lock(w) \/ LoadFirst(w) \/ LoadSecond(w)
               \/ LoadRequestStop(w) \/ Sleep(w) \/ NothingSuspended(w) \/ WaitReturns(w)
      BY <3>1, IdleSteps
    <3>2. CASE TryPop(w)
      BY <3>2, TryPopStep
    <3>3. CASE Popping(w)
      BY <3>3, PoppingStep
    <3>4. CASE Admit(w)
      BY <3>4, AdmitStep
    <3>5. CASE SubmitAndWait(w)
      BY <3>5, SubmitStep
    <3>6. ASSUME NEW s \in Sessions, Reap(w, s) PROVE Carried' /\ Ledger' /\ Phases'
      BY <3>6, ReapStep
    <3>7. CASE Sweep(w)
      BY <3>7, SweepStep
    <3>8. QED
      BY <2>1, <3>1, <3>2, <3>3, <3>4, <3>5, <3>6, <3>7 DEF WorkerStep
  <2>2. ASSUME NEW w \in Workers, WakeSpuriously(w)
        PROVE  Carried' /\ Ledger' /\ Phases'
    BY <2>2, IdleSteps
  <2>3. ASSUME NEW s \in Sessions, Complete(s)
        PROVE  Carried' /\ Ledger' /\ Phases'
    BY <2>3, CompleteStep
  <2>4. CASE AcceptorStep \/ RequestStop
    BY <2>4, AcceptorSteps
  <2>5. CASE Accept
    BY <2>5, AcceptStep
  <2>6. CASE UNCHANGED vars
    <3>1. UNCHANGED <<sessionVars, coros, head, got, wpc, pc, pos>>
      BY <2>6 DEF vars, queueVars
    <3>2. Carried' /\ Ledger'
      BY <3>1, QuietStep DEF Carries
    <3>3. Phases'
      BY <3>1 DEF Phases, PoolInv, sessionVars
    <3>4. QED
      BY <3>2, <3>3
  <2>7. QED
    BY <2>1, <2>2, <2>3, <2>4, <2>5, <2>6 DEF Next
<1>4. QED
  BY <1>1, <1>2, <1>3 DEF PoolInv

\* The ledger of sessions agrees with the queue and with the workers' lists in
\* every reachable state of the pool.
THEOREM PoolInvariance == Spec => [](PoolInv /\ Q!IInv)
<1>1. Init => PoolInv
  BY InitPool
<1>2. /\ PoolInv /\ Q!IInv /\ Q!IInv' /\ Q!AccessesLive /\ Q!InOrder /\ Q!InOrder'
      /\ [Next]_vars
      => PoolInv'
  BY PoolStep
<1>3. QED
  BY <1>1, <1>2, QueueInPool, PTL DEF Spec

(***************************************************************************)
(* What follows from the invariant.                                        *)
(***************************************************************************)

\* Every variable of the pool and of its queue keeps its type.
THEOREM PoolTypes == Spec => []TypeOK
<1>1. PoolInv /\ Q!IInv => TypeOK
  BY DEF PoolInv, PoolTypeOK, Alive, IdlePc, Q!IInv, TypeOK
<1>2. QED
  BY <1>1, PoolInvariance, PTL

\* io_service is not thread-safe: the I/O of a session is on the ring of the
\* worker that keeps the session, and no other worker has it in its list.
THEOREM Private == Spec => []RingsPrivate
<1>1. PoolInv /\ Q!IInv => RingsPrivate
  <2>1. SUFFICES ASSUME PoolInv, NEW s \in Sessions, io[s] # "none"
                 PROVE  home[s] # None /\ \A w \in Workers : s \in coros[w] <=> w = home[s]
    BY DEF RingsPrivate
  <2>2. st[s] = "suspended" /\ home[s] \in Workers /\ s \in coros[home[s]]
    BY <2>1 DEF PoolInv, Ledger
  <2>3. QED
    BY <2>1, <2>2, PoolAssumption DEF PoolInv, Ledger
<1>2. QED
  BY <1>1, PoolInvariance, PTL

\* However the workers race for the queue, a session is started by the one
\* that took it, and only once.
THEOREM Once == Spec => []StartedOnce
<1>1. PoolInv /\ Q!IInv => StartedOnce
  BY DEF PoolInv, Ledger, Carried, Carries, StartedOnce
<1>2. QED
  BY <1>1, PoolInvariance, PTL

\* The kernel never completes an operation of a coroutine that was destroyed,
\* and a worker never waits for completions that cannot come.
THEOREM Live == Spec => []CompletionsLive
<1>1. PoolInv /\ Q!IInv => CompletionsLive
  <2>1. SUFFICES ASSUME PoolInv PROVE CompletionsLive
    OBVIOUS
  <2>2. \A s \in Sessions : st[s] = "destroyed" => io[s] = "none"
    BY <2>1 DEF PoolInv, Ledger
  <2>3. ASSUME NEW w \in Workers, wpc[w] = "waitIo"
        PROVE  \E s \in coros[w] : io[s] \in {"inflight", "completed"}
    <3>1. PICK s \in coros[w] : st[s] = "suspended" /\ io[s] # "prepared"
      BY <2>1, <2>3 DEF PoolInv, Phases
    <3>2. s \in Sessions
      BY <2>1 DEF PoolInv, PoolTypeOK
    <3>3. io[s] \in {"inflight", "completed"}
      BY <2>1, <3>1, <3>2 DEF PoolInv, PoolTypeOK, Ledger
    <3>4. QED
      BY <3>3
  <2>4. QED
    BY <2>2, <2>3 DEF CompletionsLive
<1>2. QED
  BY <1>1, PoolInvariance, PTL

\* A worker that sleeps or exits leaves no session suspended; of those that
\* were submitted to a destroyed pool, the ones never taken are lost.
THEOREM Left == Spec => []LeftBehind
<1>1. PoolInv /\ Q!IInv => LeftBehind
  <2>1. SUFFICES ASSUME PoolInv, Q!IInv PROVE LeftBehind
    OBVIOUS
  <2>2. ASSUME NEW w \in Workers, wpc[w] \in IdlePc
        PROVE  coros[w] = {} /\ \A s \in Sessions : home[s] = w => io[s] = "none"
    BY <2>1, <2>2 DEF PoolInv, Phases, Ledger
  <2>3. ASSUME acc = "gone", NEW s \in 0 .. head - 1
        PROVE  \/ st[s] = "destroyed"
               \/ st[s] = "done" /\ ops[s] = 0
               \/ st[s] = "submitted" /\ got[s] = None /\ s >= tail
    <3>1. s \in Sessions /\ s < head /\ s \in Int /\ tail \in Int
      BY <2>1, QueueTypes, PoolAssumption DEF Sessions
    <3>2. \A w \in Workers : wpc[w] = "exited" /\ coros[w] = {} /\ ~Carries(w)
      BY <2>1, <2>3 DEF PoolInv, Alive, Phases, IdlePc, Carries
    <3>3. CASE st[s] = "submitted"
      <4>1. got[s] = None
        BY <2>1, <3>1, <3>2, <3>3 DEF PoolInv, Carried
      <4>2. ~Q!Taken(s)
        BY <2>1, <3>1, <4>1, PoolAssumption DEF Q!IInv, Q!Delivered, Q!Positions, Sessions
      <4>3. \A t \in Workers \union {Acceptor} : pc[t] = "idle"
        BY <2>1, <2>3 DEF PoolInv, Alive, Q!IInv
      <4>4. ~(s < tail)
        BY <4>2, <4>3 DEF Q!Taken, Q!Reading, Q!ReaderPc
      <4>5. QED
        BY <3>1, <3>3, <4>1, <4>4
    <3>4. CASE st[s] # "submitted"
      <4>1. st[s] \in {"suspended", "done", "destroyed"} /\ home[s] \in Workers
        BY <2>1, <3>1, <3>4, QueueTypes DEF PoolInv, PoolTypeOK, Ledger
      <4>2. s \notin coros[home[s]]
        BY <3>2, <4>1
      <4>3. QED
        BY <2>1, <3>1, <4>1, <4>2 DEF PoolInv, Ledger
    <3>5. QED
      BY <3>3, <3>4
  <2>4. QED
    BY <2>2, <2>3 DEF LeftBehind, IdlePc
<1>2. QED
  BY <1>1, PoolInvariance, PTL
==============================================================================
