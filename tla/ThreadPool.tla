------------------------------ MODULE ThreadPool ------------------------------
(***************************************************************************)
(* include/thread_pool.hpp with its callers: the acceptor of server.hpp    *)
(* submits sessions through the lock-free queue; workers sleep on a        *)
(* condition variable, take sessions with try_pop, run each coroutine to   *)
(* its next suspension, and wait for completions on a ring of their own.   *)
(*                                                                         *)
(* Composition: Q is the queue, whose atomic steps the threads here take   *)
(* one by one.  The acceptor submits in order, so that the session and the *)
(* queue position it occupies have the same number.                        *)
(***************************************************************************)
EXTENDS Integers, FiniteSets

CONSTANTS Workers,   \* the work threads; each has its own io_service
          Acceptor,  \* the thread that submits sessions and destroys the pool
          Cap, Laps, \* as in MPMCQueue
          NSessions, \* bound: sessions accepted
          MaxIo,     \* bound: I/O operations of one session
          None

ASSUME PoolAssumption ==
  /\ IsFiniteSet(Workers) /\ Workers # {}
  /\ Acceptor \notin Workers
  /\ None \notin Int \union Workers \union {Acceptor}
  /\ Cap \in Nat /\ Cap > 1
  /\ Laps \in Nat \ {0}
  /\ NSessions \in Nat
  /\ NSessions + Cap <= Cap * Laps
  /\ MaxIo \in Nat

VARIABLES
  head, tail, turn, data, pc, pos, left, draining, got, alive,  \* the queue
  wpc,         \* where each worker is in start_work_thread
  seen,        \* the counter its predicate loaded first
  mutex,       \* owner of idle_mutex_
  asleep,      \* workers blocked in avaliable_cv_
  coros,       \* thread_local_coros_: the suspended sessions of each worker
  acc,         \* where the acceptor is
  requestStop, \* request_stop_
  tokens,      \* workers whose stop token is set
  st,          \* the coroutine of each session
  home,        \* conn->ios_: the worker whose ring the session uses
  io,          \* the session's I/O operation
  ops          \* I/O operations it has started

queueVars == <<head, tail, turn, data, pc, pos, left, draining, got, alive>>
idleVars == <<seen, mutex, asleep>>
accVars == <<acc, requestStop, tokens>>
sessionVars == <<st, home, io, ops>>
vars == <<queueVars, wpc, idleVars, coros, accVars, sessionVars>>

Q == INSTANCE MPMCQueue WITH
       Threads <- Workers \union {Acceptor}, First <- 0, Last <- NSessions, MaxBulk <- 1

Sessions == 0 .. NSessions - 1

Init ==
  /\ Q!Init
  /\ wpc = [w \in Workers |-> "top"]
  /\ seen = [w \in Workers |-> [of |-> "head", at |-> 0]]
  /\ mutex = None
  /\ asleep = {}
  /\ coros = [w \in Workers |-> {}]
  /\ acc = "accept"
  /\ requestStop = FALSE
  /\ tokens = {}
  /\ st = [s \in Sessions |-> "none"]
  /\ home = [s \in Sessions |-> None]
  /\ io = [s \in Sessions |-> "none"]
  /\ ops = [s \in Sessions |-> 0]

Move(w, label) == wpc' = [wpc EXCEPT ![w] = label]

(***************************************************************************)
(* Mutants: plausible bugs, each of which breaks one of the properties     *)
(* below.  No specification uses them.                                     *)
(***************************************************************************)

\* The predicate of the condition variable waits for more than one session.
EmptyOffByOne(w) ==
  LET other == IF seen[w].of = "head" THEN tail ELSE head
  IN  seen[w].at - other \in -1 .. 1

\* The predicate forgets request_stop_.
LoadRequestStopIgnored(w) ==
  /\ wpc[w] = "predStop"
  /\ wpc' = [wpc EXCEPT ![w] = "sleep"]
  /\ UNCHANGED <<queueVars, idleVars, coros, accVars, sessionVars>>

\* get_io_service without a thread always returns the first ring.
AdmitFirstRing(w) ==
  LET s == got[pos[w]] IN
  /\ wpc[w] = "admit"
  /\ home' = [home EXCEPT ![s] = CHOOSE v \in Workers : TRUE]
  /\ st' = [st EXCEPT ![s] = "suspended"]
  /\ io' = [io EXCEPT ![s] = "prepared"]
  /\ ops' = [ops EXCEPT ![s] = @ + 1]
  /\ coros' = [coros EXCEPT ![w] = @ \union {s}]
  /\ wpc' = [wpc EXCEPT ![w] = "poll"]
  /\ UNCHANGED <<queueVars, idleVars, accVars>>

\* The sweep destroys every coroutine of the list.
SweepAll(w) ==
  /\ wpc[w] = "reap"
  /\ \A s \in Sessions : ~(home[s] = w /\ io[s] = "completed")
  /\ st' = [s \in Sessions |-> IF s \in coros[w] THEN "destroyed" ELSE st[s]]
  /\ coros' = [coros EXCEPT ![w] = {}]
  /\ wpc' = [wpc EXCEPT ![w] = "poll"]
  /\ UNCHANGED <<queueVars, idleVars, accVars, home, io, ops>>

\* The sweep erases a finished coroutine without destroying it.
SweepErases(w) ==
  /\ wpc[w] = "reap"
  /\ \A s \in Sessions : ~(home[s] = w /\ io[s] = "completed")
  /\ coros' = [coros EXCEPT ![w] = {s \in @ : st[s] # "done"}]
  /\ wpc' = [wpc EXCEPT ![w] = "poll"]
  /\ UNCHANGED <<queueVars, idleVars, accVars, sessionVars>>

\* A submission claims two positions.
AcceptTwice ==
  /\ acc = "accept"
  /\ Q!FetchAddHead(Acceptor, 2)
  /\ st' = [st EXCEPT ![head] = "submitted"]
  /\ acc' = "emplace"
  /\ UNCHANGED <<wpc, idleVars, coros, requestStop, tokens, home, io, ops>>

\* The pool's members are destroyed without joining the workers.
JoinNobody ==
  /\ acc = "join"
  /\ Q!Destruct
  /\ acc' = "gone"
  /\ UNCHANGED <<wpc, idleVars, coros, requestStop, tokens, sessionVars>>

(***************************************************************************)
(* A worker waits for work: the top of start_work_thread.                  *)
(***************************************************************************)
CheckToken(w) ==
  /\ wpc[w] = "top"
  /\ Move(w, IF w \in tokens THEN "exited" ELSE "lock")
  /\ UNCHANGED <<queueVars, idleVars, coros, accVars, sessionVars>>

\* Take idle_mutex_, first or on waking up in the condition variable.
Lock(w) ==
  /\ wpc[w] = "lock"
  /\ w \notin asleep
  /\ mutex = None
  /\ mutex' = w
  /\ Move(w, "predFirst")
  /\ UNCHANGED <<queueVars, seen, asleep, coros, accVars, sessionVars>>

\* The predicate: empty() subtracts two counters, loaded in either order.
LoadFirst(w) ==
  /\ wpc[w] = "predFirst"
  /\ \/ seen' = [seen EXCEPT ![w] = [of |-> "head", at |-> head]]
     \/ seen' = [seen EXCEPT ![w] = [of |-> "tail", at |-> tail]]
  /\ Move(w, "predSecond")
  /\ UNCHANGED <<queueVars, mutex, asleep, coros, accVars, sessionVars>>

\* size() returns a uint64_t, so that empty() is size() = 0.
Empty(w) ==
  Q!Word(seen[w].at) = Q!Word(IF seen[w].of = "head" THEN tail ELSE head)

LoadSecond(w) ==
  /\ wpc[w] = "predSecond"
  /\ \/ /\ ~Empty(w)
        /\ mutex' = None
        /\ Move(w, "poll")
     \/ /\ Empty(w)
        /\ Move(w, "predStop")
        /\ UNCHANGED mutex
  /\ UNCHANGED <<queueVars, seen, asleep, coros, accVars, sessionVars>>

LoadRequestStop(w) ==
  /\ wpc[w] = "predStop"
  /\ \/ /\ requestStop
        /\ mutex' = None
        /\ Move(w, "poll")
     \/ /\ ~requestStop
        /\ Move(w, "sleep")
        /\ UNCHANGED mutex
  /\ UNCHANGED <<queueVars, seen, asleep, coros, accVars, sessionVars>>

\* The condition variable releases the mutex and blocks in one step.
Sleep(w) ==
  /\ wpc[w] = "sleep"
  /\ asleep' = asleep \union {w}
  /\ mutex' = None
  /\ Move(w, "lock")
  /\ UNCHANGED <<queueVars, seen, coros, accVars, sessionVars>>

\* A condition variable may wake a thread nobody notified.
WakeSpuriously(w) ==
  /\ w \in asleep
  /\ asleep' = asleep \ {w}
  /\ UNCHANGED <<queueVars, wpc, seen, mutex, coros, accVars, sessionVars>>

(***************************************************************************)
(* A worker takes sessions: resume_coroutine.                              *)
(***************************************************************************)
TryPop(w) ==
  /\ wpc[w] = "poll"
  /\ Q!LoadTail(w, FALSE)
  /\ Move(w, "popping")
  /\ UNCHANGED <<idleVars, coros, accVars, sessionVars>>

\* The steps of try_pop; it ends with a session or without one.
Popping(w) ==
  /\ wpc[w] = "popping"
  /\ \/ /\ Q!CheckReadTurn(w) \/ Q!CasTail(w) \/ Q!Take(w)
        /\ UNCHANGED wpc
     \/ /\ Q!StoreWriteTurn(w)
        /\ Move(w, "admit")
     \/ /\ Q!ReloadTail(w)
        /\ Move(w, IF pc'[w] = "idle" THEN "work" ELSE "popping")
  /\ UNCHANGED <<idleVars, coros, accVars, sessionVars>>

\* Session s runs on worker w to its next suspension: it ends, or it
\* prepares an I/O operation on the ring of its connection.
Run(s, w) ==
  \/ /\ st' = [st EXCEPT ![s] = "done"]
     /\ io' = [io EXCEPT ![s] = "none"]
     /\ UNCHANGED ops
  \/ /\ ops[s] < MaxIo
     /\ st' = [st EXCEPT ![s] = "suspended"]
     /\ io' = [io EXCEPT ![s] = "prepared"]
     /\ ops' = [ops EXCEPT ![s] = @ + 1]

\* set_io_service, the first resume and, unless that finished the coroutine,
\* the insertion into coro_list.
Admit(w) ==
  LET s == got[pos[w]] IN
  /\ wpc[w] = "admit"
  /\ home' = [home EXCEPT ![s] = w]
  /\ Run(s, w)
  /\ coros' = IF st'[s] = "done" THEN coros ELSE [coros EXCEPT ![w] = @ \union {s}]
  /\ Move(w, "poll")
  /\ UNCHANGED <<queueVars, idleVars, accVars>>

(***************************************************************************)
(* A worker waits for completions: the inner loop of start_work_thread.    *)
(***************************************************************************)
NothingSuspended(w) ==
  /\ wpc[w] = "work"
  /\ coros[w] = {}
  /\ Move(w, "top")
  /\ UNCHANGED <<queueVars, idleVars, coros, accVars, sessionVars>>

\* io_uring_submit_and_wait hands over every prepared operation of the ring.
SubmitAndWait(w) ==
  /\ wpc[w] = "work"
  /\ coros[w] # {}
  /\ io' = [s \in Sessions |->
              IF home[s] = w /\ io[s] = "prepared" THEN "inflight" ELSE io[s]]
  /\ Move(w, "waitIo")
  /\ UNCHANGED <<queueVars, idleVars, coros, accVars, st, home, ops>>

\* The completion queue of w's ring.
Completed(w) == {s \in Sessions : home[s] = w /\ io[s] = "completed"}

WaitReturns(w) ==
  /\ wpc[w] = "waitIo"
  /\ Completed(w) # {}
  /\ Move(w, "reap")
  /\ UNCHANGED <<queueVars, idleVars, coros, accVars, sessionVars>>

\* One entry of the completion queue: resume its coroutine.
Reap(w, s) ==
  /\ wpc[w] = "reap"
  /\ s \in Completed(w)
  /\ Run(s, w)
  /\ UNCHANGED <<queueVars, wpc, idleVars, coros, accVars, home>>

\* The completion queue is empty: destroy the coroutines that are done.
Sweep(w) ==
  LET dead == {s \in coros[w] : st[s] = "done"} IN
  /\ wpc[w] = "reap"
  /\ Completed(w) = {}
  /\ st' = [s \in Sessions |-> IF s \in dead THEN "destroyed" ELSE st[s]]
  /\ coros' = [coros EXCEPT ![w] = @ \ dead]
  /\ Move(w, "poll")
  /\ UNCHANGED <<queueVars, idleVars, accVars, home, io, ops>>

(***************************************************************************)
(* The kernel completes an operation.                                      *)
(***************************************************************************)
Complete(s) ==
  /\ io[s] = "inflight"
  /\ io' = [io EXCEPT ![s] = "completed"]
  /\ UNCHANGED <<queueVars, wpc, idleVars, coros, accVars, st, home, ops>>

(***************************************************************************)
(* The acceptor: the loop of serve, submit, and stop_work_thread, which    *)
(* the destructor of the pool runs.                                        *)
(***************************************************************************)
Accept ==
  /\ acc = "accept"
  /\ Q!FetchAddHead(Acceptor, 1)
  /\ st' = [st EXCEPT ![head] = "submitted"]
  /\ acc' = "emplace"
  /\ UNCHANGED <<wpc, idleVars, coros, requestStop, tokens, home, io, ops>>

Emplace ==
  /\ acc = "emplace"
  /\ \/ /\ Q!AwaitWriteTurn(Acceptor) \/ Q!Construct(Acceptor)
        /\ UNCHANGED acc
     \/ /\ Q!StoreReadTurn(Acceptor)
        /\ acc' = "notify"
  /\ UNCHANGED <<wpc, idleVars, coros, requestStop, tokens, sessionVars>>

\* notify_one, without idle_mutex_.
Notify ==
  /\ acc = "notify"
  /\ \/ asleep = {} /\ UNCHANGED asleep
     \/ \E w \in asleep : asleep' = asleep \ {w}
  /\ acc' = "accept"
  /\ UNCHANGED <<queueVars, wpc, seen, mutex, coros, requestStop, tokens, sessionVars>>

RequestStop ==
  /\ acc = "accept"
  /\ requestStop' = TRUE
  /\ acc' = "stop"
  /\ UNCHANGED <<queueVars, wpc, idleVars, coros, tokens, sessionVars>>

SetToken(w) ==
  /\ acc = "stop"
  /\ w \notin tokens
  /\ tokens' = tokens \union {w}
  /\ UNCHANGED <<queueVars, wpc, idleVars, coros, acc, requestStop, sessionVars>>

\* notify_all, without idle_mutex_.
NotifyAll ==
  /\ acc = "stop"
  /\ tokens = Workers
  /\ asleep' = {}
  /\ acc' = "join"
  /\ UNCHANGED <<queueVars, wpc, seen, mutex, coros, requestStop, tokens, sessionVars>>

\* All workers are joined; the members of the pool are destroyed.
Join ==
  /\ acc = "join"
  /\ \A w \in Workers : wpc[w] = "exited"
  /\ Q!Destruct
  /\ acc' = "gone"
  /\ UNCHANGED <<wpc, idleVars, coros, requestStop, tokens, sessionVars>>
-----------------------------------------------------------------------------
WorkerStep(w) ==
  \/ CheckToken(w) \/ Lock(w) \/ LoadFirst(w) \/ LoadSecond(w) \/ LoadRequestStop(w)
  \/ Sleep(w) \/ TryPop(w) \/ Popping(w) \/ Admit(w) \/ NothingSuspended(w)
  \/ SubmitAndWait(w) \/ WaitReturns(w) \/ (\E s \in Sessions : Reap(w, s)) \/ Sweep(w)

\* What the acceptor does without a new connection or a request to stop.
AcceptorStep == Emplace \/ Notify \/ (\E w \in Workers : SetToken(w)) \/ NotifyAll \/ Join

Next ==
  \/ \E w \in Workers : WorkerStep(w) \/ WakeSpuriously(w)
  \/ \E s \in Sessions : Complete(s)
  \/ AcceptorStep \/ Accept \/ RequestStop

Spec == Init /\ [][Next]_vars

\* Threads keep running.  Operations complete: a client that never sends
\* and never closes is outside this assumption.
FairSpec ==
  /\ Spec
  /\ \A w \in Workers : WF_vars(WorkerStep(w))
  /\ \A s \in Sessions : WF_vars(Complete(s))
  /\ WF_vars(AcceptorStep)
-----------------------------------------------------------------------------
\* Every variable has its type.
TypeOK ==
  /\ Q!TypeOK
  /\ wpc \in [Workers -> {"top", "lock", "predFirst", "predSecond", "predStop", "sleep",
                          "poll", "popping", "admit", "work", "waitIo", "reap", "exited"}]
  /\ seen \in [Workers -> [of : {"head", "tail"}, at : 0 .. NSessions]]
  /\ mutex \in Workers \union {None}
  /\ asleep \in SUBSET Workers
  /\ coros \in [Workers -> SUBSET Sessions]
  /\ acc \in {"accept", "emplace", "notify", "stop", "join", "gone"}
  /\ requestStop \in BOOLEAN
  /\ tokens \in SUBSET Workers
  /\ st \in [Sessions -> {"none", "submitted", "suspended", "done", "destroyed"}]
  /\ home \in [Sessions -> Workers \union {None}]
  /\ io \in [Sessions -> {"none", "prepared", "inflight", "completed"}]
  /\ ops \in [Sessions -> 0 .. MaxIo]

\* The pool uses the queue only as the queue allows: one call of a thread at
\* a time, and the destructor after the last call.
UsesQueue == Q!Spec

\* A session whose I/O is under way is kept by the worker that runs the ring
\* the I/O is on, and by no other: io_service is not thread-safe.
RingsPrivate ==
  \A s \in Sessions : io[s] # "none" =>
    /\ home[s] # None
    /\ \A w \in Workers : s \in coros[w] <=> w = home[s]

\* A session is started once: whoever took it from the queue has it, and it
\* cannot be both started and still in the queue.
StartedOnce ==
  \A s \in Sessions :
    /\ st[s] \in {"suspended", "done", "destroyed"} => got[s] = s
    /\ \A w \in Workers : wpc[w] = "admit" /\ got[pos[w]] = s => st[s] = "submitted"

\* No completion refers to a coroutine frame that has been destroyed, and a
\* worker that waits for completions has an operation to wait for.
CompletionsLive ==
  /\ \A s \in Sessions : st[s] = "destroyed" => io[s] = "none"
  /\ \A w \in Workers : wpc[w] = "waitIo" =>
       \E s \in coros[w] : io[s] \in {"inflight", "completed"}

\* Who is left behind: a worker that sleeps or exits has no suspended session,
\* and of the sessions submitted to a pool that is gone each was destroyed, or
\* ended in its first resume, or was never taken from the queue.
LeftBehind ==
  /\ \A w \in Workers :
       wpc[w] \in {"top", "lock", "predFirst", "predSecond", "predStop", "sleep", "exited"} =>
         coros[w] = {} /\ \A s \in Sessions : home[s] = w => io[s] = "none"
  /\ acc = "gone" => \A s \in 0 .. head - 1 :
       \/ st[s] = "destroyed"
       \/ st[s] = "done" /\ ops[s] = 0
       \/ st[s] = "submitted" /\ got[s] = None /\ s >= tail

\* A coroutine that finished after it was suspended is destroyed.
FinishedReclaimed ==
  \A s \in Sessions :
    (\E w \in Workers : s \in coros[w] /\ st[s] = "done") ~> st[s] = "destroyed"

\* A notification that finds a worker asleep is not lost: the sessions
\* submitted before it are started.
NotificationServed ==
  \A s \in Sessions :
    acc = "notify" /\ asleep # {} /\ st[s] = "submitted" ~> st[s] # "submitted"

\* Stopping: after notify_all each worker exits, unless it was past the
\* predicate and not yet asleep.
WorkersExit ==
  \A w \in Workers :
    (acc = "join" /\ wpc[w] # "sleep" /\ w \notin asleep) ~> wpc[w] = "exited"

\* README: idle threads fetch coroutines by themselves.  A session that was
\* submitted to a pool that is not stopped is started.
IdleThreadsTakeSessions ==
  \A s \in Sessions : st[s] = "submitted" ~> st[s] # "submitted" \/ requestStop
=============================================================================
