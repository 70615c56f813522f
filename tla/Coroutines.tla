------------------------------ MODULE Coroutines ------------------------------
(***************************************************************************)
(* Coroutine frames and who may touch them: include/task.hpp and           *)
(* include/sync_wait.hpp.                                                  *)
(*                                                                         *)
(* sync_wait blocks a thread until an awaited task has ended.  Frame 0 is  *)
(* the coroutine of make_sync_wait_task, frame 1 the task given to         *)
(* sync_wait, and frame f + 1 a task that frame f awaits.  A task may wait *)
(* for something outside, and whoever resumes it then runs the rest of the *)
(* chain on its own thread, up to setting the event sync_wait waits for,   *)
(* which lies on the stack of the waiting thread.                          *)
(***************************************************************************)
EXTENDS Integers, FiniteSets

CONSTANTS Waiter,    \* the thread in sync_wait
          Executors, \* threads that resume what a task waits for
          MaxDepth,  \* bound: tasks that await one another
          MaxAwaits, \* bound: awaits of the task bodies
          None

ASSUME CoroutineAssumption ==
  /\ IsFiniteSet(Executors)
  /\ Waiter \notin Executors
  /\ MaxDepth \in Nat \ {0}
  /\ MaxAwaits \in Nat
  /\ None \notin Int \union Executors \union {Waiter, "value", "exception"}

Frames == 0 .. MaxDepth
Threads == Executors \union {Waiter}
Outcomes == {"value", "exception"}

VARIABLES
  frame,   \* the state of each coroutine frame
  outcome, \* its promise: value_ or exception_
  parent,  \* its promise: continue_
  current, \* the frame each thread runs
  at,      \* where each thread is
  mutex,   \* who holds mutex_
  done,    \* done_
  event,   \* the lifetime of the sync_wait_event
  result,  \* what sync_wait has taken from frame 0
  awaits   \* awaits so far

frameVars == <<frame, outcome, parent>>
eventVars == <<mutex, done, event>>
vars == <<frameVars, current, at, eventVars, result, awaits>>

Init ==
  /\ frame = [f \in Frames |-> "none"]
  /\ outcome = [f \in Frames |-> None]
  /\ parent = [f \in Frames |-> None]
  /\ current = [t \in Threads |-> None]
  /\ at = [t \in Threads |-> IF t = Waiter THEN "caller" ELSE "idle"]
  /\ mutex = None
  /\ done = FALSE
  /\ event = "none"
  /\ result = None
  /\ awaits = 0

Goto(t, label) == at' = [at EXCEPT ![t] = label]

(***************************************************************************)
(* Mutants: plausible bugs, each of which breaks one of the properties     *)
(* below.  No specification uses them.                                     *)
(***************************************************************************)

\* Whoever runs the chain to its suspension waits for the event.
AfterResumeWaits(t) == "wait"

\* done_ is set under the lock, the notification comes after it.
SetDoneReleases(t) ==
  /\ at[t] = "set"
  /\ mutex = None
  /\ done' = TRUE
  /\ Goto(t, "notify")
  /\ UNCHANGED <<frameVars, current, mutex, event, result, awaits>>

\* A wake-up counts without a look at done_.
CheckDoneIgnored ==
  /\ at[Waiter] = "check"
  /\ mutex' = None
  /\ Goto(Waiter, "result")
  /\ UNCHANGED <<frameVars, current, done, event, result, awaits>>

(***************************************************************************)
(* Coroutine bodies, on the thread t that runs the innermost frame.        *)
(***************************************************************************)

\* Where a thread goes when its resume() comes back: a suspension unwinds
\* to it without touching a frame.
AfterResume(t) == IF t = Waiter THEN "wait" ELSE "idle"

\* co_await of a task: it is created suspended (a body that awaits its task
\* a second time goes by AwaitAgain), gets the awaiting frame as its
\* continuation and runs in its place.
Await(t) ==
  LET f == current[t] IN
  /\ f \in 0 .. MaxDepth - 1
  /\ IF f = 0 THEN frame[1] = "initial"
              ELSE frame[f + 1] \in {"none", "destroyed"} /\ awaits < MaxAwaits
  /\ frame' = [frame EXCEPT ![f + 1] = "active"]
  /\ outcome' = [outcome EXCEPT ![f + 1] = None]
  /\ parent' = [parent EXCEPT ![f + 1] = f]
  /\ current' = [current EXCEPT ![t] = f + 1]
  /\ awaits' = IF f = 0 THEN awaits ELSE awaits + 1
  /\ UNCHANGED <<at, eventVars, result>>

\* A task that is done is ready at once, and gives its result again.
AwaitAgain(t) ==
  LET f == current[t] IN
  /\ f \in 1 .. MaxDepth - 1
  /\ frame[f + 1] = "final"
  /\ awaits < MaxAwaits
  /\ awaits' = awaits + 1
  /\ UNCHANGED <<frameVars, current, at, eventVars, result>>

\* The task object goes out of scope: its frame is destroyed.
DropTask(t) ==
  LET f == current[t] IN
  /\ f \in 1 .. MaxDepth - 1
  /\ frame[f + 1] = "final"
  /\ frame' = [frame EXCEPT ![f + 1] = "destroyed"]
  /\ UNCHANGED <<outcome, parent, current, at, eventVars, result, awaits>>

\* A task waits for something outside; its thread goes on elsewhere.
Park(t) ==
  LET f == current[t] IN
  /\ f \in Frames \ {0}
  /\ awaits < MaxAwaits
  /\ frame' = [frame EXCEPT ![f] = "parked"]
  /\ current' = [current EXCEPT ![t] = None]
  /\ awaits' = awaits + 1
  /\ Goto(t, AfterResume(t))
  /\ UNCHANGED <<outcome, parent, eventVars, result>>

\* The outside resumes a parked frame, from the moment it is parked on.
Resume(t, f) ==
  /\ at[t] = "idle"
  /\ frame[f] = "parked"
  /\ frame' = [frame EXCEPT ![f] = "active"]
  /\ current' = [current EXCEPT ![t] = f]
  /\ Goto(t, "body")
  /\ UNCHANGED <<outcome, parent, eventVars, result, awaits>>

\* A task returns or throws: its locals are destroyed, the outcome is in the
\* promise, and the continuation runs in its place.
EndTask(t) ==
  LET f == current[t] IN
  /\ f \in Frames \ {0}
  /\ frame' = [g \in Frames |-> IF g = f THEN "final"
                                ELSE IF g = f + 1 /\ frame[g] = "final" THEN "destroyed"
                                ELSE frame[g]]
  /\ \E o \in Outcomes : outcome' = [outcome EXCEPT ![f] = o]
  /\ current' = [current EXCEPT ![t] = parent[f]]
  /\ UNCHANGED <<parent, at, eventVars, result, awaits>>

\* Frame 0 goes on with the result of the task, yields it or keeps the
\* exception, and is suspended for good; what follows is ev_->set().
EndWait(t) ==
  /\ current[t] = 0
  /\ frame[1] = "final"
  /\ frame' = [frame EXCEPT ![0] = "final"]
  /\ outcome' = [outcome EXCEPT ![0] = outcome[1]]
  /\ current' = [current EXCEPT ![t] = None]
  /\ Goto(t, "set")
  /\ UNCHANGED <<parent, eventVars, result, awaits>>

(***************************************************************************)
(* sync_wait_event::set, on the thread that ended the chain.               *)
(***************************************************************************)
SetDone(t) ==
  /\ at[t] = "set"
  /\ mutex = None
  /\ mutex' = t
  /\ done' = TRUE
  /\ Goto(t, "notify")
  /\ UNCHANGED <<frameVars, current, event, result, awaits>>

\* cv_.notify_all, still under the lock.
SetNotify(t) ==
  /\ at[t] = "notify"
  /\ at' = [at EXCEPT ![t] = "unlock",
                      ![Waiter] = IF t = Waiter THEN "unlock"
                                  ELSE IF @ = "blocked" THEN "wait" ELSE @]
  /\ UNCHANGED <<frameVars, current, eventVars, result, awaits>>

SetUnlock(t) ==
  /\ at[t] = "unlock"
  /\ mutex' = IF mutex = t THEN None ELSE mutex
  /\ Goto(t, AfterResume(t))
  /\ UNCHANGED <<frameVars, current, done, event, result, awaits>>

(***************************************************************************)
(* sync_wait, on the waiting thread.                                       *)
(***************************************************************************)

\* The caller has made the task; the event and frame 0 are made for it.
Call ==
  /\ at[Waiter] = "caller"
  /\ event = "none"
  /\ event' = "alive"
  /\ frame' = [frame EXCEPT ![0] = "initial", ![1] = "initial"]
  /\ Goto(Waiter, "start")
  /\ UNCHANGED <<outcome, parent, current, mutex, done, result, awaits>>

\* task.start: frame 0 gets the event and runs.
Start ==
  /\ at[Waiter] = "start"
  /\ frame' = [frame EXCEPT ![0] = "active"]
  /\ current' = [current EXCEPT ![Waiter] = 0]
  /\ Goto(Waiter, "body")
  /\ UNCHANGED <<outcome, parent, eventVars, result, awaits>>

\* ev.wait() takes the lock, at first and after each wake-up.
WaitLock ==
  /\ at[Waiter] = "wait"
  /\ mutex = None
  /\ mutex' = Waiter
  /\ Goto(Waiter, "check")
  /\ UNCHANGED <<frameVars, current, done, event, result, awaits>>

\* The predicate; to block releases the lock in the same step.
CheckDone ==
  /\ at[Waiter] = "check"
  /\ mutex' = None
  /\ Goto(Waiter, IF done THEN "result" ELSE "blocked")
  /\ UNCHANGED <<frameVars, current, done, event, result, awaits>>

SpuriousWakeup ==
  /\ at[Waiter] = "blocked"
  /\ Goto(Waiter, "wait")
  /\ UNCHANGED <<frameVars, current, eventVars, result, awaits>>

\* get_result returns the value or throws the exception again; either way
\* ~sync_wait_task destroys frame 0.
TakeResult ==
  /\ at[Waiter] = "result"
  /\ result' = outcome[0]
  /\ frame' = [frame EXCEPT ![0] = "destroyed"]
  /\ Goto(Waiter, "leave")
  /\ UNCHANGED <<outcome, parent, current, eventVars, awaits>>

\* The event is destroyed and sync_wait has returned; the caller's task is
\* destroyed at the end of the expression.
Leave ==
  /\ at[Waiter] = "leave"
  /\ event' = "destroyed"
  /\ frame' = [frame EXCEPT ![1] = "destroyed"]
  /\ Goto(Waiter, "caller")
  /\ UNCHANGED <<outcome, parent, current, mutex, done, result, awaits>>
-----------------------------------------------------------------------------
Body(t) == Await(t) \/ AwaitAgain(t) \/ DropTask(t) \/ Park(t) \/ EndTask(t) \/ EndWait(t)
Set(t) == SetDone(t) \/ SetNotify(t) \/ SetUnlock(t)
Wait == Start \/ WaitLock \/ CheckDone \/ TakeResult \/ Leave

Next ==
  \/ \E t \in Threads : Body(t) \/ Set(t)
  \/ \E t \in Executors, f \in Frames : Resume(t, f)
  \/ Call \/ Wait \/ SpuriousWakeup

Spec == Init /\ [][Next]_vars

\* A thread inside the library keeps running, and wake-ups nobody asked for
\* come to an end: else they could keep the lock from the thread in set.
FairSpec ==
  /\ Spec
  /\ \A t \in Threads : WF_vars(Body(t) \/ Set(t))
  /\ WF_vars(Wait)
  /\ <>[][~SpuriousWakeup]_vars
-----------------------------------------------------------------------------
\* Every variable has its type.
TypeOK ==
  /\ frame \in [Frames -> {"none", "initial", "active", "parked", "final", "destroyed"}]
  /\ outcome \in [Frames -> Outcomes \union {None}]
  /\ parent \in [Frames -> Frames \union {None}]
  /\ current \in [Threads -> Frames \union {None}]
  /\ \A e \in Executors : at[e] \in {"idle", "body", "set", "notify", "unlock"}
  /\ at[Waiter] \in {"caller", "start", "body", "set", "notify", "unlock", "wait", "check",
                     "blocked", "result", "leave"}
  /\ mutex \in Threads \union {None}
  /\ done \in BOOLEAN
  /\ event \in {"none", "alive", "destroyed"}
  /\ result \in Outcomes \union {None}
  /\ awaits \in 0 .. MaxAwaits

\* No thread touches what is destroyed: a frame that runs, or waits for one
\* that does, exists and is run by one thread; the thread that sets the
\* event has the event to the end, whose mutex nobody holds when it dies,
\* although the waiting thread leaves as soon as it sees done_.
FramesLive ==
  /\ \A t \in Threads : current[t] # None =>
       /\ frame[current[t]] = "active"
       /\ \A u \in Threads : current[u] = current[t] => u = t
  /\ \A f \in Frames \ {0} : frame[f] \in {"active", "parked"} => frame[parent[f]] = "active"
  /\ \A t \in Threads : at[t] \in {"set", "notify", "unlock"} => event = "alive"
  /\ \A t \in Threads : at[t] = "set" => frame[0] = "final"
  /\ mutex # None => event = "alive"

CallOfBody == INSTANCE SyncCall WITH
  body <- IF event = "none" THEN "none"
          ELSE IF frame[1] \in {"final", "destroyed"} THEN "ended" ELSE "running",
  ended <- outcome[1],
  returned <- IF event = "destroyed" THEN result ELSE None

\* sync_wait is a blocking call: over suspensions, changes of thread and
\* spurious wake-ups it returns what the body ended with, after it ended,
\* and once it has ended it returns.
ImplementsCall == CallOfBody!FairSpec
=============================================================================
