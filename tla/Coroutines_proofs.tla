--------------------------- MODULE Coroutines_proofs ---------------------------
(***************************************************************************)
(* Proofs about Coroutines: for any number of executors and any depth of   *)
(* tasks that await one another, no thread touches a frame or an event     *)
(* that is destroyed, and sync_wait is a blocking call of its task.        *)
(***************************************************************************)
EXTENDS Coroutines, TLAPS

(***************************************************************************)
(* The inductive invariant: one call of sync_wait goes through six phases. *)
(***************************************************************************)
Setting == {"set", "notify", "unlock"}

Labels == {"idle", "caller", "start", "body", "set", "notify", "unlock", "wait", "check",
           "blocked", "result", "leave"}

\* No thread runs a frame.
NobodyRuns == \A t \in Threads : current[t] = None

ExecutorsIdle == \A e \in Executors : at[e] = "idle"

\* Before the call, and when the frames have been made for it.
Before ==
  /\ event = "none" /\ at[Waiter] = "caller" /\ ExecutorsIdle /\ NobodyRuns
  /\ mutex = None /\ ~done /\ result = None
  /\ \A f \in Frames : frame[f] = "none"
  /\ outcome[1] = None

Ready ==
  /\ event = "alive" /\ at[Waiter] = "start" /\ ExecutorsIdle /\ NobodyRuns
  /\ mutex = None /\ ~done
  /\ frame[0] = "initial" /\ frame[1] = "initial"
  /\ \A f \in Frames : f > 1 => frame[f] = "none"
  /\ outcome[1] = None

\* Frame f is the innermost one that has not ended: the frames outside it
\* wait for it in a row, of those inside at most the next still exists.
Chain(f) ==
  /\ \A g \in Frames : g < f => frame[g] = "active"
  /\ \A g \in Frames : 0 < g /\ g <= f => parent[g] = g - 1
  /\ \A g \in Frames : g > f + 1 => frame[g] \in {"none", "destroyed"}
  /\ f + 1 \in Frames => frame[f + 1] \in {"none", "initial", "final", "destroyed"}
  /\ f = 0 => frame[1] \in {"initial", "final"}
  /\ f # 0 /\ f + 1 \in Frames => frame[f + 1] # "initial"

\* One thread runs frame f, or frame f is parked and no thread runs any.
RunBy(t, f) ==
  /\ frame[f] = "active" /\ current[t] = f /\ at[t] = "body"
  /\ \A u \in Threads : u # t => current[u] = None
  /\ \A e \in Executors : e # t => at[e] = "idle"
  /\ t # Waiter => at[Waiter] \in {"wait", "check", "blocked"}

ParkedAt(f) ==
  /\ f # 0 /\ frame[f] = "parked"
  /\ NobodyRuns /\ ExecutorsIdle
  /\ at[Waiter] \in {"wait", "check", "blocked"}

Running(f) ==
  /\ event = "alive" /\ ~done
  /\ mutex = IF at[Waiter] = "check" THEN Waiter ELSE None
  /\ Chain(f)
  /\ ParkedAt(f) \/ \E t \in Threads : RunBy(t, f)
  /\ IF f = 0 /\ frame[1] = "final" THEN outcome[1] \in Outcomes ELSE outcome[1] = None

\* The chain has ended, and one thread sets the event or has set it.
Ended ==
  /\ event = "alive" /\ NobodyRuns
  /\ frame[0] = "final" /\ frame[1] = "final"
  /\ \A f \in Frames : f > 1 => frame[f] \in {"none", "destroyed"}
  /\ outcome[1] \in Outcomes /\ outcome[0] = outcome[1]
  /\ \A e \in Executors : at[e] \in {"idle"} \union Setting
  /\ at[Waiter] \in {"wait", "check", "blocked", "result"} \union Setting
  /\ \A t, u \in Threads : at[t] \in Setting /\ at[u] \in Setting => t = u
  /\ done <=> \A t \in Threads : at[t] # "set"
  /\ \A t \in Threads : mutex = t <=> at[t] \in {"notify", "unlock", "check"}
  /\ at[Waiter] = "result" => \A t \in Threads : at[t] \notin Setting

\* sync_wait has its result and returns.
Leaving ==
  /\ event = "alive" /\ at[Waiter] = "leave" /\ ExecutorsIdle /\ NobodyRuns
  /\ mutex = None
  /\ frame[0] = "destroyed" /\ frame[1] = "final"
  /\ \A f \in Frames : f > 1 => frame[f] \in {"none", "destroyed"}
  /\ outcome[1] \in Outcomes /\ result = outcome[1]

Gone ==
  /\ event = "destroyed" /\ at[Waiter] = "caller" /\ ExecutorsIdle /\ NobodyRuns
  /\ mutex = None
  /\ frame[0] = "destroyed" /\ frame[1] = "destroyed"
  /\ \A f \in Frames : f > 1 => frame[f] \in {"none", "destroyed"}
  /\ outcome[1] \in Outcomes /\ result = outcome[1]

FrameTypeOK ==
  /\ frame \in [Frames -> {"none", "initial", "active", "parked", "final", "destroyed"}]
  /\ outcome \in [Frames -> Outcomes \union {None}]
  /\ parent \in [Frames -> Frames \union {None}]
  /\ current \in [Threads -> Frames \union {None}]
  /\ at \in [Threads -> Labels]
  /\ mutex \in Threads \union {None}
  /\ done \in BOOLEAN
  /\ result \in Outcomes \union {None}
  /\ awaits \in 0 .. MaxAwaits

Phase ==
  \/ Before \/ Ready \/ (\E f \in Frames : Running(f)) \/ Ended \/ Leaving \/ Gone

CallInv == FrameTypeOK /\ Phase


(***************************************************************************)
(* What a thread does tells the phase of the call.                         *)
(***************************************************************************)

\* A thread that runs a frame runs the innermost one, alone.
LEMMA Runner ==
  ASSUME CallInv, NEW t \in Threads, current[t] \in Frames
  PROVE  Running(current[t]) /\ RunBy(t, current[t])
<1>1. current[t] # None
  BY CoroutineAssumption DEF Frames
<1>2. PICK f \in Frames : Running(f)
  BY <1>1 DEF CallInv, Phase, Before, Ready, Ended, Leaving, Gone, NobodyRuns
<1>3. PICK u \in Threads : RunBy(u, f)
  BY <1>1, <1>2 DEF Running, ParkedAt, NobodyRuns
<1>4. u = t /\ current[t] = f
  BY <1>1, <1>3 DEF RunBy
<1>5. QED
  BY <1>2, <1>3, <1>4

\* A thread sets the event only after the chain has ended.
LEMMA Setter ==
  ASSUME CallInv, NEW t \in Threads, at[t] \in Setting
  PROVE  Ended
<1>1. ASSUME NEW f \in Frames, Running(f) PROVE FALSE
  <2>1. CASE ParkedAt(f)
    BY <2>1 DEF ParkedAt, ExecutorsIdle, Setting, Threads
  <2>2. ASSUME NEW u \in Threads, RunBy(u, f) PROVE FALSE
    BY <2>2 DEF RunBy, Setting, Threads
  <2>3. QED
    BY <1>1, <2>1, <2>2 DEF Running
<1>2. ~(Before \/ Ready \/ Leaving \/ Gone)
  BY DEF Before, Ready, Leaving, Gone, ExecutorsIdle, Setting, Threads
<1>3. QED
  BY <1>1, <1>2 DEF CallInv, Phase

\* A frame that is parked is the innermost one, and no thread runs any.
LEMMA Parked ==
  ASSUME CallInv, NEW f \in Frames, frame[f] = "parked"
  PROVE  Running(f) /\ ParkedAt(f)
<1>1. f \in Int /\ f >= 0 /\ MaxDepth \in Nat
  BY CoroutineAssumption DEF Frames
<1>2. ~(Before \/ Ready \/ Ended \/ Leaving \/ Gone)
  <2>1. f = 0 \/ f = 1 \/ f > 1
    BY <1>1
  <2>2. QED
    BY <2>1 DEF Before, Ready, Ended, Leaving, Gone
<1>3. PICK g \in Frames : Running(g)
  BY <1>2 DEF CallInv, Phase
<1>4. g \in Int /\ frame[g] \in {"active", "parked"}
  BY <1>3, CoroutineAssumption DEF Running, ParkedAt, RunBy, Frames
<1>5. f = g
  <2>1. CASE f < g
    BY <1>3, <2>1 DEF Running, Chain
  <2>2. CASE f > g
    <3>1. f = g + 1 \/ f > g + 1
      BY <1>1, <1>4, <2>2
    <3>2. QED
      BY <1>3, <3>1 DEF Running, Chain
  <2>3. QED
    BY <1>1, <1>4, <2>1, <2>2
<1>6. QED
  BY <1>3, <1>5 DEF Running, RunBy

\* The other places of the waiting thread.
LEMMA WaiterAt ==
  ASSUME CallInv
  PROVE  /\ at[Waiter] = "caller" /\ event = "none" => Before
         /\ at[Waiter] = "start" => Ready
         /\ at[Waiter] = "result" => Ended
         /\ at[Waiter] = "leave" => Leaving
         /\ at[Waiter] \in {"wait", "check", "blocked"} => Ended \/ \E f \in Frames : Running(f)
<1>1. ASSUME NEW f \in Frames, Running(f)
      PROVE  at[Waiter] \in {"body", "wait", "check", "blocked"}
  BY <1>1 DEF Running, ParkedAt, RunBy
<1>2. QED
  BY <1>1 DEF CallInv, Phase, Before, Ready, Ended, Leaving, Gone, Setting

\* Initially nothing has begun.
LEMMA InitCall == Init => CallInv
<1> SUFFICES ASSUME Init PROVE CallInv
  OBVIOUS
<1>1. FrameTypeOK
  <2>1. at \in [Threads -> Labels]
    BY DEF Init, Labels
  <2>2. /\ frame \in [Frames -> {"none", "initial", "active", "parked", "final", "destroyed"}]
        /\ outcome \in [Frames -> Outcomes \union {None}]
        /\ parent \in [Frames -> Frames \union {None}]
        /\ current \in [Threads -> Frames \union {None}]
    BY DEF Init
  <2>3. /\ mutex \in Threads \union {None} /\ done \in BOOLEAN
        /\ result \in Outcomes \union {None} /\ awaits \in 0 .. MaxAwaits
    <3>1. mutex = None /\ done = FALSE /\ result = None /\ awaits = 0
      BY DEF Init
    <3>2. done \in BOOLEAN
      BY <3>1
    <3>3. awaits \in 0 .. MaxAwaits
      BY <3>1, CoroutineAssumption
    <3>4. QED
      BY <3>1, <3>2, <3>3
  <2>4. QED
    BY <2>1, <2>2, <2>3 DEF FrameTypeOK
<1>2. Before
  BY CoroutineAssumption
  DEF Init, Before, ExecutorsIdle, NobodyRuns, Threads, Frames
<1>3. QED
  BY <1>1, <1>2 DEF CallInv, Phase

(***************************************************************************)
(* The bodies of coroutines.                                               *)
(***************************************************************************)

\* The types, and where the thread that runs the innermost frame is.
LEMMA TypeStep ==
  ASSUME CallInv, [Next]_vars
  PROVE  FrameTypeOK'
<1> USE CoroutineAssumption DEF CallInv, FrameTypeOK
<1>1. 0 \in Frames /\ 1 \in Frames /\ Waiter \in Threads
  BY DEF Frames, Threads
<1>2. ASSUME NEW t \in Threads, Body(t) PROVE FrameTypeOK'
  <2> DEFINE f == current[t]
  <2>1. AfterResume(t) \in Labels /\ "set" \in Labels
    BY DEF AfterResume, Labels
  <2>2. CASE Await(t)
    <3>1. f \in Frames /\ f + 1 \in Frames
      BY <2>2 DEF Await, Frames
    <3>2. awaits' \in 0 .. MaxAwaits
      BY <2>2 DEF Await
    <3>3. QED
      BY <2>2, <3>1, <3>2 DEF Await, eventVars
  <2>3. CASE AwaitAgain(t)
    BY <2>3 DEF AwaitAgain, frameVars, eventVars
  <2>4. CASE DropTask(t)
    BY <2>4 DEF DropTask, eventVars
  <2>5. CASE Park(t)
    BY <2>1, <2>5 DEF Park, eventVars, Goto
  <2>6. CASE EndTask(t)
    <3>1. frame' \in [Frames -> {"none", "initial", "active", "parked", "final", "destroyed"}]
      BY <2>6 DEF EndTask
    <3>2. outcome' \in [Frames -> Outcomes \union {None}]
      BY <2>6 DEF EndTask
    <3>3. current' \in [Threads -> Frames \union {None}]
      BY <2>6 DEF EndTask
    <3>4. QED
      BY <2>6, <3>1, <3>2, <3>3 DEF EndTask, eventVars
  <2>7. CASE EndWait(t)
    BY <1>1, <2>1, <2>7 DEF EndWait, eventVars, Goto
  <2>8. QED
    BY <1>2, <2>2, <2>3, <2>4, <2>5, <2>6, <2>7 DEF Body
<1>3. ASSUME NEW t \in Threads, Set(t) PROVE FrameTypeOK'
  BY <1>1, <1>3
  DEF Set, SetDone, SetNotify, SetUnlock, AfterResume, Goto, Labels, frameVars, eventVars
<1>4. ASSUME NEW t \in Executors, NEW f \in Frames, Resume(t, f) PROVE FrameTypeOK'
  BY <1>4 DEF Resume, Goto, Labels, eventVars, Threads
<1>5. CASE Call \/ Wait \/ SpuriousWakeup
  BY <1>1, <1>5
  DEF Call, Wait, Start, WaitLock, CheckDone, TakeResult, Leave, SpuriousWakeup, Goto,
      Labels, frameVars, eventVars
<1>6. CASE UNCHANGED vars
  BY <1>6 DEF vars, frameVars, eventVars
<1>7. QED
  BY <1>2, <1>3, <1>4, <1>5, <1>6 DEF Next


\* A task begins: the chain grows by one frame.
LEMMA AwaitStep ==
  ASSUME CallInv, NEW t \in Threads, Await(t)
  PROVE  Phase'
<1> USE CoroutineAssumption DEF Frames
<1>0. PICK f : f = current[t]
  OBVIOUS
<1>1. /\ current[t] = f /\ f \in Frames /\ f + 1 \in Frames /\ f \in Int /\ f >= 0
      /\ frame' = [frame EXCEPT ![f + 1] = "active"]
      /\ outcome' = [outcome EXCEPT ![f + 1] = None]
      /\ parent' = [parent EXCEPT ![f + 1] = f]
      /\ current' = [current EXCEPT ![t] = f + 1]
      /\ UNCHANGED <<at, eventVars>>
      /\ IF f = 0 THEN frame[1] = "initial" ELSE frame[f + 1] \in {"none", "destroyed"}
  BY <1>0 DEF Await
<1>2. Running(f) /\ RunBy(t, f) /\ FrameTypeOK
  BY <1>0, <1>1, Runner DEF CallInv
<1>3. RunBy(t, f + 1)'
  BY <1>1, <1>2 DEF RunBy, FrameTypeOK
<1>4. Chain(f + 1)'
  <2>1. \A g \in Frames : g < f + 1 => frame'[g] = "active"
    BY <1>1, <1>2 DEF Running, Chain, RunBy, FrameTypeOK
  <2>2. \A g \in Frames : 0 < g /\ g <= f + 1 => parent'[g] = g - 1
    <3>1. parent'[f + 1] = f /\ \A g \in Frames : g # f + 1 => parent'[g] = parent[g]
      BY <1>1, <1>2 DEF FrameTypeOK
    <3>2. \A g \in Frames : 0 < g /\ g <= f => parent[g] = g - 1
      BY <1>2 DEF Running, Chain
    <3>3. QED
      BY <1>1, <3>1, <3>2
  <2>3. ASSUME NEW g \in Frames, g > f + 1 PROVE frame'[g] \in {"none", "destroyed"}
    <3>1. g # f + 1
      BY <1>1, <2>3 DEF Frames
    <3>2. frame'[g] = frame[g]
      BY <1>1, <1>2, <3>1 DEF FrameTypeOK
    <3>3. frame[g] \in {"none", "destroyed"}
      BY <1>2, <2>3 DEF Running, Chain
    <3>4. QED
      BY <3>2, <3>3
  <2>4. f + 2 \in Frames => frame'[f + 2] \in {"none", "destroyed"}
    BY <1>1, <2>3
  <2>5. QED
    BY <1>1, <2>1, <2>2, <2>3 DEF Chain
<1>5. outcome'[1] = None
  BY <1>1, <1>2 DEF Running, FrameTypeOK
<1>6. Running(f + 1)'
  BY <1>1, <1>2, <1>3, <1>4, <1>5 DEF Running, eventVars
<1>7. QED
  BY <1>1, <1>6 DEF Phase

\* A frame is done with its task, whether or not it drops the task's frame.
LEMMA DropStep ==
  ASSUME CallInv, NEW t \in Threads, AwaitAgain(t) \/ DropTask(t)
  PROVE  Phase'
<1> USE CoroutineAssumption DEF Frames
<1>0. PICK f : f = current[t]
  OBVIOUS
<1>1. /\ current[t] = f /\ f \in Frames /\ f + 1 \in Frames /\ f \in Int /\ f >= 1
      /\ frame' \in {frame, [frame EXCEPT ![f + 1] = "destroyed"]}
      /\ UNCHANGED <<outcome, parent, current, at, eventVars>>
  BY <1>0 DEF AwaitAgain, DropTask, frameVars
<1>2. Running(f) /\ RunBy(t, f) /\ FrameTypeOK
  BY <1>0, <1>1, Runner DEF CallInv
<1>3. \A g \in Frames : g # f + 1 => frame'[g] = frame[g]
  BY <1>1, <1>2 DEF FrameTypeOK
<1>4. frame'[f + 1] \in {frame[f + 1], "destroyed"}
  BY <1>1, <1>2 DEF FrameTypeOK
<1>5. RunBy(t, f)'
  BY <1>1, <1>2, <1>3 DEF RunBy
<1>6. Chain(f)'
  BY <1>1, <1>2, <1>3, <1>4 DEF Running, Chain
<1>7. Running(f)'
  BY <1>1, <1>2, <1>5, <1>6 DEF Running, eventVars
<1>8. QED
  BY <1>1, <1>7 DEF Phase

\* The thread leaves the innermost frame parked.
LEMMA ParkStep ==
  ASSUME CallInv, NEW t \in Threads, Park(t)
  PROVE  Phase'
<1> USE CoroutineAssumption DEF Frames
<1>0. PICK f : f = current[t]
  OBVIOUS
<1>1. /\ current[t] = f /\ f \in Frames /\ f # 0 /\ f \in Int
      /\ frame' = [frame EXCEPT ![f] = "parked"]
      /\ current' = [current EXCEPT ![t] = None]
      /\ at' = [at EXCEPT ![t] = AfterResume(t)]
      /\ UNCHANGED <<outcome, parent, eventVars>>
  BY <1>0 DEF Park, Goto
<1>2. Running(f) /\ RunBy(t, f) /\ FrameTypeOK
  BY <1>0, <1>1, Runner DEF CallInv
<1>3. ParkedAt(f)'
  BY <1>1, <1>2 DEF RunBy, ParkedAt, NobodyRuns, ExecutorsIdle, AfterResume, FrameTypeOK, Threads
<1>4. Chain(f)'
  <2>1. \A g \in Frames : g # f => frame'[g] = frame[g]
    BY <1>1, <1>2 DEF FrameTypeOK
  <2>2. parent' = parent
    BY <1>1
  <2>3. QED
    BY <1>1, <1>2, <2>1, <2>2 DEF Running, Chain
<1>5. mutex' = IF at'[Waiter] = "check" THEN Waiter ELSE None
  BY <1>1, <1>2 DEF Running, RunBy, AfterResume, FrameTypeOK, eventVars, Threads
<1>6. Running(f)'
  BY <1>1, <1>2, <1>3, <1>4, <1>5 DEF Running, eventVars
<1>7. QED
  BY <1>1, <1>6 DEF Phase

\* A thread goes on with the parked frame.
LEMMA ResumeStep ==
  ASSUME CallInv, NEW t \in Executors, NEW f \in Frames, Resume(t, f)
  PROVE  Phase'
<1> USE CoroutineAssumption
<1>1. /\ frame[f] = "parked" /\ frame' = [frame EXCEPT ![f] = "active"]
      /\ current' = [current EXCEPT ![t] = f]
      /\ at' = [at EXCEPT ![t] = "body"]
      /\ UNCHANGED <<outcome, parent, eventVars>>
      /\ t \in Threads /\ t # Waiter
  BY DEF Resume, Goto, Threads
<1>2. Running(f) /\ ParkedAt(f) /\ FrameTypeOK
  BY <1>1, Parked DEF CallInv
<1>3. RunBy(t, f)'
  BY <1>1, <1>2 DEF RunBy, ParkedAt, NobodyRuns, ExecutorsIdle, FrameTypeOK, Threads
<1>4. Chain(f)'
  BY <1>1, <1>2 DEF Running, Chain, FrameTypeOK, Frames
<1>5. /\ mutex' = IF at'[Waiter] = "check" THEN Waiter ELSE None
      /\ f # 0
  BY <1>1, <1>2 DEF Running, ParkedAt, FrameTypeOK, eventVars, Threads
<1>6. Running(f)'
  BY <1>1, <1>2, <1>3, <1>4, <1>5 DEF Running, eventVars
<1>7. QED
  BY <1>6 DEF Phase

\* A task ends: its thread goes on with the frame that awaits it.
LEMMA EndTaskStep ==
  ASSUME CallInv, NEW t \in Threads, EndTask(t)
  PROVE  Phase'
<1> USE CoroutineAssumption DEF Frames
<1>0. PICK f : f = current[t]
  OBVIOUS
<1>1. /\ current[t] = f /\ f \in Frames /\ f # 0 /\ f \in Int
      /\ \A g \in Frames : frame'[g] = IF g = f THEN "final"
                                      ELSE IF g = f + 1 /\ frame[g] = "final" THEN "destroyed"
                                      ELSE frame[g]
      /\ \E o \in Outcomes : outcome' = [outcome EXCEPT ![f] = o]
      /\ current' = [current EXCEPT ![t] = parent[f]]
      /\ UNCHANGED <<parent, at, eventVars>>
  <2>1. \A g \in Frames : frame'[g] = IF g = f THEN "final"
                                     ELSE IF g = f + 1 /\ frame[g] = "final" THEN "destroyed"
                                     ELSE frame[g]
    BY <1>0 DEF EndTask
  <2>2. /\ \E o \in Outcomes : outcome' = [outcome EXCEPT ![f] = o]
        /\ current' = [current EXCEPT ![t] = parent[f]]
    BY <1>0 DEF EndTask
  <2>3. f \in Frames /\ f # 0 /\ f \in Int /\ UNCHANGED <<parent, at, eventVars>>
    BY <1>0 DEF EndTask
  <2>4. QED
    BY <1>0, <2>1, <2>2, <2>3
<1>2. Running(f) /\ RunBy(t, f) /\ FrameTypeOK
  BY <1>0, <1>1, Runner DEF CallInv
<1>3. parent[f] = f - 1 /\ f - 1 \in Frames
  BY <1>1, <1>2 DEF Running, Chain
<1>4. RunBy(t, f - 1)'
  BY <1>1, <1>2, <1>3 DEF Running, RunBy, Chain, FrameTypeOK
<1>5. Chain(f - 1)'
  <2>1. \A g \in Frames : g < f - 1 => frame'[g] = "active"
    BY <1>1, <1>2 DEF Running, Chain
  <2>2. \A g \in Frames : 0 < g /\ g <= f - 1 => parent'[g] = g - 1
    BY <1>1, <1>2 DEF Running, Chain
  <2>3. \A g \in Frames : g > f => frame'[g] \in {"none", "destroyed"}
    BY <1>1, <1>2 DEF Running, Chain
  <2>4. frame'[f] = "final"
    BY <1>1
  <2>5. QED
    BY <1>1, <2>1, <2>2, <2>3, <2>4 DEF Chain
<1>6. IF f = 1 THEN frame'[1] = "final" /\ outcome'[1] \in Outcomes ELSE outcome'[1] = None
  BY <1>1, <1>2 DEF Running, FrameTypeOK
<1>7. Running(f - 1)'
  BY <1>1, <1>2, <1>4, <1>5, <1>6 DEF Running, eventVars
<1>8. QED
  BY <1>3, <1>7 DEF Phase

\* The chain has ended, and its thread goes on to set the event.
LEMMA EndWaitStep ==
  ASSUME CallInv, NEW t \in Threads, EndWait(t)
  PROVE  Phase'
<1> USE CoroutineAssumption
<1>1. /\ current[t] = 0 /\ frame[1] = "final" /\ 0 \in Frames /\ 1 \in Frames
      /\ frame' = [frame EXCEPT ![0] = "final"]
      /\ outcome' = [outcome EXCEPT ![0] = outcome[1]]
      /\ current' = [current EXCEPT ![t] = None]
      /\ at' = [at EXCEPT ![t] = "set"]
      /\ UNCHANGED <<parent, eventVars>>
  BY DEF EndWait, Goto, Frames
<1>2. Running(0) /\ RunBy(t, 0) /\ FrameTypeOK
  BY <1>1, Runner DEF CallInv
<1>3. /\ event' = "alive" /\ NobodyRuns' /\ frame'[0] = "final" /\ frame'[1] = "final"
      /\ outcome'[1] \in Outcomes /\ outcome'[0] = outcome'[1]
      /\ \A f \in Frames : f > 1 => frame'[f] \in {"none", "destroyed"}
  BY <1>1, <1>2 DEF Running, RunBy, Chain, NobodyRuns, FrameTypeOK, Frames, eventVars
<1>4. /\ at'[t] = "set" /\ ~done'
      /\ \A e \in Executors : e # t => at'[e] = "idle"
      /\ t # Waiter => at'[Waiter] \in {"wait", "check", "blocked"}
      /\ mutex' = IF at'[Waiter] = "check" THEN Waiter ELSE None
  BY <1>1, <1>2 DEF Running, RunBy, FrameTypeOK, Threads, eventVars
<1>5. Ended'
  <2>1. \A u \in Threads : at'[u] \in Setting => u = t
    BY <1>4 DEF Setting, Threads
  <2>2. \A u \in Threads : mutex' = u <=> at'[u] \in {"notify", "unlock", "check"}
    BY <1>4 DEF Threads
  <2>3. /\ \A e \in Executors : at'[e] \in {"idle"} \union Setting
        /\ at'[Waiter] \in {"wait", "check", "blocked", "result"} \union Setting
    BY <1>4 DEF Setting
  <2>4. at'[Waiter] # "result" /\ ~ \A u \in Threads : at'[u] # "set"
    BY <1>4
  <2>5. QED
    BY <1>3, <1>4, <2>1, <2>2, <2>3, <2>4 DEF Ended
<1>6. QED
  BY <1>5 DEF Phase


(***************************************************************************)
(* The event.                                                              *)
(***************************************************************************)

\* Setting the event, under the lock from done_ to the notification.
LEMMA SetStep ==
  ASSUME CallInv, NEW t \in Threads, Set(t)
  PROVE  Phase'
<1> USE CoroutineAssumption DEF Setting
<1>1. at[t] \in Setting /\ t # None /\ Waiter \in Threads /\ FrameTypeOK
  BY DEF Set, SetDone, SetNotify, SetUnlock, Threads, CallInv
<1>2. Ended
  BY <1>1, Setter
<1>3. UNCHANGED <<frameVars, current, event, result>>
  BY DEF Set, SetDone, SetNotify, SetUnlock, eventVars
<1>4. /\ event' = "alive" /\ NobodyRuns'
      /\ frame'[0] = "final" /\ frame'[1] = "final"
      /\ \A f \in Frames : f > 1 => frame'[f] \in {"none", "destroyed"}
      /\ outcome'[1] \in Outcomes /\ outcome'[0] = outcome'[1]
  BY <1>2, <1>3 DEF Ended, NobodyRuns, frameVars
<1>5. /\ \A u \in Threads : u # t => at[u] \notin Setting
      /\ at[t] # "check" /\ at[Waiter] # "result"
  BY <1>1, <1>2 DEF Ended
<1>6. CASE SetDone(t)
  <2>1. /\ at[t] = "set" /\ mutex = None /\ mutex' = t /\ done'
        /\ at'[t] = "notify" /\ \A u \in Threads : u # t => at'[u] = at[u]
    BY <1>1, <1>6 DEF SetDone, Goto, FrameTypeOK
  <2>2. \A u \in Threads : at[u] # "check"
    BY <1>2, <2>1 DEF Ended, Threads
  <2>3. \A u \in Threads : mutex' = u <=> at'[u] \in {"notify", "unlock", "check"}
    BY <1>5, <2>1, <2>2
  <2>4. /\ \A e \in Executors : at'[e] \in {"idle"} \union Setting
        /\ at'[Waiter] \in {"wait", "check", "blocked", "result"} \union Setting
    BY <1>2, <2>1 DEF Ended, Threads
  <2>5. /\ \A u \in Threads : at'[u] \in Setting => u = t
        /\ \A u \in Threads : at'[u] # "set"
        /\ at'[Waiter] # "result"
    BY <1>1, <1>5, <2>1
  <2>6. Ended'
    BY <1>4, <2>1, <2>3, <2>4, <2>5 DEF Ended
  <2>7. QED
    BY <2>6 DEF Phase
<1>7. CASE SetNotify(t)
  <2>1. /\ at[t] = "notify" /\ mutex' = mutex /\ done' = done
        /\ at'[t] = "unlock"
        /\ \A e \in Executors : e # t => at'[e] = at[e]
        /\ t # Waiter => at'[Waiter] = IF at[Waiter] = "blocked" THEN "wait" ELSE at[Waiter]
    BY <1>1, <1>7 DEF SetNotify, FrameTypeOK, eventVars, Threads
  <2>2. \A u \in Threads : u # t => at'[u] = at[u] \/ (at[u] = "blocked" /\ at'[u] = "wait")
    BY <2>1 DEF Threads
  <2>3. \A u \in Threads : mutex' = u <=> at'[u] \in {"notify", "unlock", "check"}
    BY <1>2, <2>1, <2>2 DEF Ended
  <2>4. /\ \A e \in Executors : at'[e] \in {"idle"} \union Setting
        /\ at'[Waiter] \in {"wait", "check", "blocked", "result"} \union Setting
    BY <1>1, <1>2, <2>1, <2>2 DEF Ended, Threads
  <2>5. /\ \A u \in Threads : at'[u] \in Setting => u = t
        /\ at'[Waiter] # "result"
    BY <1>1, <1>5, <2>1, <2>2
  <2>6. (\A u \in Threads : at'[u] # "set") /\ done'
    BY <1>2, <1>5, <2>1, <2>2 DEF Ended
  <2>7. Ended'
    BY <1>4, <2>3, <2>4, <2>5, <2>6 DEF Ended
  <2>8. QED
    BY <2>7 DEF Phase
<1>8. CASE SetUnlock(t)
  <2>1. /\ at[t] = "unlock" /\ mutex = t /\ mutex' = None /\ done' = done
        /\ at'[t] = AfterResume(t) /\ \A u \in Threads : u # t => at'[u] = at[u]
    BY <1>1, <1>2, <1>8 DEF SetUnlock, Goto, FrameTypeOK, Ended
  <2>2. AfterResume(t) \in {"wait", "idle"} /\ (t = Waiter <=> AfterResume(t) = "wait")
    BY DEF AfterResume
  <2>3. \A u \in Threads : at'[u] \notin {"notify", "unlock", "check"}
    BY <1>2, <1>5, <2>1, <2>2 DEF Ended
  <2>4. \A u \in Threads : mutex' # u
    BY <2>1 DEF Threads
  <2>5. /\ \A e \in Executors : at'[e] \in {"idle"} \union Setting
        /\ at'[Waiter] \in {"wait", "check", "blocked", "result"} \union Setting
    BY <1>1, <1>2, <2>1, <2>2 DEF Ended, Threads
  <2>6. /\ \A u \in Threads : at'[u] \notin Setting
        /\ done'
    BY <1>2, <1>5, <2>1, <2>2 DEF Ended
  <2>7. Ended'
    BY <1>4, <2>3, <2>4, <2>5, <2>6 DEF Ended
  <2>8. QED
    BY <2>7 DEF Phase
<1>9. QED
  BY <1>6, <1>7, <1>8 DEF Set

\* Waiting for the event: the lock, the look at done_ and the wake-ups.
LEMMA WaitStep ==
  ASSUME CallInv, WaitLock \/ CheckDone \/ SpuriousWakeup
  PROVE  Phase'
<1> USE CoroutineAssumption DEF Setting
<1>1. /\ Waiter \in Threads /\ FrameTypeOK /\ at[Waiter] \in {"wait", "check", "blocked"}
      /\ UNCHANGED <<frameVars, current, done, event, result>>
      /\ \A e \in Executors : at'[e] = at[e]
      /\ \/ /\ at[Waiter] = "wait" /\ at'[Waiter] = "check"
            /\ mutex = None /\ mutex' = Waiter
         \/ /\ at[Waiter] = "check" /\ at'[Waiter] = IF done THEN "result" ELSE "blocked"
            /\ mutex' = None
         \/ /\ at[Waiter] = "blocked" /\ at'[Waiter] = "wait"
            /\ mutex' = mutex
  BY DEF WaitLock, CheckDone, SpuriousWakeup, Goto, Threads, CallInv, FrameTypeOK, eventVars
<1>2. ASSUME NEW f \in Frames, Running(f) PROVE Phase'
  <2>1. at'[Waiter] \in {"wait", "check", "blocked"}
    BY <1>1, <1>2 DEF Running
  <2>2. mutex' = IF at'[Waiter] = "check" THEN Waiter ELSE None
    BY <1>1, <1>2 DEF Running
  <2>3. ParkedAt(f)' \/ \E t \in Threads : RunBy(t, f)'
    <3>1. CASE ParkedAt(f)
      BY <1>1, <2>1, <3>1 DEF ParkedAt, NobodyRuns, ExecutorsIdle, frameVars
    <3>2. ASSUME NEW t \in Threads, RunBy(t, f) PROVE RunBy(t, f)'
      <4>1. t # Waiter /\ t \in Executors
        BY <1>1, <3>2 DEF RunBy, Threads
      <4>2. QED
        BY <1>1, <2>1, <3>2, <4>1 DEF RunBy, frameVars
    <3>3. QED
      BY <1>2, <3>1, <3>2 DEF Running
  <2>4. Running(f)'
    BY <1>1, <1>2, <2>2, <2>3 DEF Running, Chain, frameVars
  <2>5. QED
    BY <2>4 DEF Phase
<1>3. CASE Ended
  <2>1. at'[Waiter] \notin Setting /\ at[Waiter] \notin Setting
    BY <1>1
  <2>2. \A u \in Threads : /\ at'[u] \in Setting <=> at[u] \in Setting
                           /\ at'[u] \in Setting => at'[u] = at[u]
    BY <1>1, <2>1 DEF Threads
  <2>3. \A u \in Threads : mutex' = u <=> at'[u] \in {"notify", "unlock", "check"}
    <3>1. \A u \in Threads : u # Waiter => at'[u] = at[u] /\ u \in Executors
      BY <1>1 DEF Threads
    <3>2. \A u \in Threads : mutex = u <=> at[u] \in {"notify", "unlock", "check"}
      BY <1>3 DEF Ended
    <3>3. None \notin Threads
      BY DEF Threads
    <3>4. QED
      BY <1>1, <3>1, <3>2, <3>3
  <2>4. at'[Waiter] = "result" => \A u \in Threads : at'[u] \notin Setting
    <3>1. SUFFICES ASSUME at'[Waiter] = "result" PROVE \A u \in Threads : at[u] \notin Setting
      BY <2>2
    <3>2. at[Waiter] = "check" /\ done
      BY <1>1, <3>1
    <3>3. mutex = Waiter
      BY <1>1, <1>3, <3>2 DEF Ended
    <3>4. QED
      BY <1>1, <1>3, <3>2, <3>3 DEF Ended
  <2>5. done' <=> \A u \in Threads : at'[u] # "set"
    BY <1>1, <1>3, <2>2 DEF Ended
  <2>6. /\ \A e \in Executors : at'[e] \in {"idle"} \union Setting
        /\ at'[Waiter] \in {"wait", "check", "blocked", "result"} \union Setting
        /\ \A t, u \in Threads : at'[t] \in Setting /\ at'[u] \in Setting => t = u
    BY <1>1, <1>3, <2>2 DEF Ended
  <2>7. Ended'
    BY <1>1, <1>3, <2>3, <2>4, <2>5, <2>6 DEF Ended, NobodyRuns, frameVars
  <2>8. QED
    BY <2>7 DEF Phase
<1>4. QED
  BY <1>1, <1>2, <1>3, WaiterAt

\* The beginning and the end of sync_wait.
LEMMA CallStep ==
  ASSUME CallInv, Call \/ Start \/ TakeResult \/ Leave
  PROVE  Phase'
<1> USE CoroutineAssumption
<1>1. Waiter \in Threads /\ 0 \in Frames /\ 1 \in Frames /\ FrameTypeOK /\ Waiter \notin Executors
  BY DEF Threads, Frames, CallInv
<1>2. CASE Call
  <2>1. Before
    BY <1>2, WaiterAt DEF Call
  <2>2. Ready'
    BY <1>1, <1>2, <2>1
    DEF Call, Goto, Before, Ready, ExecutorsIdle, NobodyRuns, FrameTypeOK, Threads
  <2>3. QED
    BY <2>2 DEF Phase
<1>3. CASE Start
  <2>1. Ready
    BY <1>3, WaiterAt DEF Start
  <2>2. RunBy(Waiter, 0)'
    BY <1>1, <1>3, <2>1
    DEF Start, Goto, Ready, RunBy, ExecutorsIdle, NobodyRuns, FrameTypeOK, Threads
  <2>3. Chain(0)'
    BY <1>1, <1>3, <2>1 DEF Start, Ready, Chain, FrameTypeOK, Frames
  <2>4. mutex' = None /\ at'[Waiter] = "body" /\ event' = "alive" /\ ~done'
        /\ frame'[1] = "initial" /\ outcome'[1] = None
    BY <1>1, <1>3, <2>1 DEF Start, Goto, Ready, FrameTypeOK, eventVars
  <2>5. Running(0)'
    BY <1>1, <2>2, <2>3, <2>4 DEF Running
  <2>6. QED
    BY <1>1, <2>5 DEF Phase
<1>4. CASE TakeResult
  <2>1. Ended /\ \A t \in Threads : at[t] \notin Setting
    BY <1>1, <1>4, WaiterAt DEF TakeResult, Ended
  <2>2. mutex = None /\ ExecutorsIdle
    BY <1>1, <1>4, <2>1 DEF TakeResult, Ended, ExecutorsIdle, Setting, FrameTypeOK, Threads
  <2>3. Leaving'
    BY <1>1, <1>4, <2>1, <2>2
    DEF TakeResult, Goto, Ended, Leaving, ExecutorsIdle, NobodyRuns, FrameTypeOK, Threads, eventVars
  <2>4. QED
    BY <2>3 DEF Phase
<1>5. CASE Leave
  <2>1. Leaving
    BY <1>5, WaiterAt DEF Leave
  <2>2. Gone'
    BY <1>1, <1>5, <2>1
    DEF Leave, Goto, Leaving, Gone, ExecutorsIdle, NobodyRuns, FrameTypeOK, Threads
  <2>3. QED
    BY <2>2 DEF Phase
<1>6. QED
  BY <1>2, <1>3, <1>4, <1>5

\* Every step preserves the invariant.
LEMMA CallInvStep == CallInv /\ [Next]_vars => CallInv'
<1> SUFFICES ASSUME CallInv, [Next]_vars PROVE CallInv'
  OBVIOUS
<1>1. FrameTypeOK'
  BY TypeStep
<1>2. Phase'
  <2>1. ASSUME NEW t \in Threads, Body(t) PROVE Phase'
    BY <2>1, AwaitStep, DropStep, ParkStep, EndTaskStep, EndWaitStep DEF Body
  <2>2. ASSUME NEW t \in Threads, Set(t) PROVE Phase'
    BY <2>2, SetStep
  <2>3. ASSUME NEW t \in Executors, NEW f \in Frames, Resume(t, f) PROVE Phase'
    BY <2>3, ResumeStep
  <2>4. CASE Call \/ Wait \/ SpuriousWakeup
    BY <2>4, CallStep, WaitStep DEF Wait
  <2>5. CASE UNCHANGED vars
    BY <2>5
    DEF vars, frameVars, eventVars, CallInv, Phase, Before, Ready, Running, Chain, ParkedAt,
        RunBy, Ended, Leaving, Gone, NobodyRuns, ExecutorsIdle
  <2>6. QED
    BY <2>1, <2>2, <2>3, <2>4, <2>5 DEF Next
<1>3. QED
  BY <1>1, <1>2 DEF CallInv

\* In every reachable state the call is in one of its six phases.
THEOREM CallInvariance == Spec => []CallInv
BY InitCall, CallInvStep, PTL DEF Spec

(***************************************************************************)
(* What follows from the invariant.                                        *)
(***************************************************************************)

\* Every variable keeps its type.
THEOREM CallTypes == Spec => []TypeOK
<1>1. CallInv => TypeOK
  <2> SUFFICES ASSUME CallInv PROVE TypeOK
    OBVIOUS
  <2>1. \A e \in Executors : at[e] \in {"idle", "body", "set", "notify", "unlock"}
    <3>1. ASSUME NEW f \in Frames, Running(f), NEW e \in Executors PROVE at[e] \in {"idle", "body"}
      BY <3>1 DEF Running, ParkedAt, RunBy, ExecutorsIdle
    <3>2. QED
      BY <3>1 DEF CallInv, Phase, Before, Ready, Ended, Leaving, Gone, ExecutorsIdle, Setting
  <2>2. at[Waiter] \in {"caller", "start", "body", "set", "notify", "unlock", "wait", "check",
                        "blocked", "result", "leave"}
    <3>1. ASSUME NEW f \in Frames, Running(f)
          PROVE  at[Waiter] \in {"body", "wait", "check", "blocked"}
      BY <3>1 DEF Running, ParkedAt, RunBy
    <3>2. QED
      BY <3>1 DEF CallInv, Phase, Before, Ready, Ended, Leaving, Gone, Setting
  <2>3. event \in {"none", "alive", "destroyed"}
    BY DEF CallInv, Phase, Before, Ready, Running, Ended, Leaving, Gone
  <2>4. QED
    BY <2>1, <2>2, <2>3 DEF CallInv, FrameTypeOK, TypeOK
<1>2. QED
  BY <1>1, CallInvariance, PTL

\* Whoever resumes a chain runs its innermost frame alone, the frames outside
\* it exist, and the event on the waiting thread's stack outlives set().
THEOREM NothingDangles == Spec => []FramesLive
<1>1. CallInv => FramesLive
  <2> SUFFICES ASSUME CallInv PROVE FramesLive
    OBVIOUS
  <2> USE CoroutineAssumption
  <2>1. ASSUME NEW t \in Threads, current[t] # None
        PROVE  /\ frame[current[t]] = "active"
               /\ \A u \in Threads : current[u] = current[t] => u = t
    <3>1. current[t] \in Frames
      BY <2>1 DEF CallInv, FrameTypeOK
    <3>2. RunBy(t, current[t])
      BY <3>1, Runner
    <3>3. QED
      BY <2>1, <3>2 DEF RunBy
  <2>2. ASSUME NEW f \in Frames \ {0}, frame[f] \in {"active", "parked"}
        PROVE  frame[parent[f]] = "active"
    <3>1. f \in Int /\ f >= 1
      BY DEF Frames
    <3>2. PICK g \in Frames : Running(g)
      BY <2>2, <3>1 DEF CallInv, Phase, Before, Ready, Ended, Leaving, Gone
    <3>3. g \in Int /\ f <= g
      BY <2>2, <3>1, <3>2 DEF Running, Chain, Frames
    <3>4. parent[f] = f - 1 /\ f - 1 \in Frames /\ f - 1 < g
      BY <3>1, <3>2, <3>3 DEF Running, Chain, Frames
    <3>5. QED
      BY <3>2, <3>4 DEF Running, Chain
  <2>3. ASSUME NEW t \in Threads, at[t] \in Setting
        PROVE  event = "alive" /\ frame[0] = "final"
    BY <2>3, Setter DEF Ended
  <2>4. mutex # None => event = "alive"
    BY DEF CallInv, Phase, Before, Ready, Running, Ended, Leaving, Gone
  <2>5. QED
    BY <2>1, <2>2, <2>3, <2>4 DEF FramesLive, Setting
<1>2. QED
  BY <1>1, CallInvariance, PTL


(***************************************************************************)
(* sync_wait is a blocking call.                                           *)
(***************************************************************************)

\* Whether frame 1 has ended: all that the call's caller can see of it.
HasEnded == frame[1] \in {"final", "destroyed"}

\* A step that changes neither what the caller sees nor the outcome.
LEMMA Unseen ==
  ASSUME UNCHANGED event, HasEnded' <=> HasEnded, outcome'[1] = outcome[1],
         event = "destroyed" => result' = result
  PROVE  UNCHANGED CallOfBody!vars
BY DEF CallOfBody!vars, HasEnded

\* What the bodies of the tasks do is unseen, but for the end of frame 1.
LEMMA BodyMaps ==
  ASSUME CallInv, NEW t \in Threads, Body(t)
  PROVE  CallOfBody!End \/ UNCHANGED CallOfBody!vars
<1> USE CoroutineAssumption
<1> USE DEF CallInv, FrameTypeOK
<1>1. 0 \in Frames /\ 1 \in Frames /\ Frames \subseteq Int
  BY DEF Frames
<1>2. CASE Await(t)
  <2>1. PICK f : f = current[t]
    OBVIOUS
  <2>2. /\ f \in Frames /\ f + 1 \in Frames /\ f >= 0
        /\ frame' = [frame EXCEPT ![f + 1] = "active"]
        /\ outcome' = [outcome EXCEPT ![f + 1] = None]
        /\ UNCHANGED <<eventVars, result>>
        /\ f = 0 => frame[1] = "initial"
    BY <1>2, <2>1 DEF Await, Frames
  <2>3. Running(f)
    BY <2>1, <2>2, Runner
  <2>4. (HasEnded' <=> HasEnded) /\ outcome'[1] = outcome[1]
    <3>1. CASE f = 0
      <4>1. frame[1] = "initial" /\ frame'[1] = "active" /\ outcome'[1] = None
        BY <1>1, <2>2, <3>1
      <4>2. outcome[1] = None
        BY <2>3, <3>1, <4>1 DEF Running
      <4>3. QED
        BY <4>1, <4>2 DEF HasEnded
    <3>2. CASE f # 0
      <4>1. f + 1 # 1
        BY <2>2, <3>2 DEF Frames
      <4>2. frame'[1] = frame[1] /\ outcome'[1] = outcome[1]
        BY <1>1, <2>2, <4>1
      <4>3. QED
        BY <4>2 DEF HasEnded
    <3>3. QED
      BY <3>1, <3>2
  <2>5. QED
    BY <2>2, <2>4, Unseen DEF eventVars
<1>3. CASE AwaitAgain(t) \/ DropTask(t)
  <2>1. PICK f : f = current[t]
    OBVIOUS
  <2>2. /\ f \in 1 .. MaxDepth - 1
        /\ frame' \in {frame, [frame EXCEPT ![f + 1] = "destroyed"]}
        /\ UNCHANGED <<outcome, eventVars, result>>
    BY <1>3, <2>1 DEF AwaitAgain, DropTask, frameVars
  <2>3. f + 1 # 1
    BY <2>2
  <2>4. HasEnded' <=> HasEnded
    BY <1>1, <2>2, <2>3 DEF HasEnded
  <2>5. QED
    BY <2>2, <2>4, Unseen DEF eventVars
<1>4. CASE Park(t)
  <2>1. PICK f : f = current[t]
    OBVIOUS
  <2>2. /\ f \in Frames /\ frame' = [frame EXCEPT ![f] = "parked"]
        /\ UNCHANGED <<outcome, eventVars, result>>
    BY <1>4, <2>1 DEF Park
  <2>3. frame[f] = "active"
    BY <2>1, <2>2, Runner DEF RunBy
  <2>4. HasEnded' <=> HasEnded
    BY <1>1, <2>2, <2>3 DEF HasEnded
  <2>5. QED
    BY <2>2, <2>4, Unseen DEF eventVars
<1>5. CASE EndTask(t)
  <2>1. PICK f : f = current[t]
    OBVIOUS
  <2>2. \A g \in Frames : frame'[g] = IF g = f THEN "final"
                                     ELSE IF g = f + 1 /\ frame[g] = "final" THEN "destroyed"
                                     ELSE frame[g]
    BY <1>5, <2>1 DEF EndTask
  <2>3. /\ f \in Frames /\ f # 0 /\ UNCHANGED <<event, result>>
        /\ \E o \in Outcomes : outcome' = [outcome EXCEPT ![f] = o]
    BY <1>5, <2>1 DEF EndTask, eventVars
  <2>4. Running(f) /\ frame[f] = "active" /\ event = "alive"
    BY <2>1, <2>3, Runner DEF RunBy, Running
  <2>5. CASE f = 1
    <3>1. frame[1] = "active" /\ frame'[1] = "final" /\ outcome'[1] \in Outcomes
      BY <1>1, <2>2, <2>3, <2>4, <2>5
    <3>2. CallOfBody!End
      BY <2>3, <2>4, <3>1 DEF CallOfBody!End
    <3>3. QED
      BY <3>2
  <2>6. CASE f # 1
    <3>1. frame'[1] = frame[1] /\ outcome'[1] = outcome[1]
      BY <1>1, <2>2, <2>3, <2>6
    <3>2. QED
      BY <2>3, <3>1, Unseen DEF HasEnded
  <2>7. QED
    BY <2>5, <2>6
<1>6. CASE EndWait(t)
  <2>1. /\ frame' = [frame EXCEPT ![0] = "final"]
        /\ outcome' = [outcome EXCEPT ![0] = outcome[1]]
        /\ UNCHANGED <<eventVars, result>>
    BY <1>6 DEF EndWait
  <2>2. frame'[1] = frame[1] /\ outcome'[1] = outcome[1]
    BY <1>1, <2>1
  <2>3. QED
    BY <2>1, <2>2, Unseen DEF HasEnded, eventVars
<1>7. QED
  BY <1>2, <1>3, <1>4, <1>5, <1>6 DEF Body

\* Of the other steps only Call and Leave are seen.
LEMMA OthersMap ==
  ASSUME CallInv, [Next]_vars, \A t \in Threads : ~Body(t)
  PROVE  [CallOfBody!Begin \/ CallOfBody!Return]_(CallOfBody!vars)
<1> USE CoroutineAssumption
<1> USE DEF CallInv, FrameTypeOK
<1>1. 0 \in Frames /\ 1 \in Frames
  BY DEF Frames
<1>2. CASE Call
  <2>1. Before /\ HasEnded' = FALSE
    BY <1>1, <1>2, WaiterAt DEF Call, HasEnded
  <2>2. CallOfBody!Begin
    BY <1>2, <2>1 DEF Call, Before, CallOfBody!Begin, HasEnded
  <2>3. QED
    BY <2>2
<1>3. CASE Leave
  <2>1. Leaving /\ event' = "destroyed" /\ UNCHANGED <<outcome, result>> /\ frame'[1] = "destroyed"
    BY <1>1, <1>3, WaiterAt DEF Leave
  <2>2. CallOfBody!Return
    BY <2>1 DEF Leaving, CallOfBody!Return
  <2>3. QED
    BY <2>2
<1>4. CASE Start \/ TakeResult
  <2>1. /\ frame'[1] = frame[1] /\ UNCHANGED <<outcome, event>>
        /\ event = "destroyed" => result' = result
    BY <1>1, <1>4, WaiterAt DEF Start, TakeResult, Ended, eventVars
  <2>2. QED
    BY <2>1, Unseen DEF HasEnded
<1>5. ASSUME NEW t \in Executors, NEW f \in Frames, Resume(t, f)
      PROVE  UNCHANGED CallOfBody!vars
  <2>1. /\ frame[f] = "parked" /\ frame' = [frame EXCEPT ![f] = "active"]
        /\ UNCHANGED <<outcome, event, result>>
    BY <1>5 DEF Resume, eventVars
  <2>2. HasEnded' <=> HasEnded
    BY <1>1, <2>1 DEF HasEnded
  <2>3. QED
    BY <2>1, <2>2, Unseen
<1>6. ASSUME \/ \E t \in Threads : Set(t)
             \/ WaitLock \/ CheckDone \/ SpuriousWakeup \/ UNCHANGED vars
      PROVE  UNCHANGED CallOfBody!vars
  <2>1. UNCHANGED <<frameVars, event, result>>
    BY <1>6
    DEF Set, SetDone, SetNotify, SetUnlock, WaitLock, CheckDone, SpuriousWakeup, vars, eventVars
  <2>2. QED
    BY <2>1, Unseen DEF HasEnded, frameVars
<1>7. QED
  BY <1>2, <1>3, <1>4, <1>5, <1>6 DEF Next, Wait

\* Over suspensions, changes of thread and spurious wake-ups, sync_wait
\* returns once, after its task has ended, with what the task ended with:
\* ImplementsCall but for its liveness.
THEOREM BlockingCall == Spec => CallOfBody!Spec
<1>1. Init => CallOfBody!Init
  BY CoroutineAssumption, InitCall DEF Init, CallOfBody!Init, CallInv, Phase, Before, Frames
<1>2. CallInv /\ [Next]_vars =>
        [CallOfBody!Begin \/ CallOfBody!End \/ CallOfBody!Return]_(CallOfBody!vars)
  BY BodyMaps, OthersMap
<1>3. QED
  BY <1>1, <1>2, CallInvariance, PTL DEF Spec, CallOfBody!Spec
==============================================================================
