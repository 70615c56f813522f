------------------------------ MODULE IoService ------------------------------
(***************************************************************************)
(* include/io_service.hpp: one io_uring, the thread that drives it and the *)
(* coroutines that await operations on it.                                 *)
(*                                                                         *)
(* The thread prepares entries of the submission queue, hands them to the  *)
(* kernel, waits for completions and resumes the coroutine each completion *)
(* points to.  The kernel completes operations in any order.  When the     *)
(* completion queue is full it keeps further completions in a backlog,     *)
(* which it moves to the queue on a later call; while there is a backlog   *)
(* it may refuse to take new entries (-EBUSY).                             *)
(***************************************************************************)
EXTENDS Integers, Sequences, SequencesExt

CONSTANTS Coros,   \* coroutines that run on this ring
          Depth,   \* entries of the submission queue
          CqSize,  \* entries of the completion queue
          MaxOps,  \* bound: operations of one coroutine
          None

ASSUME IoAssumption ==
  /\ None \notin Coros
  /\ Depth \in Nat \ {0}
  /\ CqSize \in Nat \ {0}
  /\ MaxOps \in Nat

VARIABLES
  sq,       \* entries prepared and not yet taken by the kernel
  inflight, \* operations the kernel is working on
  cq,       \* completions the thread has not marked as seen
  backlog,  \* completions the kernel keeps for want of room in cq
  reaped,   \* how many of cq the thread has handled: cqe_num
  pc,       \* where the thread is
  until,    \* the coroutine run_task waits for, None in a single pass
  st,       \* what each coroutine is doing
  ops,      \* operations it has started
  result    \* resume_handle::result, as the number of the operation

ringVars == <<sq, inflight, cq, backlog>>
coroVars == <<st, ops, result>>
vars == <<ringVars, reaped, pc, until, coroVars>>

\* An entry carries a pointer to the resume_handle of the coroutine that
\* awaits it; op tells the coroutine's operations apart.
Entries == [coro : Coros, op : 1 .. MaxOps]

Init ==
  /\ sq = <<>>
  /\ inflight = {}
  /\ cq = <<>>
  /\ backlog = <<>>
  /\ reaped = 0
  /\ pc = "idle"
  /\ until = None
  /\ st = [c \in Coros |-> "new"]
  /\ ops = [c \in Coros |-> 0]
  /\ result = [c \in Coros |-> 0]

(***************************************************************************)
(* The kernel.                                                             *)
(***************************************************************************)
Room == CqSize - Len(cq)

Moved == IF Room < Len(backlog) THEN Room ELSE Len(backlog)

MoveBacklog ==
  /\ cq' = cq \o SubSeq(backlog, 1, Moved)
  /\ backlog' = SubSeq(backlog, Moved + 1, Len(backlog))

\* A call takes all entries, or none of them while there is a backlog.
TakeEntries == sq' = <<>> /\ inflight' = inflight \union ToSet(sq)
Refuse == sq # <<>> /\ backlog' # <<>> /\ UNCHANGED <<sq, inflight>>

Submit == MoveBacklog /\ (TakeEntries \/ Refuse)

Complete(e) ==
  /\ inflight' = inflight \ {e}
  /\ \/ /\ Room > 0 /\ backlog = <<>>
        /\ cq' = Append(cq, e)
        /\ UNCHANGED backlog
     \/ /\ Room = 0 \/ backlog # <<>>
        /\ backlog' = Append(backlog, e)
        /\ UNCHANGED cq
  /\ UNCHANGED <<sq, reaped, pc, until, coroVars>>

(***************************************************************************)
(* A coroutine runs, on the ring's thread.                                 *)
(***************************************************************************)
\* get_sqe, the preparation of the entry and await_suspend.  When the queue
\* is full, submit and try again; the second attempt is not checked.
GetSqe(e) ==
  \/ /\ Len(sq) < Depth
     /\ sq' = Append(sq, e)
     /\ UNCHANGED <<inflight, cq, backlog>>
  \/ /\ Len(sq) = Depth
     /\ MoveBacklog
     /\ inflight' = inflight \union ToSet(sq)
     /\ sq' = <<e>>

\* Each operation from nop to timeout: an entry, prepared with what tells the
\* operations apart, in an awaitable that the coroutine awaits.
AwaitOperation(c) ==
  /\ ops[c] < MaxOps
  /\ GetSqe([coro |-> c, op |-> ops[c] + 1])
  /\ st' = [st EXCEPT ![c] = "suspended"]
  /\ ops' = [ops EXCEPT ![c] = @ + 1]

Run(c) ==
  \/ /\ st' = [st EXCEPT ![c] = "done"]
     /\ UNCHANGED <<ringVars, ops>>
  \/ AwaitOperation(c)

(***************************************************************************)
(* Mutants: plausible bugs, each of which breaks one of the properties     *)
(* below.  No specification uses them.                                     *)
(***************************************************************************)

\* The count of handled completions is not reset for the next pass.
AdvanceKeepsCount ==
  /\ pc = "advance"
  /\ cq' = SubSeq(cq, reaped + 1, Len(cq))
  /\ pc' = "idle"
  /\ until' = None
  /\ UNCHANGED <<sq, inflight, backlog, reaped, coroVars>>

\* Everything that has arrived is marked as seen, handled or not.
AdvanceAll ==
  /\ pc = "advance"
  /\ cq' = <<>>
  /\ reaped' = 0
  /\ pc' = "idle"
  /\ until' = None
  /\ UNCHANGED <<sq, inflight, backlog, coroVars>>

\* Wait without submitting.
WaitOnly ==
  /\ pc = "submit"
  /\ pc' = "blocked"
  /\ UNCHANGED <<ringVars, reaped, until, coroVars>>

\* get_sqe gives up without submitting.
GetsNoSqeUnsubmitted == Len(sq) = Depth /\ UNCHANGED ringVars

\* The loop looks at the head of the queue each time round.
ReapHead ==
  LET e == cq[1] IN
  /\ pc = "reap"
  /\ reaped < Len(cq)
  /\ result' = [result EXCEPT ![e.coro] = e.op]
  /\ reaped' = reaped + 1
  /\ Run(e.coro)
  /\ UNCHANGED <<pc, until>>

(***************************************************************************)
(* The thread.                                                             *)
(***************************************************************************)
\* The first resume of a coroutine, by the owner of the ring or by run_task,
\* which then loops until the coroutine is done.
Start(c) ==
  /\ pc = "idle"
  /\ st[c] = "new"
  /\ Run(c)
  /\ UNCHANGED <<reaped, result>>
  /\ \/ UNCHANGED <<pc, until>>
     \/ /\ st'[c] = "suspended"
        /\ until' = c
        /\ pc' = "submit"

\* wait_io_and_resume_coroutine, called while a coroutine is suspended.
CallWait ==
  /\ pc = "idle"
  /\ \E c \in Coros : st[c] = "suspended"
  /\ pc' = "submit"
  /\ UNCHANGED <<ringVars, reaped, until, coroVars>>

\* wait_consume submits without waiting; fn resumes the handles it is given.
CallConsume ==
  /\ pc = "idle"
  /\ Submit
  /\ pc' = "reap"
  /\ UNCHANGED <<reaped, until, coroVars>>

\* io_uring_submit_and_wait: after a refusal it returns without waiting.
SubmitAndWait ==
  /\ pc = "submit"
  /\ Submit
  /\ pc' = IF sq' = <<>> THEN "blocked" ELSE "reap"
  /\ UNCHANGED <<reaped, until, coroVars>>

WaitReturns ==
  /\ pc = "blocked"
  /\ cq # <<>>
  /\ pc' = "reap"
  /\ UNCHANGED <<ringVars, reaped, until, coroVars>>

\* A signal ends the wait; the result of the call is not looked at.
Interrupted ==
  /\ pc = "blocked"
  /\ pc' = "reap"
  /\ UNCHANGED <<ringVars, reaped, until, coroVars>>

\* io_uring_for_each_cqe: one entry; it is marked as seen only later.
Reap ==
  LET e == cq[reaped + 1] IN
  /\ pc = "reap"
  /\ reaped < Len(cq)
  /\ result' = [result EXCEPT ![e.coro] = e.op]
  /\ reaped' = reaped + 1
  /\ Run(e.coro)
  /\ UNCHANGED <<pc, until>>

ReapEnds ==
  /\ pc = "reap"
  /\ reaped = Len(cq)
  /\ pc' = "advance"
  /\ UNCHANGED <<ringVars, reaped, until, coroVars>>

\* The loop of run_task goes on until its coroutine is done.
Returns == until # None => st[until] = "done"

\* io_uring_cq_advance
Advance ==
  /\ pc = "advance"
  /\ cq' = SubSeq(cq, reaped + 1, Len(cq))
  /\ reaped' = 0
  /\ \/ /\ Returns
        /\ pc' = "idle"
        /\ until' = None
     \/ /\ ~Returns
        /\ pc' = "submit"
        /\ UNCHANGED until
  /\ UNCHANGED <<sq, inflight, backlog, coroVars>>

\* The second attempt of get_sqe fails too.
GetsNoSqe == Len(sq) = Depth /\ MoveBacklog /\ Refuse

\* The coroutine that runs next gets a null entry, which it then writes to:
\* nothing is known of the program from here on.
NullEntry ==
  /\ \/ pc = "idle" /\ \E c \in Coros : st[c] = "new" /\ ops[c] < MaxOps
     \/ pc = "reap" /\ reaped < Len(cq) /\ ops[cq[reaped + 1].coro] < MaxOps
  /\ GetsNoSqe
  /\ pc' = "crashed"
  /\ UNCHANGED <<reaped, until, coroVars>>
-----------------------------------------------------------------------------
\* What the thread does between the coroutines, once it has one to wait for.
Ring == CallWait \/ SubmitAndWait \/ WaitReturns \/ ReapEnds \/ Advance

\* What may happen and need not.
Mishap == CallConsume \/ Interrupted \/ NullEntry

Next ==
  \/ \E c \in Coros : Start(c)
  \/ Ring \/ Reap \/ Mishap
  \/ \E e \in inflight : Complete(e)

Spec == Init /\ [][Next]_vars
-----------------------------------------------------------------------------
\* Every variable has its type.
TypeOK ==
  /\ sq \in Seq(Entries) /\ Len(sq) <= Depth
  /\ inflight \in SUBSET Entries
  /\ cq \in Seq(Entries) /\ Len(cq) <= CqSize
  /\ backlog \in Seq(Entries)
  /\ reaped \in 0 .. Len(cq)
  /\ pc \in {"idle", "submit", "blocked", "reap", "advance", "crashed"}
  /\ until \in Coros \union {None}
  /\ st \in [Coros -> {"new", "suspended", "done"}]
  /\ ops \in [Coros -> 0 .. MaxOps]
  /\ result \in [Coros -> 0 .. MaxOps]

\* The completions the thread has not handled yet.
Unhandled == SubSeq(cq, reaped + 1, Len(cq))

\* Every operation between its preparation and its coroutine's resumption.
Outstanding == ToSet(sq) \union inflight \union ToSet(Unhandled) \union ToSet(backlog)

\* An operation is in one place at a time, and what is outstanding is exactly
\* the operation each suspended coroutine awaits: no completion is lost, none
\* is handled twice, none reaches a coroutine that has gone on without it.
OneOperationEach ==
  /\ Outstanding = {[coro |-> c, op |-> ops[c]] : c \in {d \in Coros : st[d] = "suspended"}}
  /\ IsInjective(sq) /\ IsInjective(Unhandled) /\ IsInjective(backlog)
  /\ ToSet(sq) \intersect (inflight \union ToSet(Unhandled) \union ToSet(backlog)) = {}
  /\ inflight \intersect (ToSet(Unhandled) \union ToSet(backlog)) = {}
  /\ ToSet(Unhandled) \intersect ToSet(backlog) = {}

\* The thread blocks only if the kernel has taken everything prepared, and
\* has or will have a completion for it: it does not wait for an operation
\* that is still in its own submission queue.
WaitsForKernel ==
  pc = "blocked" => /\ sq = <<>>
                    /\ inflight # {} \/ cq # <<>>

\* What a coroutine sees of its operation: the submission queue and the kernel
\* are one place to it, and so are the completion queue and the backlog.
Status ==
  [c \in Coros |->
     IF \E e \in ToSet(sq) \union inflight : e.coro = c THEN "pending"
     ELSE IF \E e \in ToSet(Unhandled) \union ToSet(backlog) : e.coro = c THEN "completed"
     ELSE "none"]

Io == INSTANCE AsyncIo WITH io <- Status

\* Rings, backlog and the late advance are invisible to the coroutines: each
\* is resumed once for each operation, with that operation's result.
ImplementsAsyncIo == Io!Spec

\* An operation that was prepared gets its coroutine resumed, also from the
\* backlog and through full queues, unless the thread ran into a null entry;
\* that only happens while the kernel has completions in its backlog, since
\* otherwise the submission in get_sqe makes room.
Resumed ==
  \A c \in Coros : \A n \in 1 .. MaxOps :
    st[c] = "suspended" /\ ops[c] = n ~> result[c] >= n \/ (pc = "crashed" /\ backlog # <<>>)
=============================================================================
