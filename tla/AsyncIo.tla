------------------------------- MODULE AsyncIo -------------------------------
(***************************************************************************)
(* What an io_service promises its coroutines, without rings: an operation *)
(* that a coroutine awaits completes once, and the coroutine is resumed    *)
(* once for it, with the result of that operation.                         *)
(*                                                                         *)
(* A coroutine awaits one operation at a time; its operations are numbered *)
(* in the order it starts them.                                            *)
(***************************************************************************)
EXTENDS Integers

CONSTANTS Coros,  \* the coroutines
          MaxOps  \* bound: operations of one coroutine

VARIABLES st,     \* what each coroutine is doing
          ops,    \* operations it has started
          io,     \* its current operation
          result  \* the operation whose result it received last, 0 if none

vars == <<st, ops, io, result>>

Init ==
  /\ st = [c \in Coros |-> "new"]
  /\ ops = [c \in Coros |-> 0]
  /\ io = [c \in Coros |-> "none"]
  /\ result = [c \in Coros |-> 0]

\* A running coroutine gets to its end or to its next operation.
Run(c) ==
  \/ /\ st' = [st EXCEPT ![c] = "done"]
     /\ io' = [io EXCEPT ![c] = "none"]
     /\ UNCHANGED ops
  \/ /\ ops[c] < MaxOps
     /\ st' = [st EXCEPT ![c] = "suspended"]
     /\ ops' = [ops EXCEPT ![c] = @ + 1]
     /\ io' = [io EXCEPT ![c] = "pending"]

Start(c) == st[c] = "new" /\ Run(c) /\ UNCHANGED result

Complete(c) ==
  /\ io[c] = "pending"
  /\ io' = [io EXCEPT ![c] = "completed"]
  /\ UNCHANGED <<st, ops, result>>

Resume(c) ==
  /\ st[c] = "suspended"
  /\ io[c] = "completed"
  /\ result' = [result EXCEPT ![c] = ops[c]]
  /\ Run(c)

Next == \E c \in Coros : Start(c) \/ Complete(c) \/ Resume(c)

Spec == Init /\ [][Next]_vars
=============================================================================
