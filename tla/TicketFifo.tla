----------------------------- MODULE TicketFifo -----------------------------
(***************************************************************************)
(* What MPMCQueue promises, without slots, turns or compare-and-swap: a    *)
(* bounded FIFO buffer whose places are numbered.                          *)
(*                                                                         *)
(* Producers reserve places in order and each place is filled once, with   *)
(* the element meant for it.  Consumers reserve places in the same order   *)
(* and each place is emptied once, by its consumer, who gets that element. *)
(* An element is named by the place its producer reserved, so "the         *)
(* consumer of place i got element i" is both FIFO order and exactly-once  *)
(* delivery.  A place is filled only when the one Capacity before it has   *)
(* been emptied.                                                           *)
(***************************************************************************)
EXTENDS Integers

CONSTANTS Capacity, \* places that can be filled at once
          First,    \* the first place of the behaviour
          Last,     \* bound: places First .. Last - 1 are handed out
          None      \* no element

VARIABLES in,       \* next place to be reserved by a producer
          out,      \* next place to be reserved by a consumer
          stored,   \* the elements in the buffer
          got,      \* got[i]: the element the consumer of place i received
          open      \* the buffer has not been destroyed

vars == <<in, out, stored, got, open>>

Places == First .. Last - 1

Init ==
  /\ in = First
  /\ out = First
  /\ stored = {}
  /\ got = [i \in Places |-> None]
  /\ open = TRUE

Reserve ==
  /\ in' \in in + 1 .. Last
  /\ UNCHANGED <<out, stored, got, open>>

Put(i) ==
  /\ i < in
  /\ i \notin stored
  /\ got[i] = None
  /\ i >= First + Capacity => got[i - Capacity] # None
  /\ stored' = stored \union {i}
  /\ UNCHANGED <<in, out, got, open>>

Request ==
  /\ out < Last
  /\ out' = out + 1
  /\ UNCHANGED <<in, stored, got, open>>

Get(i) ==
  /\ i < out
  /\ i \in stored
  /\ stored' = stored \ {i}
  /\ got' = [got EXCEPT ![i] = i]
  /\ UNCHANGED <<in, out, open>>

\* Destroying the buffer destroys every element still in it.
Close ==
  /\ stored' = {}
  /\ open' = FALSE
  /\ UNCHANGED <<in, out, got>>

Next ==
  /\ open
  /\ \/ Reserve
     \/ Request
     \/ \E i \in Places : Put(i) \/ Get(i)
     \/ Close

Spec == Init /\ [][Next]_vars
=============================================================================
