------------------------------ MODULE AsyncFile ------------------------------
(***************************************************************************)
(* include/async_file.hpp on one ring: coroutines that share an async_file *)
(* and ask for its size, which is looked up once with statx and cached.    *)
(*                                                                         *)
(* The cache is a structure that the kernel fills in when it completes the *)
(* statx; it is allocated, and zeroed, when the statx is started.          *)
(***************************************************************************)
EXTENDS IoService

VARIABLES
  statx,  \* *file_statx_: absent, zeroed or filled in
  kind,   \* the operation each coroutine awaits
  told    \* what size() told a coroutine last

fileVars == <<statx, kind, told>>
allVars == <<vars, fileVars>>

FileInit ==
  /\ Init
  /\ statx = "absent"
  /\ kind = [c \in Coros |-> "none"]
  /\ told = "nothing"

(***************************************************************************)
(* Mutants.  No specification uses them.                                   *)
(***************************************************************************)

\* file_statx_ is set when the statx has completed.
StartStatxLate(c) ==
  /\ statx = "absent"
  /\ kind' = [kind EXCEPT ![c] = "statx"]
  /\ UNCHANGED statx

(***************************************************************************)
(* size and file_statx.                                                    *)
(***************************************************************************)

\* size() returns stx_size of the structure as it is: 0 while it is zeroed.
SizeOf(s) == IF s = "filled" THEN "size" ELSE "zero"

\* A coroutine that runs has the answer of the size() it awaited, if it was
\* one; a size() that finds the structure there does not suspend.
Tells(c) ==
  \/ told' = IF kind[c] = "statx" THEN SizeOf(statx) ELSE told
  \/ statx # "absent" /\ told' = SizeOf(statx)

\* size() finds no structure, allocates it and starts the statx.
StartStatx(c) ==
  /\ statx = "absent"
  /\ statx' = "zeroed"
  /\ kind' = [kind EXCEPT ![c] = "statx"]

\* It goes on to its end, to a size() that suspends, or to open, read or
\* write, each of which is one operation.
GoesOn(c) ==
  \/ /\ st'[c] = "done"
     /\ kind' = [kind EXCEPT ![c] = "none"]
     /\ UNCHANGED statx
  \/ /\ st'[c] = "suspended"
     /\ StartStatx(c)
  \/ /\ st'[c] = "suspended"
     /\ kind' = [kind EXCEPT ![c] = "other"]
     /\ UNCHANGED statx

Body(c) == Tells(c) /\ GoesOn(c)

FileStart(c) == Start(c) /\ Body(c)

FileReap == Reap /\ Body(cq[reaped + 1].coro)

\* The kernel fills the structure in, or fails: open_options, which size()
\* passes on as flags of statx, are none that statx knows but O_RDONLY.
FileComplete(e) ==
  /\ Complete(e)
  /\ \/ UNCHANGED statx
     \/ kind[e.coro] = "statx" /\ statx' = "filled"
  /\ UNCHANGED <<kind, told>>

RingStep == Ring /\ UNCHANGED fileVars

FileNext ==
  \/ \E c \in Coros : FileStart(c)
  \/ FileReap \/ RingStep
  \/ Mishap /\ UNCHANGED fileVars
  \/ \E e \in inflight : FileComplete(e)

FileSpec == FileInit /\ [][FileNext]_allVars

\* The thread keeps waiting while a coroutine is suspended, as the loop of
\* start_work_thread does, and operations complete.
FairFileSpec ==
  /\ FileSpec
  /\ WF_allVars(RingStep \/ FileReap)
  /\ \A e \in Entries : WF_allVars(e \in inflight /\ FileComplete(e))
-----------------------------------------------------------------------------
\* Every variable has its type.
FileTypeOK ==
  /\ TypeOK
  /\ statx \in {"absent", "zeroed", "filled"}
  /\ kind \in [Coros -> {"none", "statx", "other"}]
  /\ told \in {"nothing", "zero", "size"}

\* However many coroutines ask, at most one statx is under way, and it writes
\* to a structure that is there and that nobody was told the size from yet:
\* once a coroutine knows the size, no other is told 0.
OneStatx ==
  /\ \A c, d \in Coros : kind[c] = "statx" /\ kind[d] = "statx" => c = d
  /\ \A e \in Outstanding : kind[e.coro] = "statx" => statx # "absent"
  /\ \A e \in inflight : kind[e.coro] = "statx" => statx = "zeroed" /\ told # "size"
  /\ told = "size" => statx = "filled"
=============================================================================
