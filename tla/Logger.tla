-------------------------------- MODULE Logger --------------------------------
(***************************************************************************)
(* The asynchronous logger of include/log/logger.hpp.  Threads write their *)
(* records into the queue; a background thread drains it into m_buf and    *)
(* writes m_buf to the files.  m_buf and m_outputs have no lock.           *)
(*                                                                         *)
(* The queue is the numbered buffer of TicketFifo, which MPMCQueue         *)
(* implements (MPMCQueue_proofs).  A record is its place.                  *)
(*                                                                         *)
(* The owner may change the files at any time.  If the background thread   *)
(* is in poll meanwhile, both use m_buf and m_outputs: a data race, which  *)
(* sets raced.  From then on what is appended may get lost, and what is    *)
(* written may not reach a file.                                           *)
(***************************************************************************)
EXTENDS Integers, Sequences, FiniteSets, Functions

CONSTANTS Users,      \* threads that log
          Bg,         \* the background thread m_bgt
          Owner,      \* the thread that configures and destroys the logger
          Files,      \* what m_outputs can hold
          Stdout,
          QCap,       \* capacity of global_q
          NRecords,   \* bound: records logged
          MaxOutputs, \* bound: entries of m_outputs
          None

ASSUME LoggerAssumption ==
  /\ IsFiniteSet(Users)
  /\ Bg # Owner /\ {Bg, Owner} \cap Users = {}
  /\ Stdout \in Files
  /\ QCap \in Nat /\ QCap > 1
  /\ NRecords \in Nat
  /\ MaxOutputs \in Nat /\ MaxOutputs > 0
  /\ None \notin Int \union Files

VARIABLES
  in, out, stored, got, open, \* global_q
  holds,    \* the place each thread has claimed and is at work on
  at,       \* what each thread is doing
  took,     \* the pollers whose try_consume_all has taken a record
  running,  \* bgt_running
  dying,    \* the destructor has begun
  next,     \* the file that setLogFile or addLogFile is about to add
  raced,    \* history: the files were changed during a background poll
  buf,      \* m_buf
  outputs,  \* m_outputs
  file      \* what was written to each file, write by write

queueVars == <<in, out, stored, got, open>>
fileVars == <<buf, outputs, file>>
vars == <<queueVars, holds, at, took, running, dying, next, raced, fileVars>>

Queue == INSTANCE TicketFifo WITH Capacity <- QCap, First <- 0, Last <- NRecords

Pollers == {Bg, Owner}
Threads == Users \union Pollers
Idle == \A u \in Users : at[u] = "idle"

\* p is in poll.
Polls(p) == at[p] \in {"drain", "consume", "write", "clear"}

\* setLogFile or addLogFile is under way.
Changing == next # None

\* The constructor starts the background thread.
Init ==
  /\ Queue!Init
  /\ holds = [t \in Threads |-> None]
  /\ at = [t \in Threads |-> IF t = Bg THEN "check" ELSE "idle"]
  /\ took = {}
  /\ running = TRUE
  /\ dying = FALSE
  /\ next = None
  /\ raced = FALSE
  /\ buf = <<>>
  /\ outputs = <<Stdout>>
  /\ file = [f \in Files |-> <<>>]

Goto(t, label) == at' = [at EXCEPT ![t] = label]

\* After poll: the background thread looks at bgt_running again, the
\* destructor goes on, and closeLogFiles closes the files.
AfterPoll(p) == IF p = Bg THEN "check" ELSE IF dying THEN "destroy" ELSE "close"

(***************************************************************************)
(* Mutants.  No specification uses them.                                   *)
(***************************************************************************)

\* The destructor does not wait for the background thread.
StopDetached ==
  /\ at[Owner] = "idle"
  /\ running
  /\ running' = FALSE
  /\ dying' \in (IF Idle THEN BOOLEAN ELSE {FALSE})
  /\ Goto(Owner, IF dying' THEN "drain" ELSE "idle")
  /\ took' = took \ {Owner}
  /\ UNCHANGED <<queueVars, holds, next, raced, fileVars>>

\* The destructor does not poll once more.
JoinWithoutPoll ==
  /\ at[Owner] = "join"
  /\ at[Bg] = "exited"
  /\ took' = took \ {Owner}
  /\ at' = [at EXCEPT ![Owner] = IF dying THEN "destroy" ELSE "idle", ![Bg] = "off"]
  /\ UNCHANGED <<queueVars, holds, running, dying, next, raced, fileVars>>

\* m_buf is not cleared after it was written.
ClearKeepsBuffer(p) ==
  /\ at[p] = "clear"
  /\ Goto(p, AfterPoll(p))
  /\ UNCHANGED <<queueVars, holds, took, running, dying, next, raced, fileVars>>

\* log claims two places for one record.
LogTwoPlaces(u) ==
  /\ at[u] = "idle"
  /\ ~dying
  /\ in < NRecords
  /\ in' = in + 2
  /\ holds' = [holds EXCEPT ![u] = in]
  /\ Goto(u, "put")
  /\ UNCHANGED <<out, stored, got, open, took, running, dying, next, raced, fileVars>>

\* The background thread polls once and ends.
CheckRunningOnce ==
  /\ at[Bg] = "check"
  /\ Goto(Bg, "exited")
  /\ UNCHANGED <<queueVars, holds, took, running, dying, next, raced, fileVars>>

(***************************************************************************)
(* Logging: emplace_with claims a place, waits for it and publishes it.    *)
(***************************************************************************)

\* A record below m_logLevel does nothing and is no step.
Log(u) ==
  /\ at[u] = "idle"
  /\ ~dying
  /\ in < NRecords
  /\ Queue!Reserve
  /\ in' = in + 1
  /\ holds' = [holds EXCEPT ![u] = in]
  /\ Goto(u, "put")
  /\ UNCHANGED <<took, running, dying, next, raced, fileVars>>

Publish(u) ==
  /\ at[u] = "put"
  /\ Queue!Put(holds[u])
  /\ holds' = [holds EXCEPT ![u] = None]
  /\ Goto(u, "idle")
  /\ UNCHANGED <<took, running, dying, next, raced, fileVars>>

(***************************************************************************)
(* poll: try_consume_all, then the write if anything was taken.            *)
(***************************************************************************)

\* The next record is there: claim it.
Claim(p) ==
  /\ at[p] = "drain"
  /\ out \in stored
  /\ Queue!Request
  /\ holds' = [holds EXCEPT ![p] = out]
  /\ Goto(p, "consume")
  /\ UNCHANGED <<took, running, dying, next, raced, fileVars>>

\* The functor appends the record to m_buf.
Consume(p) ==
  /\ at[p] = "consume"
  /\ Queue!Get(holds[p])
  /\ \/ buf' = Append(buf, holds[p])
     \/ raced /\ buf' = buf
  /\ holds' = [holds EXCEPT ![p] = None]
  /\ took' = took \union {p}
  /\ Goto(p, "drain")
  /\ UNCHANGED <<running, dying, next, raced, outputs, file>>

\* The next record is not there: try_consume_all returns.
GiveUp(p) ==
  /\ at[p] = "drain"
  /\ out \notin stored
  /\ Goto(p, IF p \in took THEN "write" ELSE AfterPoll(p))
  /\ UNCHANGED <<queueVars, holds, took, running, dying, next, raced, fileVars>>

\* m_buf goes to every entry of m_outputs.
Copies(f) == [i \in 1 .. Cardinality({j \in DOMAIN outputs : outputs[j] = f}) |-> buf]

WriteFile(p) ==
  /\ at[p] = "write"
  /\ \/ file' = [f \in Files |-> IF buf = <<>> THEN file[f] ELSE file[f] \o Copies(f)]
     \/ raced /\ file' = file
  /\ Goto(p, "clear")
  /\ UNCHANGED <<queueVars, holds, took, running, dying, next, raced, buf, outputs>>

Clear(p) ==
  /\ at[p] = "clear"
  /\ buf' = <<>>
  /\ Goto(p, AfterPoll(p))
  /\ UNCHANGED <<queueVars, holds, took, running, dying, next, raced, outputs, file>>

(***************************************************************************)
(* The background thread's loop.                                           *)
(***************************************************************************)
CheckRunning ==
  /\ at[Bg] = "check"
  /\ \/ running /\ Goto(Bg, "drain") /\ raced' = (raced \/ Changing)
     \/ ~running /\ Goto(Bg, "exited") /\ UNCHANGED raced
  /\ took' = took \ {Bg}
  /\ UNCHANGED <<queueVars, holds, running, dying, next, fileVars>>

(***************************************************************************)
(* The owner changes the files.                                            *)
(***************************************************************************)

\* setLogFile: closeLogFiles returns at once if m_buf is empty, and what is
\* in the queue goes to the new file.  If not, it polls.
SetLogFile(f) ==
  /\ at[Owner] = "idle"
  /\ next' = f
  /\ raced' = (raced \/ Polls(Bg))
  /\ Goto(Owner, IF buf = <<>> \/ outputs = <<>> THEN "replace" ELSE "drain")
  /\ took' = took \ {Owner}
  /\ UNCHANGED <<queueVars, holds, running, dying, fileVars>>

\* After poll in closeLogFiles, or without it: m_outputs is cleared.
ClearOutputs ==
  /\ at[Owner] \in {"close", "replace"}
  /\ outputs' = <<>>
  /\ Goto(Owner, "push")
  /\ UNCHANGED <<queueVars, holds, took, running, dying, next, raced, buf, file>>

AddLogFile(f) ==
  /\ at[Owner] = "idle"
  /\ Len(outputs) < MaxOutputs
  /\ next' = f
  /\ raced' = (raced \/ Polls(Bg))
  /\ Goto(Owner, "push")
  /\ UNCHANGED <<queueVars, holds, took, running, dying, fileVars>>

PushOutput ==
  /\ at[Owner] = "push"
  /\ outputs' = Append(outputs, next)
  /\ next' = None
  /\ Goto(Owner, "idle")
  /\ UNCHANGED <<queueVars, holds, took, running, dying, raced, buf, file>>

(***************************************************************************)
(* The owner stops, starts and destroys.                                   *)
(***************************************************************************)

\* stopBackgroundThread, called by itself or by the destructor.  No thread
\* logs to a logger that is being destroyed.
Stop ==
  /\ at[Owner] = "idle"
  /\ running
  /\ running' = FALSE
  /\ dying' \in (IF Idle THEN BOOLEAN ELSE {FALSE})
  /\ Goto(Owner, "join")
  /\ UNCHANGED <<queueVars, holds, took, next, raced, fileVars>>

Join ==
  /\ at[Owner] = "join"
  /\ at[Bg] = "exited"
  /\ took' = took \ {Owner}
  /\ at' = [at EXCEPT ![Owner] = IF dying THEN "drain" ELSE "idle", ![Bg] = "off"]
  /\ UNCHANGED <<queueVars, holds, running, dying, next, raced, fileVars>>

\* startBackgroundThread on a stopped logger.
Start ==
  /\ at[Owner] = "idle"
  /\ ~running
  /\ running' = TRUE
  /\ Goto(Bg, "check")
  /\ UNCHANGED <<queueVars, holds, took, dying, next, raced, fileVars>>

\* The destructor of a stopped logger polls right away.
Destroy ==
  /\ at[Owner] = "idle"
  /\ ~running
  /\ Idle
  /\ dying' = TRUE
  /\ took' = took \ {Owner}
  /\ Goto(Owner, "drain")
  /\ UNCHANGED <<queueVars, holds, running, next, raced, fileVars>>

\* closeLogFiles returns at once, since m_buf is empty (NothingLost), and the
\* members are destroyed.
DestroyMembers ==
  /\ at[Owner] = "destroy"
  /\ buf = <<>>
  /\ Queue!Close
  /\ Goto(Owner, "gone")
  /\ UNCHANGED <<holds, took, running, dying, next, raced, fileVars>>
-----------------------------------------------------------------------------
Poll(p) == Claim(p) \/ Consume(p) \/ GiveUp(p) \/ WriteFile(p) \/ Clear(p)

Next ==
  \/ \E u \in Users : Log(u) \/ Publish(u)
  \/ \E p \in Pollers : Poll(p)
  \/ \E f \in Files : SetLogFile(f) \/ AddLogFile(f)
  \/ ClearOutputs \/ PushOutput
  \/ CheckRunning \/ Stop \/ Join \/ Start \/ Destroy \/ DestroyMembers

Spec == Init /\ [][Next]_vars

\* Threads inside the logger keep running.
FairSpec ==
  /\ Spec
  /\ \A u \in Users : WF_vars(Publish(u))
  /\ \A p \in Pollers : WF_vars(Poll(p))
  /\ WF_vars(CheckRunning)
  /\ WF_vars(ClearOutputs \/ PushOutput)
  /\ WF_vars(Join)
-----------------------------------------------------------------------------
Records == 0 .. NRecords - 1

\* Every variable has its type.
TypeOK ==
  /\ in \in 0 .. NRecords
  /\ out \in 0 .. NRecords
  /\ stored \in SUBSET Records
  /\ got \in [Records -> Records \union {None}]
  /\ open \in BOOLEAN
  /\ holds \in [Threads -> Records \union {None}]
  /\ at \in [Threads -> {"idle", "put", "check", "drain", "consume", "write", "clear",
                         "exited", "off", "close", "replace", "push", "join", "destroy",
                         "gone"}]
  /\ took \in SUBSET Pollers
  /\ running \in BOOLEAN
  /\ dying \in BOOLEAN
  /\ next \in Files \union {None}
  /\ raced \in BOOLEAN
  /\ buf \in Seq(Records)
  /\ outputs \in Seq(Files) /\ Len(outputs) <= MaxOutputs
  /\ file \in [Files -> Seq(Seq(Records))]

\* m_buf and m_outputs have no lock: the destructor never polls beside the
\* background thread, and nobody but the destructor polls beside or in place
\* of it, or closes a file, unless the files were changed during its poll.
\* So closeLogFiles does nothing, or it races.
SecondPoller ==
  /\ dying /\ Polls(Owner) => ~Polls(Bg)
  /\ ~dying /\ (Polls(Owner) \/ at[Owner] = "close") => raced

Increasing(s) == \A i \in 1 .. Len(s) - 1 : s[i] < s[i + 1]

Behind(s, t) == \A i \in DOMAIN s : \A j \in DOMAIN t : s[i] < t[j]

\* The records that are in some file.
Written == UNION {UNION {Range(file[f][i]) : i \in DOMAIN file[f]} : f \in Files}

\* Without a race: each write to a file holds records in the order in which
\* log claimed their places, and lies behind the writes before it, but for a
\* file that was added more than once, which gets the same write as often;
\* what is about to be written lies behind all that is in any file.  So no
\* record is written by two polls, also when files are taken out and set
\* again.  A record that was taken from the queue and is in no file is in
\* m_buf or on its way there, and never outside a poll.
WrittenInOrder ==
  ~raced =>
    /\ \A f \in Files : \A i \in DOMAIN file[f] : Increasing(file[f][i])
    /\ \A f \in Files : \A i \in 1 .. Len(file[f]) - 1 :
         file[f][i + 1] = file[f][i] \/ Behind(file[f][i], file[f][i + 1])
    /\ Increasing(buf)
    /\ (\A p \in Pollers : at[p] # "clear") =>
         \A f \in Files : \A i \in DOMAIN file[f] : Behind(file[f][i], buf)
    /\ Written \union Range(buf) \union {holds[p] : p \in {q \in Pollers : holds[q] # None}} = 0 .. out - 1
    /\ \A p \in Pollers : ~Polls(p) => holds[p] = None
    /\ (\A p \in Pollers : ~Polls(p)) => buf = <<>>

\* The destructor leaves nothing behind: the queue and m_buf are empty, race
\* or not, and without a race every record logged is in a file.
NothingLost ==
  at[Owner] \in {"destroy", "gone"} =>
    buf = <<>> /\ out = in /\ (~raced => Written = 0 .. in - 1)

\* While the background thread is not stopped, log gets a place, however
\* full the queue is, and without a race what it logs gets written.
RecordsWritten == \A i \in 0 .. NRecords - 1 : in > i ~> i \in Written \/ ~running \/ raced
=============================================================================
