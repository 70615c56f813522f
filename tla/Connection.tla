------------------------------ MODULE Connection ------------------------------
(***************************************************************************)
(* Connections, their file descriptors and their buffers, in the sessions  *)
(* of examples/echo_server.cpp: include/net/connection.hpp, net/socket.hpp *)
(* and buffer.hpp, with the threads that open, use and close descriptors   *)
(* (server.hpp, thread_pool.hpp, io_service.hpp).  A client sends one      *)
(* line; its session reads it, sends it back and ends.                     *)
(*                                                                         *)
(* A connection knows a number; the kernel's descriptor table says which   *)
(* socket the number stands for.  An I/O operation is prepared with the    *)
(* number and acts on the socket the number stands for when the ring is    *)
(* submitted.  ~Connection closes the number and then its member sock_     *)
(* closes it again.                                                        *)
(*                                                                         *)
(* ThreadPool has the scheduling of sessions in full; here a worker is the *)
(* cycle of four phases in which it runs coroutines and destroys them.     *)
(***************************************************************************)
EXTENDS Integers, FiniteSets

CONSTANTS Workers, \* the work threads
          NConns,  \* bound: clients that connect, numbered in that order
          Fds,     \* descriptor numbers left for connections
          BufCap,  \* capacity of a buffer
          SizeMax, \* the largest size_t
          None

\* Standard input is open, so that accept does not return descriptor 0.
ASSUME ConnectionAssumption ==
  /\ IsFiniteSet(Workers) /\ Workers # {}
  /\ NConns \in Nat
  /\ IsFiniteSet(Fds) /\ Fds \subseteq Nat \ {0}
  /\ BufCap \in Nat \ {0}
  /\ SizeMax \in Nat /\ SizeMax > BufCap
  /\ None \notin Workers \union Int

VARIABLES table,    \* the kernel's table: the socket behind each number
          serving,  \* serve is in its loop
          phase,    \* where each worker is in start_work_thread
          reaped,   \* workers that have a completion of this wait behind them
          st,       \* the session of each connection
          fd,       \* sock_->fd_
          home,     \* ios_: the worker whose ring the connection uses
          call,     \* the I/O operation it awaits
          op,       \* how far that operation is
          on,       \* the socket the operation acts on
          res,      \* what it returned
          read,     \* read_buf_: its size, and whose line it holds
          write,    \* write_buf_
          inbox     \* what has been sent to clients, by which connection

serverVars == <<table, serving>>
workerVars == <<phase, reaped>>
ioVars == <<call, op, on, res>>
bufVars == <<read, write, inbox>>
vars == <<serverVars, workerVars, st, fd, home, ioVars, bufVars>>

Conns == 1 .. NConns
Empty == [size |-> 0, line |-> None]

\* An int that becomes a size_t.
SizeT(n) == n % (SizeMax + 1)

Free == {n \in Fds : table[n] = None}

Init ==
  /\ table = [n \in Fds |-> None]
  /\ serving = TRUE
  /\ phase = [w \in Workers |-> "start"]
  /\ reaped = {}
  /\ st = [c \in Conns |-> "waiting"]
  /\ fd = [c \in Conns |-> None]
  /\ home = [c \in Conns |-> None]
  /\ op = [c \in Conns |-> "none"]
  /\ on = [c \in Conns |-> None]
  /\ call = [c \in Conns |-> "none"]
  /\ res = [c \in Conns |-> 0]
  /\ read = [c \in Conns |-> Empty]
  /\ write = [c \in Conns |-> Empty]
  /\ inbox = {}

Enter(w, p) == phase' = [phase EXCEPT ![w] = p]

\* close(n); closing a number that is not open fails without effect.
CloseFd(n) == table' = [table EXCEPT ![n] = None]

\* The suspended sessions of worker w: its coro_list.
Kept(w) == {c \in Conns : home[c] = w /\ st[c] \in {"suspended", "done", "closing"}}

(***************************************************************************)
(* Mutants.  No specification uses them.                                   *)
(***************************************************************************)

\* The connection gives its descriptor away before it is destroyed.
CloseConnectionReleased(c) ==
  /\ st[c] = "done"
  /\ phase[home[c]] = "sweep"
  /\ \A d \in Kept(home[c]) : st[d] # "closing"
  /\ st' = [st EXCEPT ![c] = "gone"]
  /\ UNCHANGED <<serverVars, workerVars, fd, home, ioVars, bufVars>>

\* The sweep destroys sessions that are not done.
CloseConnectionAny(c) ==
  /\ st[c] \in {"suspended", "done"}
  /\ phase[home[c]] = "sweep"
  /\ \A d \in Kept(home[c]) : st[d] # "closing"
  /\ table' = [table EXCEPT ![fd[c]] = None]
  /\ st' = [st EXCEPT ![c] = "closing"]
  /\ UNCHANGED <<serving, workerVars, fd, home, ioVars, bufVars>>

\* The ring is looked up by a thread number that was never set.
StartUnknownRing(c, w) ==
  /\ phase[w] = "start"
  /\ st[c] = "queued"
  /\ home' = [home EXCEPT ![c] = 0]
  /\ st' = [st EXCEPT ![c] = "suspended"]
  /\ call' = [call EXCEPT ![c] = "recv"]
  /\ op' = [op EXCEPT ![c] = "prepared"]
  /\ UNCHANGED <<serverVars, workerVars, fd, on, res, bufVars>>

\* The session does not look at what recv returned.
EchoUnchecked(c) == TRUE

(***************************************************************************)
(* The acceptor.                                                           *)
(***************************************************************************)

\* The kernel gives out the lowest free number; the session is submitted.
Accept(c) ==
  /\ serving
  /\ st[c] = "waiting"
  /\ \A d \in Conns : d < c => st[d] # "waiting"
  /\ \E n \in Free :
       /\ \A m \in Free : n <= m
       /\ fd' = [fd EXCEPT ![c] = n]
       /\ table' = [table EXCEPT ![n] = c]
  /\ st' = [st EXCEPT ![c] = "queued"]
  /\ UNCHANGED <<serving, workerVars, home, ioVars, bufVars>>

\* accept fails, in any case when no number is free: the exception leaves
\* serve.
AcceptThrows ==
  /\ serving
  /\ \E c \in Conns : st[c] = "waiting"
  /\ serving' = FALSE
  /\ UNCHANGED <<table, workerVars, st, fd, home, ioVars, bufVars>>

(***************************************************************************)
(* Workers.                                                                *)
(***************************************************************************)

\* The session awaits operation o.
Call(c, o) ==
  /\ call' = [call EXCEPT ![c] = o]
  /\ op' = [op EXCEPT ![c] = "prepared"]
  /\ st' = [st EXCEPT ![c] = "suspended"]

End(c) ==
  /\ op' = [op EXCEPT ![c] = "none"]
  /\ st' = [st EXCEPT ![c] = "done"]
  /\ UNCHANGED call

\* resume_coroutine: the session starts, with the recv of a read buffer that
\* is still empty, so that clear() does nothing.
Start(c, w) ==
  /\ phase[w] = "start"
  /\ st[c] = "queued"
  /\ home' = [home EXCEPT ![c] = w]
  /\ Call(c, "recv")
  /\ UNCHANGED <<serverVars, workerVars, fd, on, res, bufVars>>

\* io_uring_submit_and_wait: the kernel looks the numbers up.
Submit(w) ==
  LET mine == {c \in Kept(w) : op[c] = "prepared"} IN
  /\ phase[w] = "start"
  /\ Kept(w) # {}
  /\ op' = [c \in Conns |-> IF c \in mine THEN "inflight" ELSE op[c]]
  /\ on' = [c \in Conns |-> IF c \in mine THEN table[fd[c]] ELSE on[c]]
  /\ reaped' = reaped \ {w}
  /\ Enter(w, "reap")
  /\ UNCHANGED <<serverVars, st, fd, home, call, res, bufVars>>

\* The kernel completes an operation, with an error if it has no socket: it
\* reads up to BufCap bytes of the client's line, or sends some of the bytes
\* the write buffer says it has.
Complete(c) ==
  /\ op[c] = "inflight"
  /\ op' = [op EXCEPT ![c] = "completed"]
  /\ \/ /\ res' = [res EXCEPT ![c] = -1]
        /\ UNCHANGED bufVars
     \/ /\ call[c] = "recv"
        /\ on[c] # None
        /\ \E n \in 0 .. BufCap : res' = [res EXCEPT ![c] = n]
        /\ read' = [read EXCEPT ![c].line = on[c]]
        /\ UNCHANGED <<write, inbox>>
     \/ /\ call[c] = "send"
        /\ on[c] # None
        /\ \E n \in 0 .. write[c].size :
             /\ n = 0 => write[c].size = 0
             /\ res' = [res EXCEPT ![c] = n]
             /\ inbox' = inbox \union {[to |-> on[c], line |-> write[c].line, len |-> n, by |-> c]}
        /\ UNCHANGED <<read, write>>
  /\ UNCHANGED <<serverVars, workerVars, st, fd, home, call, on>>

\* bytes < 1 ends the session.
Echo(c) == res[c] >= 1

\* recv gives the read buffer its size; the session ends, or swaps the
\* buffers and awaits send.
AfterRecv(c) ==
  LET filled == [read[c] EXCEPT !.size = SizeT(res[c])] IN
  /\ call[c] = "recv"
  /\ IF Echo(c)
       THEN /\ read' = [read EXCEPT ![c] = write[c]]
            /\ write' = [write EXCEPT ![c] = filled]
            /\ Call(c, "send")
       ELSE /\ read' = [read EXCEPT ![c] = filled]
            /\ UNCHANGED write
            /\ End(c)

\* However much of the line was sent, the session ends.
AfterSend(c) ==
  /\ call[c] = "send"
  /\ End(c)
  /\ UNCHANGED <<read, write>>

Reap(c) ==
  /\ op[c] = "completed"
  /\ phase[home[c]] = "reap"
  /\ reaped' = reaped \union {home[c]}
  /\ AfterRecv(c) \/ AfterSend(c)
  /\ UNCHANGED <<serverVars, phase, fd, home, on, res, inbox>>

\* The completion queue is empty and the wait was for one completion.
StartSweep(w) ==
  /\ phase[w] = "reap"
  /\ w \in reaped
  /\ \A c \in Kept(w) : op[c] # "completed"
  /\ Enter(w, "sweep")
  /\ UNCHANGED <<serverVars, reaped, st, fd, home, ioVars, bufVars>>

\* The sweep destroys a coroutine, whose frame holds the connection: the
\* body of ~Connection.
CloseConnection(c) ==
  /\ st[c] = "done"
  /\ phase[home[c]] = "sweep"
  /\ \A d \in Kept(home[c]) : st[d] # "closing"
  /\ CloseFd(fd[c])
  /\ st' = [st EXCEPT ![c] = "closing"]
  /\ UNCHANGED <<serving, workerVars, fd, home, ioVars, bufVars>>

\* The members of the connection are destroyed: ~Socket.
CloseSocket(c) ==
  /\ st[c] = "closing"
  /\ CloseFd(fd[c])
  /\ st' = [st EXCEPT ![c] = "gone"]
  /\ UNCHANGED <<serving, workerVars, fd, home, ioVars, bufVars>>

EndSweep(w) ==
  /\ phase[w] = "sweep"
  /\ \A c \in Kept(w) : st[c] = "suspended"
  /\ Enter(w, "start")
  /\ UNCHANGED <<serverVars, reaped, st, fd, home, ioVars, bufVars>>
-----------------------------------------------------------------------------
Next ==
  \/ AcceptThrows
  \/ \E c \in Conns :
       \/ Accept(c) \/ Complete(c) \/ Reap(c) \/ CloseConnection(c) \/ CloseSocket(c)
       \/ \E w \in Workers : Start(c, w)
  \/ \E w \in Workers : Submit(w) \/ StartSweep(w) \/ EndSweep(w)

Spec == Init /\ [][Next]_vars
-----------------------------------------------------------------------------
Buffers == [size : 0 .. SizeMax, line : Conns \union {None}]

\* Every variable has its type.
TypeOK ==
  /\ table \in [Fds -> Conns \union {None}]
  /\ serving \in BOOLEAN
  /\ phase \in [Workers -> {"start", "reap", "sweep"}]
  /\ reaped \in SUBSET Workers
  /\ st \in [Conns -> {"waiting", "queued", "suspended", "done", "closing", "gone"}]
  /\ fd \in [Conns -> Fds \union {None}]
  /\ home \in [Conns -> Workers \union {None}]
  /\ op \in [Conns -> {"none", "prepared", "inflight", "completed"}]
  /\ on \in [Conns -> Conns \union {None}]
  /\ call \in [Conns -> {"none", "recv", "send"}]
  /\ res \in [Conns -> -1 .. BufCap]
  /\ read \in [Conns -> Buffers]
  /\ write \in [Conns -> Buffers]
  /\ inbox \in SUBSET [to : Conns, line : Conns, len : 1 .. BufCap, by : Conns]

\* README: the echo server's client gets the line back that it sent.
OwnLine == \A m \in inbox : m.line = m.to

\* Once a connection is destroyed no number stands for its socket, whoever
\* has closed which number in between.
DestroyedMeansClosed ==
  \A c \in Conns : st[c] = "gone" => \A n \in Fds : table[n] # c

\* A connection in use loses its socket in one way only: another connection
\* that had the same number was destroyed.  With a single close in the
\* destructors that could not happen either.
LostToDoubleClose ==
  \A c \in Conns :
    st[c] \in {"queued", "suspended", "done"} /\ table[fd[c]] # c =>
      \E d \in Conns : d # c /\ st[d] = "gone" /\ fd[d] = fd[c]

\* What a client gets is a part of the line that the connection it comes
\* from has read, never empty and never more than a buffer holds; it goes to
\* another client, or is another's line, only if a second close of the
\* connection's number came in between.
EchoesWhatItRead ==
  \A m \in inbox :
    /\ m.len \in 1 .. BufCap
    /\ m.len <= write[m.by].size
    /\ m.line # m.by \/ m.to # m.by =>
         \E d \in Conns : d # m.by /\ st[d] = "gone" /\ fd[d] = fd[m.by]
=============================================================================
