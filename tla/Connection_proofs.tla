--------------------------- MODULE Connection_proofs ---------------------------
(***************************************************************************)
(* Proofs about Connection: for any number of workers, clients and         *)
(* descriptor numbers, what becomes of a connection's socket although its  *)
(* number is closed twice, and whose bytes a client can get.               *)
(***************************************************************************)
EXTENDS Connection, TLAPS

(***************************************************************************)
(* The inductive invariant.                                                *)
(***************************************************************************)

InUse == {"queued", "suspended", "done"}
Dead == {"done", "closing", "gone"}

\* Another connection that had the number of c has been destroyed: the
\* second close of that number may have hit the socket of c.
ClosedTwice(c) == \E d \in Conns : d # c /\ st[d] = "gone" /\ fd[d] = fd[c]

\* What the life of a session says about its number, its ring, its call and
\* its buffers.
Life ==
  \A c \in Conns :
    /\ st[c] = "waiting" <=> fd[c] = None
    /\ st[c] \in {"waiting", "queued"} => home[c] = None /\ call[c] = "none"
    /\ st[c] \notin {"waiting", "queued"} => home[c] \in Workers /\ call[c] # "none"
    /\ st[c] = "suspended" <=> op[c] # "none"
    /\ call[c] # "send" => write[c] = Empty
    /\ call[c] = "send" => write[c].size \in 1 .. BufCap /\ write[c].line \in Conns
    /\ call[c] = "recv" /\ op[c] = "completed" /\ res[c] >= 1 => read[c].line \in Conns

\* A socket in the kernel's table is that of a connection in use, under the
\* connection's number.
Sockets ==
  \A n \in Fds : table[n] # None => fd[table[n]] = n /\ st[table[n]] \in InUse

\* The socket an operation acts on and the line a buffer holds are the
\* connection's own, unless its number was closed twice.
Lines ==
  \A c \in Conns : ClosedTwice(c) \/ {on[c], read[c].line, write[c].line} \subseteq {c, None}

\* Everything that was sent came out of a write buffer that is still as it was.
Sent ==
  \A m \in inbox :
    /\ call[m.by] = "send"
    /\ m.len <= write[m.by].size
    /\ ClosedTwice(m.by) \/ (m.line = m.by /\ m.to = m.by)

ConnInv == TypeOK /\ Life /\ Sockets /\ LostToDoubleClose /\ Lines /\ Sent


\* A size_t that was a size before is the same size; any other is one still.
LEMMA SizeTypes ==
  ASSUME NEW n \in -1 .. BufCap
  PROVE  SizeT(n) \in 0 .. SizeMax /\ (n >= 1 => SizeT(n) = n)
<1> USE ConnectionAssumption DEF SizeT
<1>1. CASE n = -1
  <2>1. (-1) % (SizeMax + 1) = SizeMax
    OBVIOUS
  <2>2. QED
    BY <1>1, <2>1
<1>2. CASE n >= 0
  <2>1. n \in 0 .. SizeMax
    BY <1>2
  <2>2. n % (SizeMax + 1) = n
    BY <2>1
  <2>3. QED
    BY <2>1, <2>2
<1>3. QED
  BY <1>1, <1>2

\* A connection whose number was closed twice stays one.
LEMMA TwiceStays ==
  ASSUME ConnInv,
         \A d \in Conns : st[d] = "gone" => st'[d] = "gone",
         \A d \in Conns : st[d] # "waiting" => fd'[d] = fd[d],
         NEW c \in Conns, ClosedTwice(c)
  PROVE  ClosedTwice(c)'
BY DEF ConnInv, Life, ClosedTwice

\* Initially there is no connection.
LEMMA InitConn == Init => ConnInv
<1> SUFFICES ASSUME Init PROVE ConnInv
  OBVIOUS
<1> USE ConnectionAssumption
<1>1. TypeOK
  <2>1. Empty \in Buffers
    BY DEF Empty, Buffers
  <2>2. /\ table \in [Fds -> Conns \union {None}]
        /\ phase \in [Workers -> {"start", "reap", "sweep"}]
        /\ st \in [Conns -> {"waiting", "queued", "suspended", "done", "closing", "gone"}]
        /\ fd \in [Conns -> Fds \union {None}]
        /\ home \in [Conns -> Workers \union {None}]
    BY DEF Init
  <2>3. /\ op \in [Conns -> {"none", "prepared", "inflight", "completed"}]
        /\ on \in [Conns -> Conns \union {None}]
        /\ call \in [Conns -> {"none", "recv", "send"}]
    BY DEF Init
  <2>4. res \in [Conns -> -1 .. BufCap]
    BY DEF Init
  <2>5. read \in [Conns -> Buffers] /\ write \in [Conns -> Buffers]
    BY <2>1 DEF Init
  <2>6. serving \in BOOLEAN /\ reaped \in SUBSET Workers /\ inbox = {}
    BY DEF Init
  <2>7. QED
    BY <2>2, <2>3, <2>4, <2>5, <2>6 DEF TypeOK
<1>2. Life /\ Sockets /\ Sent
  BY DEF Init, Life, Sockets, Sent, Empty
<1>3. LostToDoubleClose /\ Lines
  BY DEF Init, LostToDoubleClose, Lines, Empty
<1>4. QED
  BY <1>1, <1>2, <1>3 DEF ConnInv

(***************************************************************************)
(* Every step preserves the invariant.                                     *)
(***************************************************************************)

\* What a step that neither opens nor closes a number leaves as it was.
LEMMA NumbersStay ==
  ASSUME ConnInv, UNCHANGED <<table, fd>>,
         \A c \in Conns : st'[c] # st[c] => st[c] \in InUse /\ st'[c] \in InUse
  PROVE  /\ Sockets' /\ LostToDoubleClose'
         /\ \A c \in Conns : ClosedTwice(c) => ClosedTwice(c)'
<1>1. \A c \in Conns : /\ st'[c] = "gone" <=> st[c] = "gone"
                       /\ st'[c] \in InUse <=> st[c] \in InUse
  BY DEF InUse
<1>2. \A c \in Conns : ClosedTwice(c) <=> ClosedTwice(c)'
  BY <1>1 DEF ClosedTwice
<1>3. LostToDoubleClose'
  BY <1>1, <1>2 DEF ConnInv, LostToDoubleClose, ClosedTwice, InUse
<1>4. Sockets'
  <2>1. ASSUME NEW n \in Fds, table[n] # None
        PROVE  fd'[table[n]] = n /\ st'[table[n]] \in InUse
    <3>1. table[n] \in Conns
      BY <2>1 DEF ConnInv, TypeOK
    <3>2. QED
      BY <1>1, <2>1, <3>1 DEF ConnInv, Sockets
  <2>2. QED
    BY <2>1 DEF Sockets
<1>5. QED
  BY <1>2, <1>3, <1>4

\* Steps that touch no connection.
LEMMA QuietStep ==
  ASSUME ConnInv, TypeOK', UNCHANGED <<table, st, fd, home, ioVars, bufVars>>
  PROVE  ConnInv'
<1>1. Sockets' /\ LostToDoubleClose' /\ \A c \in Conns : ClosedTwice(c) => ClosedTwice(c)'
  BY NumbersStay
<1>2. Life'
  BY DEF ConnInv, Life, ioVars, bufVars
<1>3. Lines'
  BY <1>1 DEF ConnInv, Lines, ioVars, bufVars
<1>4. Sent'
  BY <1>1 DEF ConnInv, Sent, TypeOK, ioVars, bufVars
<1>5. QED
  BY <1>1, <1>2, <1>3, <1>4 DEF ConnInv

\* A connection is accepted: its number was free.
LEMMA AcceptStep ==
  ASSUME ConnInv, NEW c \in Conns, Accept(c)
  PROVE  ConnInv'
<1> USE ConnectionAssumption
<1> USE DEF ConnInv
<1>1. PICK n \in Free : fd' = [fd EXCEPT ![c] = n] /\ table' = [table EXCEPT ![n] = c]
  BY DEF Accept
<1>2. /\ st[c] = "waiting" /\ st' = [st EXCEPT ![c] = "queued"]
      /\ UNCHANGED <<serving, workerVars, home, ioVars, bufVars>>
      /\ n \in Fds /\ table[n] = None /\ c # None
  BY <1>1 DEF Accept, Free, Conns
<1>3. TypeOK'
  BY <1>1, <1>2 DEF TypeOK, workerVars, ioVars, bufVars
<1>4. /\ \A d \in Conns : d # c => st'[d] = st[d] /\ fd'[d] = fd[d]
      /\ st'[c] = "queued" /\ fd'[c] = n /\ fd[c] = None
      /\ \A m \in Fds : m # n => table'[m] = table[m]
      /\ table'[n] = c
  BY <1>1, <1>2 DEF TypeOK, Life
<1>5. \A d \in Conns : ClosedTwice(d) => ClosedTwice(d)'
  BY <1>2, <1>4, TwiceStays
<1>6. Life'
  BY <1>2, <1>4 DEF Life, ioVars, bufVars
<1>7. Sockets'
  <2>1. ASSUME NEW m \in Fds, table'[m] # None
        PROVE  fd'[table'[m]] = m /\ st'[table'[m]] \in InUse
    <3>1. CASE m = n
      BY <1>4, <3>1 DEF InUse
    <3>2. CASE m # n
      <4>1. table'[m] = table[m] /\ table[m] \in Conns
        BY <1>4, <2>1, <3>2 DEF TypeOK
      <4>2. table[m] # c
        BY <1>2, <2>1, <4>1 DEF Sockets, InUse
      <4>3. QED
        BY <1>4, <2>1, <4>1, <4>2 DEF Sockets
    <3>3. QED
      BY <3>1, <3>2
  <2>2. QED
    BY <2>1 DEF Sockets
<1>8. LostToDoubleClose'
  <2>1. ASSUME NEW d \in Conns, st'[d] \in InUse, table'[fd'[d]] # d
        PROVE  ClosedTwice(d)'
    <3>1. d # c
      BY <1>4, <2>1
    <3>2. st[d] \in InUse /\ fd'[d] = fd[d] /\ fd[d] \in Fds
      BY <1>4, <2>1, <3>1 DEF TypeOK, Life, InUse
    <3>3. table[fd[d]] # d
      <4>1. None \notin Conns
        BY DEF Conns
      <4>2. QED
        BY <1>2, <1>4, <2>1, <3>2, <4>1
    <3>4. ClosedTwice(d)
      BY <3>2, <3>3 DEF LostToDoubleClose, InUse, ClosedTwice
    <3>5. QED
      BY <1>5, <3>4
  <2>2. QED
    BY <2>1 DEF LostToDoubleClose, InUse, ClosedTwice
<1>9. Lines' /\ Sent'
  BY <1>2, <1>5 DEF Lines, Sent, TypeOK, ioVars, bufVars
<1>10. QED
  BY <1>3, <1>6, <1>7, <1>8, <1>9


\* A session starts on a worker.
LEMMA StartStep ==
  ASSUME ConnInv, NEW c \in Conns, NEW w \in Workers, Start(c, w)
  PROVE  ConnInv'
<1> USE ConnectionAssumption
<1> USE DEF ConnInv
<1>1. /\ st[c] = "queued" /\ st' = [st EXCEPT ![c] = "suspended"]
      /\ home' = [home EXCEPT ![c] = w]
      /\ call' = [call EXCEPT ![c] = "recv"]
      /\ op' = [op EXCEPT ![c] = "prepared"]
      /\ UNCHANGED <<serverVars, workerVars, fd, on, res, bufVars>>
  BY DEF Start, Call
<1>2. TypeOK'
  BY <1>1 DEF TypeOK, serverVars, workerVars, bufVars
<1>3. Sockets' /\ LostToDoubleClose' /\ \A d \in Conns : ClosedTwice(d) => ClosedTwice(d)'
  BY <1>1, NumbersStay DEF TypeOK, InUse, serverVars
<1>4. Life'
  BY <1>1 DEF Life, TypeOK, bufVars
<1>5. Lines'
  BY <1>1, <1>3 DEF Lines, bufVars
<1>6. Sent'
  <2>1. \A m \in inbox : m.by # c /\ m.by \in Conns
    BY <1>1 DEF Sent, Life, TypeOK
  <2>2. QED
    BY <1>1, <1>3, <2>1 DEF Sent, TypeOK, bufVars
<1>7. QED
  BY <1>2, <1>3, <1>4, <1>5, <1>6

\* The kernel looks up the numbers of the operations that were prepared.
LEMMA SubmitStep ==
  ASSUME ConnInv, NEW w \in Workers, Submit(w)
  PROVE  ConnInv'
<1> USE ConnectionAssumption
<1> USE DEF ConnInv
<1>1. PICK mine : mine = {c \in Kept(w) : op[c] = "prepared"}
  OBVIOUS
<1>2. /\ op' = [c \in Conns |-> IF c \in mine THEN "inflight" ELSE op[c]]
      /\ on' = [c \in Conns |-> IF c \in mine THEN table[fd[c]] ELSE on[c]]
      /\ reaped' = reaped \ {w} /\ phase' = [phase EXCEPT ![w] = "reap"]
      /\ UNCHANGED <<serverVars, st, fd, home, call, res, bufVars>>
  BY <1>1 DEF Submit, Enter
<1>3. \A c \in mine : /\ c \in Conns /\ op[c] = "prepared" /\ st[c] = "suspended"
                      /\ fd[c] \in Fds /\ table[fd[c]] \in Conns \union {None}
  <2>1. \A c \in mine : c \in Conns /\ op[c] = "prepared"
    BY <1>1 DEF Kept
  <2>2. \A c \in mine : st[c] = "suspended"
    BY <2>1 DEF Life
  <2>3. \A c \in mine : fd[c] \in Fds
    BY <2>1, <2>2 DEF Life, TypeOK
  <2>4. QED
    BY <2>1, <2>2, <2>3 DEF TypeOK
<1>4. TypeOK'
  <2>1. on' \in [Conns -> Conns \union {None}]
    BY <1>2, <1>3 DEF TypeOK
  <2>2. op' \in [Conns -> {"none", "prepared", "inflight", "completed"}]
    BY <1>2 DEF TypeOK
  <2>3. QED
    BY <1>2, <2>1, <2>2 DEF TypeOK, serverVars, bufVars
<1>5. Sockets' /\ LostToDoubleClose' /\ \A d \in Conns : ClosedTwice(d) => ClosedTwice(d)'
  BY <1>2, NumbersStay DEF serverVars
<1>6. Life'
  BY <1>2, <1>3 DEF Life, bufVars
<1>7. Lines'
  <2>1. \A c \in mine : table[fd[c]] # c => ClosedTwice(c)
    BY <1>3 DEF LostToDoubleClose, ClosedTwice
  <2>2. QED
    BY <1>2, <1>3, <1>5, <2>1 DEF Lines, bufVars
<1>8. Sent'
  BY <1>2, <1>5 DEF Sent, TypeOK, bufVars
<1>9. QED
  BY <1>4, <1>5, <1>6, <1>7, <1>8

\* The kernel completes an operation: a line read into the read buffer and
\* the bytes sent are those of the socket the operation acts on.
LEMMA CompleteStep ==
  ASSUME ConnInv, NEW c \in Conns, Complete(c)
  PROVE  ConnInv'
<1> USE ConnectionAssumption
<1> USE DEF ConnInv
<1>1. /\ op[c] = "inflight" /\ op' = [op EXCEPT ![c] = "completed"] /\ write' = write
      /\ UNCHANGED <<serverVars, workerVars, st, fd, home, call, on>>
  BY DEF Complete, bufVars
<1>2. Sockets' /\ LostToDoubleClose' /\ \A d \in Conns : ClosedTwice(d) => ClosedTwice(d)'
  BY <1>1, NumbersStay DEF serverVars
<1>3. CASE res' = [res EXCEPT ![c] = -1] /\ UNCHANGED bufVars
  <2>1. TypeOK'
    BY <1>1, <1>3 DEF TypeOK, serverVars, workerVars, bufVars
  <2>2. Life'
    BY <1>1, <1>3 DEF Life, TypeOK, bufVars
  <2>3. Lines' /\ Sent'
    BY <1>1, <1>2, <1>3 DEF Lines, Sent, TypeOK, bufVars
  <2>4. QED
    BY <1>2, <2>1, <2>2, <2>3
<1>4. CASE /\ call[c] = "recv" /\ on[c] # None
           /\ \E n \in 0 .. BufCap : res' = [res EXCEPT ![c] = n]
           /\ read' = [read EXCEPT ![c].line = on[c]]
           /\ inbox' = inbox
  <2>1. /\ on[c] \in Conns /\ read'[c] = [size |-> read[c].size, line |-> on[c]]
        /\ read' \in [Conns -> Buffers]
        /\ read'[c].line = on[c]
        /\ \A d \in Conns : d # c => read'[d] = read[d]
    BY <1>1, <1>4 DEF TypeOK, Buffers
  <2>2. TypeOK'
    BY <1>1, <1>4, <2>1 DEF TypeOK, serverVars, workerVars
  <2>3. Life'
    BY <1>1, <1>4, <2>1 DEF Life, TypeOK
  <2>4. Lines'
    BY <1>1, <1>2, <2>1 DEF Lines
  <2>5. Sent'
    BY <1>1, <1>2, <1>4 DEF Sent, TypeOK
  <2>6. QED
    BY <1>2, <2>2, <2>3, <2>4, <2>5
<1>5. CASE /\ call[c] = "send" /\ on[c] # None /\ read' = read
           /\ \E n \in 0 .. write[c].size :
                /\ n = 0 => write[c].size = 0
                /\ res' = [res EXCEPT ![c] = n]
                /\ inbox' = inbox \union {[to |-> on[c], line |-> write[c].line, len |-> n, by |-> c]}
  <2>1. PICK n \in 0 .. write[c].size :
             /\ n = 0 => write[c].size = 0
             /\ res' = [res EXCEPT ![c] = n]
             /\ inbox' = inbox \union {[to |-> on[c], line |-> write[c].line, len |-> n, by |-> c]}
    BY <1>5
  <2>2. /\ write[c].size \in 1 .. BufCap /\ write[c].line \in Conns
        /\ n \in 1 .. BufCap /\ n <= write[c].size /\ on[c] \in Conns
    BY <1>5, <2>1 DEF Life, TypeOK
  <2>3. PICK new : new = [to |-> on[c], line |-> write[c].line, len |-> n, by |-> c]
    OBVIOUS
  <2>4. /\ new \in [to : Conns, line : Conns, len : 1 .. BufCap, by : Conns]
        /\ new.by = c /\ new.len = n /\ new.to = on[c] /\ new.line = write[c].line
    BY <2>2, <2>3
  <2>5. inbox' = inbox \union {new}
    BY <2>1, <2>3
  <2>6. TypeOK'
    BY <1>1, <1>5, <2>1, <2>2, <2>4, <2>5 DEF TypeOK, serverVars, workerVars
  <2>7. Life'
    BY <1>1, <1>5, <2>1 DEF Life, TypeOK
  <2>8. Lines'
    BY <1>1, <1>2, <1>5 DEF Lines
  <2>9. Sent'
    <3>1. ClosedTwice(c) \/ (new.line = c /\ new.to = c)
      <4>1. write[c].line # None
        BY <2>2 DEF Conns
      <4>2. ClosedTwice(c) \/ (on[c] = c /\ write[c].line = c)
        BY <1>5, <4>1 DEF Lines
      <4>3. QED
        BY <2>4, <4>2
    <3>2. ASSUME NEW m \in inbox
          PROVE  /\ call'[m.by] = "send" /\ m.len <= write'[m.by].size
                 /\ ClosedTwice(m.by)' \/ (m.line = m.by /\ m.to = m.by)
      <4>1. m.by \in Conns
        BY DEF TypeOK
      <4>2. QED
        BY <1>1, <1>2, <4>1 DEF Sent
    <3>3. QED
      BY <1>1, <1>2, <1>5, <2>2, <2>4, <2>5, <3>1, <3>2 DEF Sent
  <2>10. QED
    BY <1>2, <2>6, <2>7, <2>8, <2>9
<1>6. QED
  BY <1>3, <1>4, <1>5 DEF Complete, bufVars

\* A session goes on after recv or after send.
LEMMA ReapStep ==
  ASSUME ConnInv, NEW c \in Conns, Reap(c)
  PROVE  ConnInv'
<1> USE ConnectionAssumption
<1> USE DEF ConnInv
<1>1. /\ op[c] = "completed" /\ reaped' = reaped \union {home[c]}
      /\ UNCHANGED <<serverVars, phase, fd, home, on, res, inbox>>
      /\ st[c] = "suspended" /\ home[c] \in Workers
  BY DEF Reap, Life
<1>2. PICK filled : filled = [read[c] EXCEPT !.size = SizeT(res[c])]
  OBVIOUS
<1>3. /\ filled \in Buffers /\ filled.size = SizeT(res[c]) /\ filled.line = read[c].line
      /\ res[c] >= 1 => filled.size \in 1 .. BufCap
  <2>1. res[c] \in -1 .. BufCap /\ read[c] \in Buffers
    BY DEF TypeOK
  <2>2. SizeT(res[c]) \in 0 .. SizeMax /\ (res[c] >= 1 => SizeT(res[c]) = res[c])
    BY <2>1, SizeTypes
  <2>3. QED
    BY <1>2, <2>1, <2>2 DEF Buffers
<1>4. CASE /\ call[c] = "recv" /\ res[c] >= 1
           /\ read' = [read EXCEPT ![c] = write[c]]
           /\ write' = [write EXCEPT ![c] = filled]
           /\ call' = [call EXCEPT ![c] = "send"]
           /\ op' = [op EXCEPT ![c] = "prepared"]
           /\ st' = [st EXCEPT ![c] = "suspended"]
  <2>1. Sockets' /\ LostToDoubleClose' /\ \A d \in Conns : ClosedTwice(d) => ClosedTwice(d)'
    BY <1>1, <1>4, NumbersStay DEF TypeOK, InUse, serverVars
  <2>2. TypeOK'
    BY <1>1, <1>3, <1>4 DEF TypeOK, serverVars
  <2>3. Life'
    BY <1>1, <1>3, <1>4 DEF Life, TypeOK
  <2>4. Lines'
    BY <1>1, <1>3, <1>4, <2>1 DEF Lines, TypeOK
  <2>5. Sent'
    <3>1. \A m \in inbox : m.by # c /\ m.by \in Conns
      BY <1>4 DEF Sent, TypeOK
    <3>2. QED
      BY <1>1, <1>4, <2>1, <3>1 DEF Sent, TypeOK
  <2>6. QED
    BY <2>1, <2>2, <2>3, <2>4, <2>5
<1>5. CASE /\ call[c] \in {"recv", "send"}
           /\ read' = read \/ read' = [read EXCEPT ![c] = filled]
           /\ op' = [op EXCEPT ![c] = "none"]
           /\ st' = [st EXCEPT ![c] = "done"]
           /\ UNCHANGED <<write, call>>
  <2>1. Sockets' /\ LostToDoubleClose' /\ \A d \in Conns : ClosedTwice(d) => ClosedTwice(d)'
    BY <1>1, <1>5, NumbersStay DEF TypeOK, InUse, serverVars
  <2>2. TypeOK'
    BY <1>1, <1>3, <1>5 DEF TypeOK, serverVars
  <2>3. Life'
    BY <1>1, <1>3, <1>5 DEF Life, TypeOK
  <2>4. Lines'
    BY <1>1, <1>3, <1>5, <2>1 DEF Lines, TypeOK
  <2>5. Sent'
    BY <1>1, <1>5, <2>1 DEF Sent, TypeOK
  <2>6. QED
    BY <2>1, <2>2, <2>3, <2>4, <2>5
<1>6. QED
  BY <1>2, <1>4, <1>5 DEF Reap, AfterRecv, AfterSend, Echo, Call, End

(***************************************************************************)
(* The two closes of a connection.                                         *)
(***************************************************************************)

\* A connection that closes its number either has its socket there or has
\* lost it before; whoever else loses a socket loses it to a second close.
LEMMA CloseStep ==
  ASSUME ConnInv, NEW c \in Conns,
         \/ CloseConnection(c)
         \/ CloseSocket(c)
  PROVE  ConnInv'
<1> USE ConnectionAssumption
<1> USE DEF ConnInv
<1>1. /\ table' = [table EXCEPT ![fd[c]] = None]
      /\ UNCHANGED <<serving, workerVars, fd, home, ioVars, bufVars>>
      /\ \/ st[c] = "done" /\ st' = [st EXCEPT ![c] = "closing"]
         \/ st[c] = "closing" /\ st' = [st EXCEPT ![c] = "gone"]
  BY DEF CloseConnection, CloseSocket, CloseFd
<1>2. /\ fd[c] \in Fds /\ table'[fd[c]] = None
      /\ \A n \in Fds : n # fd[c] => table'[n] = table[n]
      /\ \A d \in Conns : d # c => st'[d] = st[d]
      /\ st'[c] \in {"closing", "gone"} /\ (st[c] = "closing" => st'[c] = "gone")
      /\ st[c] \in {"done", "closing"}
  BY <1>1 DEF Life, TypeOK
<1>3. \A d \in Conns : ClosedTwice(d) => ClosedTwice(d)'
  BY <1>1, <1>2, TwiceStays
<1>4. TypeOK'
  BY <1>1 DEF TypeOK, workerVars, ioVars, bufVars
<1>5. Life'
  BY <1>1, <1>2 DEF Life, ioVars, bufVars
<1>6. Sockets'
  <2>1. ASSUME NEW n \in Fds, table'[n] # None
        PROVE  fd'[table'[n]] = n /\ st'[table'[n]] \in InUse
    <3>1. n # fd[c] /\ table'[n] = table[n] /\ table[n] \in Conns
      BY <1>2, <2>1 DEF TypeOK
    <3>2. fd[table[n]] = n /\ st[table[n]] \in InUse
      BY <2>1, <3>1 DEF Sockets
    <3>3. QED
      BY <1>1, <1>2, <3>1, <3>2
  <2>2. QED
    BY <2>1 DEF Sockets
<1>7. LostToDoubleClose'
  <2>1. ASSUME NEW d \in Conns, st'[d] \in InUse, table'[fd'[d]] # d
        PROVE  ClosedTwice(d)'
    <3>1. d # c /\ st[d] \in InUse /\ fd'[d] = fd[d] /\ fd[d] \in Fds
      BY <1>1, <1>2, <2>1 DEF InUse, Life, TypeOK
    <3>2. CASE fd[d] # fd[c]
      <4>1. table[fd[d]] # d
        BY <1>2, <2>1, <3>1, <3>2
      <4>2. ClosedTwice(d)
        BY <3>1, <4>1 DEF LostToDoubleClose, ClosedTwice, InUse
      <4>3. QED
        BY <1>3, <4>2
    <3>3. CASE fd[d] = fd[c] /\ st[c] = "closing"
      <4>1. st'[c] = "gone" /\ fd'[c] = fd'[d] /\ c # d
        BY <1>1, <1>2, <3>1, <3>3
      <4>2. QED
        BY <4>1 DEF ClosedTwice
    <3>4. CASE fd[d] = fd[c] /\ st[c] = "done" /\ table[fd[d]] # d
      <4>1. ClosedTwice(d)
        BY <3>1, <3>4 DEF LostToDoubleClose, ClosedTwice, InUse
      <4>2. QED
        BY <1>3, <4>1
    <3>5. CASE fd[d] = fd[c] /\ st[c] = "done" /\ table[fd[d]] = d
      <4>1. table[fd[c]] # c
        BY <3>1, <3>5
      <4>2. PICK e \in Conns : e # c /\ st[e] = "gone" /\ fd[e] = fd[c]
        BY <3>5, <4>1 DEF LostToDoubleClose
      <4>3. e # d /\ st'[e] = "gone" /\ fd'[e] = fd'[d]
        BY <1>1, <1>2, <3>1, <3>5, <4>2 DEF InUse
      <4>4. QED
        BY <4>3 DEF ClosedTwice
    <3>6. QED
      BY <1>2, <3>2, <3>3, <3>4, <3>5
  <2>2. QED
    BY <2>1 DEF LostToDoubleClose, ClosedTwice, InUse
<1>8. Lines' /\ Sent'
  BY <1>1, <1>3 DEF Lines, Sent, TypeOK, ioVars, bufVars
<1>9. QED
  BY <1>4, <1>5, <1>6, <1>7, <1>8


\* Every step preserves the invariant.
LEMMA ConnStep == ConnInv /\ [Next]_vars => ConnInv'
<1> SUFFICES ASSUME ConnInv, [Next]_vars PROVE ConnInv'
  OBVIOUS
<1>1. CASE \/ AcceptThrows
           \/ \E w \in Workers : StartSweep(w) \/ EndSweep(w)
           \/ UNCHANGED vars
  <2>1. UNCHANGED <<table, st, fd, home, ioVars, bufVars>>
    BY <1>1 DEF AcceptThrows, StartSweep, EndSweep, serverVars, vars
  <2>2. /\ serving' \in BOOLEAN /\ phase' \in [Workers -> {"start", "reap", "sweep"}]
        /\ reaped' = reaped
    BY <1>1
    DEF ConnInv, TypeOK, AcceptThrows, StartSweep, EndSweep, Enter, vars, serverVars, workerVars
  <2>3. TypeOK'
    BY <2>1, <2>2 DEF ConnInv, TypeOK, ioVars, bufVars
  <2>4. QED
    BY <2>1, <2>3, QuietStep
<1>2. ASSUME NEW c \in Conns,
             \/ Accept(c) \/ Complete(c) \/ Reap(c) \/ CloseConnection(c) \/ CloseSocket(c)
             \/ \E w \in Workers : Start(c, w)
      PROVE  ConnInv'
  BY <1>2, AcceptStep, CompleteStep, ReapStep, CloseStep, StartStep
<1>3. ASSUME NEW w \in Workers, Submit(w) PROVE ConnInv'
  BY <1>3, SubmitStep
<1>4. QED
  BY <1>1, <1>2, <1>3 DEF Next

\* Numbers, rings, calls and buffers agree in every reachable state.
THEOREM ConnInvariance == Spec => []ConnInv
BY InitConn, ConnStep, PTL DEF Spec

(***************************************************************************)
(* What follows from the invariant.                                        *)
(***************************************************************************)

\* Every variable keeps its type.
THEOREM ConnTypes == Spec => []TypeOK
BY ConnInvariance, PTL DEF ConnInv

\* A connection that is destroyed leaves no number open for its socket.
THEOREM Closed == Spec => []DestroyedMeansClosed
<1>1. ConnInv => DestroyedMeansClosed
  <2>1. SUFFICES ASSUME ConnInv, NEW c \in Conns, st[c] = "gone", NEW n \in Fds, table[n] = c
                 PROVE  FALSE
    BY DEF DestroyedMeansClosed
  <2>2. c # None
    BY ConnectionAssumption DEF Conns
  <2>3. QED
    BY <2>1, <2>2 DEF ConnInv, Sockets, InUse
<1>2. QED
  BY <1>1, ConnInvariance, PTL

\* A connection in use loses its socket only to the second close of another
\* connection that had the same number.
THEOREM Lost == Spec => []LostToDoubleClose
BY ConnInvariance, PTL DEF ConnInv

\* A client gets a part of what the connection has read, and another client's
\* only after a second close of the connection's number.
THEOREM Echoes == Spec => []EchoesWhatItRead
<1>1. ConnInv => EchoesWhatItRead
  BY DEF ConnInv, Sent, TypeOK, ClosedTwice, EchoesWhatItRead
<1>2. QED
  BY <1>1, ConnInvariance, PTL
==============================================================================
