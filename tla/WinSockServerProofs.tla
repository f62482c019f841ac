------------------------- MODULE WinSockServerProofs -------------------------
(***************************************************************************)
(* Theorems about WinSockServer, for any threads, clients and connections: *)
(* a connection is in one place at a time, in a thread's hand or under one *)
(* operation, and its buffers hold data of the client it serves, as long   *)
(* as no thread takes up a connection another has not finished with.       *)
(***************************************************************************)
EXTENDS WinSockServer, FiniteSetTheorems, TLAPS

\* What a thread does with a connection in its hand.
Busy == {"switchData", "switch", "zero", "reset", "accept", "read"}

Operations == [conn : Conn \cup {Acceptor}, op : {"accept", "read", "write", "disconnect"},
               some : BOOLEAN]
Packets == [conn : Conn \cup {Acceptor}, op : {"accept", "read", "write", "disconnect"},
            res : Result]

ThreadsOK ==
  /\ pc \in [Thread -> Busy \cup Ended \cup {"wait"}]
  /\ hand \in [Thread -> Conn \cup {None}]
  /\ op \in [Thread -> State]

ObjectsOK ==
  /\ state \in [Conn -> State]
  /\ rbuf \in [Conn -> SUBSET Peer] /\ rest \in [Conn -> SUBSET Peer]
  /\ wbuf \in [Conn -> SUBSET Peer]
  /\ newConn \in Conn /\ avail \subseteq Conn /\ created \subseteq Conn

KernelOK ==
  /\ posted \subseteq Operations /\ port \subseteq Packets
  /\ peer \in [Conn -> Peer \cup {None}]
  /\ waiting \subseteq Peer

RestOK ==
  /\ exits \in Nat /\ mpc \in {"key", "join", "returned"}
  /\ came \subseteq Peer /\ acts \in Nat
  /\ unread \subseteq Peer /\ fin \subseteq Peer /\ rst \subseteq Peer
  /\ aborted \in BOOLEAN /\ overlap \in BOOLEAN
  /\ nuls \subseteq Peer /\ wipedRead \subseteq Peer \cup {None} /\ wipedWrite \subseteq Conn

TypeOK == ThreadsOK /\ ObjectsOK /\ KernelOK /\ RestOK

\* What a thread posts is an operation.
LEMMA OperationType ==
  ASSUME NEW c \in Conn \cup {Acceptor}, NEW s \in BOOLEAN,
         NEW o \in {"accept", "read", "write", "disconnect"}
  PROVE  Operation(c, o, s) \in Operations
  BY DEF Operation, Operations

\* Stop posts a packet for each of finitely many threads.
LEMMA ThreadCount == Cardinality(Thread) \in Nat
  BY WinThreads, FS_CardinalityType

\* What is under way on c, with the kernel or in the port: at most operation o.
OnlyOp(c, o) ==
  /\ \A r \in posted : r.conn = c => r.op = o
  /\ \A k \in port : k.conn = c => k.op = o

Idle(c) ==
  /\ \A r \in posted : r.conn # c
  /\ \A k \in port : k.conn # c

Free(c) == \A t \in Thread : hand[t] # c

\* Operations and packets are what the kernel makes of each other.
ShapeInv ==
  /\ \A r \in posted : r.conn = Acceptor <=> r.op = "accept"
  /\ \A k \in port : /\ k.conn = Acceptor <=> k.op = "accept"
                     /\ k.op = "accept" => k.res = "none"
                     /\ k.res = "some" => k.op \in {"read", "write"}

\* One operation or packet at a time, for each connection and for the acceptor.
JobInv ==
  ~overlap =>
    /\ \A r, q \in posted : r.conn = q.conn => r = q
    /\ \A k, l \in port : k.conn = l.conn => k = l
    /\ \A r \in posted, k \in port : r.conn # k.conn

\* A connection is in at most one hand.
HandInv ==
  /\ \A t \in Thread : hand[t] # None <=> pc[t] \in Busy
  /\ ~overlap => \A t, u \in Thread : hand[t] = hand[u] /\ hand[t] # None => t = u

\* What is true of the connection in a thread's hand, by where the thread is.
Stage(t) ==
  /\ pc[t] = "accept" => Idle(Acceptor)
  /\ pc[t] \in Busy => (pc[t] = "accept" <=> hand[t] = newConn)
  /\ pc[t] \in Busy => (pc[t] = "reset" <=> hand[t] \in avail)
  /\ pc[t] = "reset" => Idle(hand[t])
  /\ pc[t] = "read" => /\ Idle(hand[t])
                       /\ peer[hand[t]] \in Peer
  /\ pc[t] \in {"switch", "switchData"} => OnlyOp(hand[t], op[t])
  /\ pc[t] = "switchData" => op[t] \in {"read", "write"}
  /\ pc[t] = "zero" => /\ OnlyOp(hand[t], state[hand[t]])
                       /\ state[hand[t]] \in {"read", "write"}
StageInv == ~overlap => \A t \in Thread : Stage(t)

\* A connection in no hand expects what is under way on it; one that is
\* available, or not made yet, has nothing under way and no client; the one that
\* waits to be accepted is as good as new.
ConnInv ==
  ~overlap =>
    /\ \A c \in Conn : Free(c) => OnlyOp(c, state[c])
    /\ \A c \in Conn : c \in avail \/ c \notin created => Idle(c) /\ peer[c] = None
    /\ \A c \in Conn : c \in avail /\ Free(c) => state[c] = "initial"
    /\ \A c \in Conn : c \notin created => Free(c) /\ state[c] = "initial"
    /\ avail \cup {newConn} \subseteq created
    /\ newConn \notin avail /\ Idle(newConn) /\ state[newConn] = "initial"
    /\ ~Idle(Acceptor) => \A t \in Thread : pc[t] # "accept"

\* Who is at the other end.
PeerInv ==
  ~overlap =>
    /\ \A r \in posted : r.op \in {"read", "write"} => peer[r.conn] \in Peer
    /\ \A k \in port : k.op \in {"read", "write"} => peer[k.conn] \in Peer
    /\ \A k \in port : k.op = "accept" => peer[newConn] \in Peer
    /\ \A t \in Thread : pc[t] = "accept" => peer[newConn] \in Peer
    /\ \A k \in port : k.op = "disconnect" /\ k.res = "none" => peer[k.conn] = None

\* Clients of whom bytes may have stayed in m_readBuf, or whose answers may have
\* been of no bytes.
Leavers == nuls \cup wipedRead

\* No thread is between posting an operation on c and zeroing a buffer of c.
Settled(c) == \A t \in Thread : hand[t] = c => pc[t] \notin {"switchData", "zero"}

\* When a connection begins to read, when it has read an end of file, when it
\* answers with no bytes, disconnects, or serves nobody, m_readBuf begins with a
\* zero.
EmptyInv ==
  ~overlap =>
    /\ \A c \in Conn : c \in avail \/ c \notin created \/ c = newConn => rbuf[c] = {}
    /\ \A t \in Thread : pc[t] \in {"accept", "read"} => rbuf[hand[t]] = {}
    /\ \A r \in posted : r.op = "read" /\ Settled(r.conn) => rbuf[r.conn] = {}
    /\ \A k \in port : k.op = "read" /\ k.res = "none" /\ Settled(k.conn) => rbuf[k.conn] = {}
    /\ \A r \in posted :
         r.op = "disconnect" \/ (r.op = "write" /\ ~r.some) => rbuf[r.conn] = {}
    /\ \A k \in port :
         k.op = "disconnect" \/ (k.op = "write" /\ k.res = "none") => rbuf[k.conn] = {}

\* Whose bytes are in m_readBuf: the client's, and those of leavers.
BytesInv ==
  ~overlap => \A c \in Conn : /\ rest[c] \subseteq Leavers
                              /\ rbuf[c] \subseteq {peer[c]} \cup Leavers

\* What a read that ended without data, a write of no bytes and a disconnect are
\* evidence of, and whose data is in the buffers.
ReadData ==
  \A k \in port : k.op = "read" /\ k.res = "some" =>
                    \/ peer[k.conn] \in rbuf[k.conn]
                    \/ rbuf[k.conn] = {} /\ peer[k.conn] \in Leavers
DataInv ==
  ~overlap =>
    /\ ReadData
    /\ \A k \in port : k.op = "read" /\ k.res = "none" => peer[k.conn] \in fin
    /\ \A r \in posted : r.op = "write" /\ ~r.some => peer[r.conn] \in Leavers
    /\ \A k \in port : k.op = "write" /\ k.res = "none" => peer[k.conn] \in Leavers
    /\ \A r \in posted : r.op = "disconnect" => peer[r.conn] \in fin \cup Leavers
    /\ \A r \in posted :
         r.op = "write" /\ r.some =>
           /\ peer[r.conn] \in wbuf[r.conn] \/ r.conn \in wipedWrite
           /\ wbuf[r.conn] \subseteq {peer[r.conn]} \cup Leavers

IInv ==
  /\ TypeOK /\ ShapeInv /\ JobInv /\ HandInv /\ StageInv /\ ConnInv /\ PeerInv
  /\ EmptyInv /\ BytesInv /\ DataInv /\ AssertNeedsOverlap

-----------------------------------------------------------------------------
(* What a portion does to m_readBuf. *)

\* It begins with bytes of the client or, after a zero byte, with none; what was
\* there may follow.
LEMMA Received ==
  ASSUME TypeOK, NEW c \in Conn, peer[c] \in Peer, Plain(c) \/ WithNul(c)
  PROVE  \E B, T \in SUBSET Peer :
           /\ rbuf' = [rbuf EXCEPT ![c] = B] /\ rest' = [rest EXCEPT ![c] = T]
           /\ nuls' \in {nuls, nuls \cup {peer[c]}}
           /\ B \subseteq {peer[c]} \cup rbuf[c] \cup rest[c]
           /\ T \subseteq {peer[c]} \cup rbuf[c] \cup rest[c]
           /\ T = rest[c] \/ peer[c] \in nuls'
           /\ peer[c] \in B \/ (B = {} /\ peer[c] \in nuls')
<1>1. rbuf[c] \in SUBSET Peer /\ rest[c] \in SUBSET Peer
  BY DEF TypeOK, ObjectsOK
<1>2. CASE Plain(c)
  <2>1. PICK S \in SUBSET (rbuf[c] \cup rest[c]) : rbuf' = [rbuf EXCEPT ![c] = {peer[c]} \cup S]
    BY <1>2 DEF Plain
  <2>2. rest' = [rest EXCEPT ![c] = rest[c]] /\ nuls' = nuls
    BY <1>2 DEF Plain, TypeOK, ObjectsOK
  <2>3. {peer[c]} \cup S \in SUBSET Peer
    BY <1>1
  <2> QED BY <1>1, <2>1, <2>2, <2>3
<1>3. CASE WithNul(c)
  <2>1. PICK S \in SUBSET {peer[c]} : rbuf' = [rbuf EXCEPT ![c] = S]
    BY <1>3 DEF WithNul
  <2>2. /\ rest' = [rest EXCEPT ![c] = rest[c] \cup rbuf[c] \cup {peer[c]}]
        /\ nuls' = nuls \cup {peer[c]}
    BY <1>3 DEF WithNul
  <2>3. S \in SUBSET Peer /\ rest[c] \cup rbuf[c] \cup {peer[c]} \in SUBSET Peer
    BY <1>1
  <2>4. peer[c] \in nuls' /\ (peer[c] \in S \/ S = {})
    BY <2>1, <2>2
  <2> DEFINE T == rest[c] \cup rbuf[c] \cup {peer[c]}
  <2>5. T \in SUBSET Peer /\ T \subseteq {peer[c]} \cup rbuf[c] \cup rest[c]
    BY <2>3
  <2> QED BY <2>1, <2>2, <2>3, <2>4, <2>5
<1> QED BY <1>2, <1>3

-----------------------------------------------------------------------------
(* Types. *)

\* A thread is where the code has a place, with one of the connections or none.
LEMMA ThreadsStep ==
  ASSUME TypeOK, ShapeInv, [Next]_vars
  PROVE  ThreadsOK'
<1> USE WinNulls DEF vars, threads, objects, kernel, clients, history, Runs, Operation,
    Packet, Result, Busy, Ended, State, Operations, Packets, ShapeInv, TypeOK, ThreadsOK,
    ObjectsOK, KernelOK
<1>1. ASSUME NEW p \in Peer, ClientStep(p)
     PROVE  ThreadsOK'
  BY <1>1 DEF ClientStep, Connect, Send, Close, Reset
<1>2. CASE CompleteAccept
  BY <1>2 DEF CompleteAccept, Complete, AcceptOp
<1>3. ASSUME NEW c \in Conn, Receive(c) \/ Transmit(c) \/ Disconnected(c) \/ Fail(c)
     PROVE  ThreadsOK'
  BY <1>3 DEF Receive, Plain, WithNul, Complete, Transmit, Disconnected, Fail
<1>4. ASSUME NEW t \in Thread, NEW k \in port, TakeRead(t, k) \/ TakeWritten(t, k)
       \/ TakeClosed(t, k)
     PROVE  ThreadsOK'
  BY <1>4 DEF TakeRead, Take, Waits, Post, Held, TakeWritten, TakeClosed
<1>5. ASSUME NEW t \in Thread, NEW k \in port, TakeDisconnected(t, k)
       \/ TakeAccepted(t, k) \/ TakeAsserts(t, k) \/ TakeThrows(t, k)
     PROVE  ThreadsOK'
  BY <1>5 DEF TakeDisconnected, Take, Waits, Held, TakeAccepted, TakeAsserts, TakeThrows
<1>6. ASSUME NEW t \in Thread, DoAccept(t)
     PROVE  ThreadsOK'
  BY <1>6 DEF DoAccept, Get, CreateConnection, AcceptOp, Go, Held
<1>7. ASSUME NEW t \in Thread, Zero(t)
     PROVE  ThreadsOK'
  BY <1>7 DEF Zero, ZeroRead, ZeroWrite, Go
<1>8. ASSUME NEW t \in Thread, TakeExit(t) \/ Switch(t) \/ SwitchData(t)
       \/ ResetState(t) \/ DoAcceptThrows(t) \/ ReadNew(t) \/ ReadNewThrows(t)
     PROVE  ThreadsOK'
  BY <1>8 DEF TakeExit, Waits, Switch, SwitchTo, Go, SwitchData, ResetState, DoAcceptThrows,
    ReadNew, ReadNewThrows
<1>9. CASE Stop \/ Join \/ UNCHANGED vars
  BY <1>9 DEF Stop, Join
<1> QED BY <1>1, <1>2, <1>3, <1>4, <1>5, <1>6, <1>7, <1>8, <1>9 DEF Next, ThreadStep,
    PacketStep, KernelStep

\* Buffers hold data of clients, and connections come from memory there is.
LEMMA ObjectsStep ==
  ASSUME TypeOK, ShapeInv, [Next]_vars
  PROVE  ObjectsOK'
<1> USE WinNulls DEF vars, threads, objects, kernel, clients, history, Runs, Operation,
    Packet, Result, Busy, Ended, State, Operations, Packets, RestOK, ShapeInv, TypeOK,
    ThreadsOK, ObjectsOK, KernelOK
<1>1. ASSUME NEW p \in Peer, ClientStep(p)
     PROVE  ObjectsOK'
  BY <1>1 DEF ClientStep, Connect, Send, Close, Reset
<1>2. CASE CompleteAccept
  BY <1>2 DEF CompleteAccept, Complete, AcceptOp
<1>3. ASSUME NEW c \in Conn, Receive(c) \/ Transmit(c) \/ Disconnected(c) \/ Fail(c)
     PROVE  ObjectsOK'
  <2>1. CASE (Plain(c) \/ WithNul(c)) /\ Receive(c) /\ peer[c] \in Peer
    <3>1. PICK B, T \in SUBSET Peer :
            /\ rbuf' = [rbuf EXCEPT ![c] = B] /\ rest' = [rest EXCEPT ![c] = T]
            /\ nuls' \in {nuls, nuls \cup {peer[c]}}
      BY <2>1, Received
    <3> QED BY <2>1, <3>1 DEF Receive, Complete
  <2>2. CASE Receive(c) /\ UNCHANGED <<rbuf, rest, nuls>>
    BY <2>2 DEF Receive, Complete
  <2>3. CASE Transmit(c) \/ Disconnected(c) \/ Fail(c)
    BY <2>3 DEF Transmit, Disconnected, Fail, Complete
  <2>4. Receive(c) => \/ (Plain(c) \/ WithNul(c)) /\ peer[c] \in Peer
                      \/ UNCHANGED <<rbuf, rest, nuls>>
    BY DEF Receive, RestOK
  <2> QED BY <1>3, <2>1, <2>2, <2>3, <2>4
<1>4. ASSUME NEW t \in Thread, NEW k \in port, TakeRead(t, k) \/ TakeWritten(t, k)
       \/ TakeClosed(t, k)
     PROVE  ObjectsOK'
  BY <1>4 DEF TakeRead, Take, Waits, Post, Held, TakeWritten, TakeClosed
<1>5. ASSUME NEW t \in Thread, NEW k \in port, TakeDisconnected(t, k)
       \/ TakeAccepted(t, k) \/ TakeAsserts(t, k) \/ TakeThrows(t, k)
     PROVE  ObjectsOK'
  BY <1>5 DEF TakeDisconnected, Take, Waits, Held, TakeAccepted, TakeAsserts, TakeThrows
<1>6. ASSUME NEW t \in Thread, DoAccept(t)
     PROVE  ObjectsOK'
  BY <1>6 DEF DoAccept, Get, CreateConnection, AcceptOp, Go, Held
<1>7. ASSUME NEW t \in Thread, Zero(t)
     PROVE  ObjectsOK'
  BY <1>7 DEF Zero, ZeroRead, ZeroWrite, Go
<1>8. ASSUME NEW t \in Thread, TakeExit(t) \/ Switch(t) \/ SwitchData(t)
       \/ ResetState(t) \/ DoAcceptThrows(t) \/ ReadNew(t) \/ ReadNewThrows(t)
     PROVE  ObjectsOK'
  BY <1>8 DEF TakeExit, Waits, Switch, SwitchTo, Go, SwitchData, ResetState, DoAcceptThrows,
    ReadNew, ReadNewThrows
<1>9. CASE Stop \/ Join \/ UNCHANGED vars
  BY <1>9 DEF Stop, Join
<1> QED BY <1>1, <1>2, <1>3, <1>4, <1>5, <1>6, <1>7, <1>8, <1>9 DEF Next, ThreadStep,
    PacketStep, KernelStep

\* What is posted and what is in the port have the form the kernel gives them.
LEMMA KernelTypeStep ==
  ASSUME TypeOK, ShapeInv, HandInv, [Next]_vars
  PROVE  KernelOK'
<1> USE WinNulls DEF vars, threads, objects, kernel, clients, history, Runs, Operation,
    Packet, Result, Busy, Ended, State, Operations, Packets, HandInv, ShapeInv, TypeOK,
    ThreadsOK, ObjectsOK, KernelOK
<1>1. ASSUME NEW p \in Peer, ClientStep(p)
     PROVE  KernelOK'
  BY <1>1 DEF ClientStep, Connect, Send, Close, Reset
<1>2. CASE CompleteAccept
  BY <1>2 DEF CompleteAccept, Complete, AcceptOp
<1>3. ASSUME NEW c \in Conn, Receive(c)
     PROVE  KernelOK'
  BY <1>3 DEF Receive, Plain, WithNul, Complete
<1>4. ASSUME NEW c \in Conn, Transmit(c)
     PROVE  KernelOK'
  BY <1>4 DEF Transmit, Complete
<1>5. ASSUME NEW c \in Conn, Disconnected(c)
     PROVE  KernelOK'
  BY <1>5 DEF Disconnected, Complete
<1>6. ASSUME NEW c \in Conn, Fail(c)
     PROVE  KernelOK'
  BY <1>6 DEF Fail, Complete
<1>7. ASSUME NEW t \in Thread, NEW k \in port, TakeRead(t, k)
     PROVE  KernelOK'
  <2> HIDE DEF Operation, Operations
  <2>1. Operation(k.conn, "write", (rbuf[k.conn] # {})) \in Operations
    BY <1>7, OperationType DEF TakeRead, Take, Waits, Post
  <2>2. posted' = posted \cup {Operation(k.conn, "write", (rbuf[k.conn] # {}))}
    BY <1>7 DEF TakeRead, Take, Waits, Post
  <2> QED BY <1>7, <2>1, <2>2 DEF TakeRead, Take, Waits, Post
<1>8. ASSUME NEW t \in Thread, NEW k \in port, TakeWritten(t, k)
     PROVE  KernelOK'
  <2> HIDE DEF Operation, Operations
  <2>1. Operation(k.conn, "read", TRUE) \in Operations
    BY <1>8, OperationType DEF TakeWritten, Take, Waits, Post
  <2>2. posted' = posted \cup {Operation(k.conn, "read", TRUE)}
    BY <1>8 DEF TakeWritten, Take, Waits, Post
  <2> QED BY <1>8, <2>1, <2>2 DEF TakeWritten, Take, Waits, Post
<1>9. ASSUME NEW t \in Thread, NEW k \in port, TakeClosed(t, k)
     PROVE  KernelOK'
  <2> HIDE DEF Operation, Operations
  <2>1. Operation(k.conn, "disconnect", FALSE) \in Operations
    BY <1>9, OperationType DEF TakeClosed, Take, Waits, Post
  <2>2. posted' = posted \cup {Operation(k.conn, "disconnect", FALSE)}
    BY <1>9 DEF TakeClosed, Take, Waits, Post
  <2> QED BY <1>9, <2>1, <2>2 DEF TakeClosed, Take, Waits, Post
<1>10. ASSUME NEW t \in Thread, NEW k \in port, TakeDisconnected(t, k)
       \/ TakeAccepted(t, k) \/ TakeAsserts(t, k) \/ TakeThrows(t, k)
     PROVE  KernelOK'
  BY <1>10 DEF TakeDisconnected, Take, Waits, Held, TakeAccepted, TakeAsserts, TakeThrows
<1>11. ASSUME NEW t \in Thread, DoAccept(t)
     PROVE  KernelOK'
  <2> HIDE DEF Operation, Operations
  <2>1. Operation(Acceptor, "accept", FALSE) \in Operations
    BY <1>11, OperationType DEF DoAccept, AcceptOp, Go
  <2>2. posted' = posted \cup {Operation(Acceptor, "accept", FALSE)}
    BY <1>11 DEF DoAccept, AcceptOp, Go
  <2> QED BY <1>11, <2>1, <2>2 DEF DoAccept, AcceptOp, Go
<1>12. ASSUME NEW t \in Thread, Zero(t)
     PROVE  KernelOK'
  BY <1>12 DEF Zero, ZeroRead, ZeroWrite, Go
<1>13. ASSUME NEW t \in Thread, ReadNew(t)
     PROVE  KernelOK'
  <2> HIDE DEF Operation, Operations
  <2>1. Operation(hand[t], "read", TRUE) \in Operations
    BY <1>13, OperationType DEF ReadNew, Go
  <2>2. posted' = posted \cup {Operation(hand[t], "read", TRUE)}
    BY <1>13 DEF ReadNew, Go
  <2> QED BY <1>13, <2>1, <2>2 DEF ReadNew, Go
<1>14. ASSUME NEW t \in Thread, TakeExit(t) \/ Switch(t) \/ SwitchData(t)
       \/ ResetState(t) \/ DoAcceptThrows(t) \/ ReadNewThrows(t)
     PROVE  KernelOK'
  BY <1>14 DEF TakeExit, Waits, Switch, SwitchTo, Go, SwitchData, ResetState, DoAcceptThrows,
    ReadNewThrows
<1>15. CASE Stop \/ Join \/ UNCHANGED vars
  BY <1>15 DEF Stop, Join
<1> QED BY <1>1, <1>2, <1>3, <1>4, <1>5, <1>6, <1>7, <1>8, <1>9, <1>10, <1>11, <1>12,
    <1>13, <1>14, <1>15 DEF Next, ThreadStep, PacketStep, KernelStep

\* Counters, flags and what clients did keep their types.
LEMMA RestStep ==
  ASSUME TypeOK, HandInv, [Next]_vars
  PROVE  RestOK'
<1> USE WinNulls DEF vars, threads, objects, kernel, clients, history, Runs, Operation,
    Packet, Result, Busy, Ended, State, Operations, Packets, TypeOK, RestOK, ObjectsOK
<1>1. ASSUME NEW p \in Peer, ClientStep(p)
     PROVE  RestOK'
  <2>1. CASE Connect(p)
    BY <2>1 DEF Connect
  <2>2. CASE Send(p)
    BY <2>2 DEF Send
  <2>3. CASE Close(p)
    BY <2>3 DEF Close
  <2>4. CASE Reset(p)
    BY <2>4 DEF Reset
  <2> QED BY <1>1, <2>1, <2>2, <2>3, <2>4 DEF ClientStep
<1>2. CASE CompleteAccept
  BY <1>2 DEF CompleteAccept, Complete, AcceptOp
<1>3. ASSUME NEW c \in Conn, Receive(c) \/ Transmit(c) \/ Disconnected(c) \/ Fail(c)
     PROVE  RestOK'
  <2>1. CASE (Plain(c) \/ WithNul(c)) /\ Receive(c) /\ peer[c] \in Peer
    <3>1. PICK B, T \in SUBSET Peer :
            /\ rbuf' = [rbuf EXCEPT ![c] = B] /\ rest' = [rest EXCEPT ![c] = T]
            /\ nuls' \in {nuls, nuls \cup {peer[c]}}
      BY <2>1, Received
    <3> QED BY <2>1, <3>1 DEF Receive, Complete
  <2>2. CASE Receive(c) /\ UNCHANGED <<rbuf, rest, nuls>>
    BY <2>2 DEF Receive, Complete
  <2>3. CASE Transmit(c) \/ Disconnected(c) \/ Fail(c)
    BY <2>3 DEF Transmit, Disconnected, Fail, Complete
  <2>4. Receive(c) => \/ (Plain(c) \/ WithNul(c)) /\ peer[c] \in Peer
                      \/ UNCHANGED <<rbuf, rest, nuls>>
    BY DEF Receive, RestOK
  <2> QED BY <1>3, <2>1, <2>2, <2>3, <2>4
<1>4. ASSUME NEW t \in Thread, NEW k \in port, TakeRead(t, k) \/ TakeWritten(t, k)
       \/ TakeClosed(t, k)
     PROVE  RestOK'
  BY <1>4 DEF TakeRead, Take, Waits, Post, Held, TakeWritten, TakeClosed
<1>5. ASSUME NEW t \in Thread, NEW k \in port, TakeDisconnected(t, k)
       \/ TakeAccepted(t, k) \/ TakeAsserts(t, k) \/ TakeThrows(t, k)
     PROVE  RestOK'
  BY <1>5 DEF TakeDisconnected, Take, Waits, Held, TakeAccepted, TakeAsserts, TakeThrows
<1>6. ASSUME NEW t \in Thread, DoAccept(t)
     PROVE  RestOK'
  BY <1>6 DEF DoAccept, Get, CreateConnection, AcceptOp, Go, Held
<1>7. ASSUME NEW t \in Thread, Zero(t)
     PROVE  RestOK'
  <2>1. hand[t] \in Conn
    BY <1>7 DEF Zero, Go, HandInv, ThreadsOK
  <2>2. /\ wipedRead' \in {wipedRead, wipedRead \cup {peer[hand[t]]}}
        /\ wipedWrite' \in {wipedWrite, wipedWrite \cup {hand[t]}}
    BY <1>7 DEF Zero, ZeroRead, ZeroWrite
  <2>3. peer[hand[t]] \in Peer \cup {None}
    BY <2>1 DEF KernelOK
  <2>4. UNCHANGED <<exits, mpc, came, acts, unread, fin, rst, aborted, overlap, nuls>>
    BY <1>7 DEF Zero, Go
  <2> QED BY <2>1, <2>2, <2>3, <2>4
<1>8. ASSUME NEW t \in Thread, TakeExit(t)
     PROVE  RestOK'
  BY <1>8 DEF TakeExit, Waits
<1>9. ASSUME NEW t \in Thread, Switch(t) \/ SwitchData(t) \/ ResetState(t)
       \/ DoAcceptThrows(t) \/ ReadNew(t) \/ ReadNewThrows(t)
     PROVE  RestOK'
  BY <1>9 DEF Switch, SwitchTo, Go, SwitchData, ResetState, DoAcceptThrows, ReadNew,
    ReadNewThrows
<1>10. CASE Stop \/ Join \/ UNCHANGED vars
  <2>1. CASE Stop
    BY <2>1, ThreadCount DEF Stop
  <2>2. CASE Join
    BY <2>2 DEF Join
  <2>3. CASE UNCHANGED vars
    BY <2>3
  <2> QED BY <1>10, <2>1, <2>2, <2>3
<1> QED BY <1>1, <1>2, <1>3, <1>4, <1>5, <1>6, <1>7, <1>8, <1>9, <1>10 DEF Next,
    ThreadStep, PacketStep, KernelStep

-----------------------------------------------------------------------------
(* The steps that matter, one lemma each. *)

\* A packet is taken and the next operation posted on its connection, which
\* nobody else had in hand: the operation takes the place of the packet.
LEMMA PostStep ==
  ASSUME TypeOK, ShapeInv, JobInv, HandInv, StageInv, ConnInv,
         NEW t \in Thread, NEW k \in port, k.op # "accept",
         NEW to \in {"switch", "switchData"},
         NEW o \in {"read", "write", "disconnect"}, NEW some \in BOOLEAN,
         to = "switchData" => o # "disconnect",
         Runs, Take(t, k, to), Post(t, k.conn, o, some),
         UNCHANGED <<newConn, avail, created, state>>
  PROVE  JobInv' /\ HandInv' /\ StageInv' /\ ConnInv'
<1> DEFINE c == k.conn
<1>1. c \in Conn /\ c # None /\ c # Acceptor /\ ~overlap
  BY WinNulls DEF TypeOK, KernelOK, Packets, ShapeInv, Runs
<1>2. /\ pc[t] = "wait" /\ pc' = [pc EXCEPT ![t] = to]
      /\ hand[t] = None /\ hand' = [hand EXCEPT ![t] = c]
      /\ op' = [op EXCEPT ![t] = o]
  BY DEF Take, Waits, Post, HandInv, Busy
<1>3. ~overlap' => Free(c)
  BY <1>1, <1>2 DEF Take, Waits, Held, Free
<1>4. /\ posted' = posted \cup {[conn |-> c, op |-> o, some |-> some]}
      /\ port' = port \ {k}
  BY DEF Take, Waits, Post, Operation
<1>5. /\ \A r \in posted : r.conn # c
      /\ \A l \in port' : l.conn # c
  BY <1>1, <1>4 DEF JobInv
<1>6. c # newConn /\ c \notin avail /\ c \in created
  BY <1>1 DEF ConnInv, Idle, TypeOK, KernelOK, Packets
<1> HIDE DEF c
<1>7. JobInv'
  BY <1>1, <1>4, <1>5 DEF JobInv
<1>8. HandInv'
  BY <1>1, <1>2, <1>3 DEF HandInv, TypeOK, ThreadsOK, Free, Busy
<1>9. OnlyOp(c, o)'
  BY <1>4, <1>5 DEF OnlyOp
<1>10. /\ \A r \in posted' : r.conn # c => r \in posted
       /\ \A l \in port' : l \in port
  BY <1>4
<1>11. StageInv'
  <2> SUFFICES ASSUME ~overlap', NEW u \in Thread
               PROVE  Stage(u)'
    BY DEF StageInv
  <2>1. CASE u = t
    BY <1>1, <1>2, <1>6, <1>9, <2>1 DEF Stage, TypeOK, ThreadsOK
  <2>2. CASE u # t
    <3>1. Stage(u) /\ hand[u] # c /\ hand[u] \in Conn \cup {None}
      BY <1>1, <1>3 DEF StageInv, Free, TypeOK, ThreadsOK
    <3>2. pc'[u] = pc[u] /\ hand'[u] = hand[u] /\ op'[u] = op[u] /\ peer' = peer
      BY <1>2, <2>2 DEF TypeOK, ThreadsOK, Take, Waits
    <3>3. pc[u] \in Busy => hand[u] \in Conn
      BY <3>1 DEF HandInv
    <3> QED BY <1>1, <1>10, <3>1, <3>2, <3>3 DEF Stage, Busy, Idle, OnlyOp
  <2> QED BY <2>1, <2>2
<1>12. ConnInv'
  <2> SUFFICES ASSUME ~overlap'
               PROVE  ConnInv'
    BY DEF ConnInv
  <2>1. Free(c) /\ ~Free(c)'
    BY <1>1, <1>2, <1>3 DEF Free, TypeOK, ThreadsOK
  <2>2. \A d \in Conn : d # c => (Free(d) <=> Free(d)')
    BY <1>1, <1>2, WinNulls DEF Free, TypeOK, ThreadsOK
  <2>3. /\ newConn \in Conn /\ avail \subseteq Conn
        /\ peer' = peer
        /\ \A u \in Thread : pc'[u] = "accept" => pc[u] = "accept"
    BY <1>2 DEF TypeOK, ObjectsOK, ThreadsOK, Take, Waits
  <2> QED BY <1>1, <1>6, <1>9, <1>10, <2>1, <2>2, <2>3 DEF ConnInv, Idle, OnlyOp
<1> QED BY <1>7, <1>8, <1>11, <1>12

\* The three callbacks that post an operation.
LEMMA TakePosts ==
  ASSUME TypeOK, ShapeInv, JobInv, HandInv, StageInv, ConnInv,
         NEW t \in Thread, NEW k \in port,
         TakeRead(t, k) \/ TakeWritten(t, k) \/ TakeClosed(t, k)
  PROVE  JobInv' /\ HandInv' /\ StageInv' /\ ConnInv'
<1>1. Runs /\ k.op # "accept"
  BY DEF TakeRead, TakeWritten, TakeClosed, Take, Waits, ShapeInv
<1>2. UNCHANGED <<newConn, avail, created, state>>
  BY DEF TakeRead, TakeWritten, TakeClosed, objects
<1>3. CASE TakeRead(t, k)
  <2>1. Take(t, k, "switchData") /\ Post(t, k.conn, "write", rbuf[k.conn] # {})
    BY <1>3 DEF TakeRead
  <2> QED BY <1>1, <1>2, <2>1, PostStep
<1>4. CASE TakeWritten(t, k)
  <2>1. Take(t, k, "switchData") /\ Post(t, k.conn, "read", TRUE)
    BY <1>4 DEF TakeWritten
  <2> QED BY <1>1, <1>2, <2>1, PostStep
<1>5. CASE TakeClosed(t, k)
  <2>1. Take(t, k, "switch") /\ Post(t, k.conn, "disconnect", FALSE)
    BY <1>5 DEF TakeClosed
  <2> QED BY <1>1, <1>2, <2>1, PostStep
<1> QED BY <1>3, <1>4, <1>5

\* A disconnected connection goes to the available list before it is reset, in
\* the hand of the thread that resets it.
LEMMA ReleaseStep ==
  ASSUME TypeOK, ShapeInv, JobInv, HandInv, StageInv, ConnInv, PeerInv,
         NEW t \in Thread, NEW k \in port, TakeDisconnected(t, k)
  PROVE  HandInv' /\ StageInv' /\ ConnInv'
<1> DEFINE c == k.conn
<1>1. c \in Conn /\ c # None /\ c # Acceptor /\ ~overlap
  BY WinNulls DEF TypeOK, KernelOK, Packets, TakeDisconnected, Take, Waits, Runs
<1>2. /\ pc[t] = "wait" /\ pc' = [pc EXCEPT ![t] = "reset"]
      /\ hand[t] = None /\ hand' = [hand EXCEPT ![t] = c]
      /\ avail' = avail \cup {c}
      /\ UNCHANGED <<op, state, newConn, created, posted, peer>>
  BY DEF TakeDisconnected, Take, Waits, HandInv, Busy
<1>3. ~overlap' => Free(c)
  BY <1>1, <1>2 DEF TakeDisconnected, Take, Waits, Held, Free
<1>4. /\ port' \subseteq port
      /\ \A r \in posted : r.conn # c
      /\ \A l \in port' : l.conn # c
  BY <1>1 DEF JobInv, TakeDisconnected, Take, Waits
<1>5. c # newConn /\ c \notin avail /\ c \in created
  BY <1>1 DEF ConnInv, Idle, TypeOK, KernelOK, Packets
<1>6. ~overlap' => peer[c] = None
  <2> SUFFICES ASSUME ~overlap'
               PROVE  peer[c] = None
    OBVIOUS
  <2>1. k.op = "disconnect" /\ k.res = "none"
    BY <1>1, <1>3 DEF ConnInv, OnlyOp, TakeDisconnected
  <2> QED BY <1>1, <2>1 DEF PeerInv
<1> HIDE DEF c
<1>7. HandInv'
  BY <1>1, <1>2, <1>3 DEF HandInv, TypeOK, ThreadsOK, Free, Busy
<1>8. StageInv'
  <2> SUFFICES ASSUME ~overlap', NEW u \in Thread
               PROVE  Stage(u)'
    BY DEF StageInv
  <2>1. CASE u = t
    BY <1>1, <1>2, <1>4, <1>5, <2>1 DEF Stage, Idle, TypeOK, ThreadsOK
  <2>2. CASE u # t
    <3>1. Stage(u) /\ hand[u] # c /\ hand[u] \in Conn \cup {None}
      BY <1>1, <1>3 DEF StageInv, Free, TypeOK, ThreadsOK
    <3>2. pc'[u] = pc[u] /\ hand'[u] = hand[u]
      BY <1>2, <2>2 DEF TypeOK, ThreadsOK
    <3> QED BY <1>1, <1>2, <1>4, <3>1, <3>2 DEF Stage, Idle, OnlyOp
  <2> QED BY <2>1, <2>2
<1>9. ConnInv'
  <2> SUFFICES ASSUME ~overlap'
               PROVE  ConnInv'
    BY DEF ConnInv
  <2>1. Free(c) /\ ~Free(c)' /\ Idle(c)'
    BY <1>1, <1>2, <1>3, <1>4 DEF Free, Idle, TypeOK, ThreadsOK
  <2>2. \A d \in Conn : d # c => (Free(d) <=> Free(d)')
    BY <1>1, <1>2, WinNulls DEF Free, TypeOK, ThreadsOK
  <2>3. /\ newConn \in Conn /\ avail \subseteq Conn
        /\ \A u \in Thread : pc'[u] = "accept" => pc[u] = "accept"
    BY <1>2 DEF TypeOK, ObjectsOK, ThreadsOK
  <2> QED BY <1>1, <1>2, <1>4, <1>5, <1>6, <2>1, <2>2, <2>3 DEF ConnInv, Idle, OnlyOp
<1> QED BY <1>7, <1>8, <1>9

\* The next connection to accept comes from the available list or is new: nothing
\* is under way on it, nobody has it in hand, and it is in its initial state.
LEMMA AcceptStep ==
  ASSUME TypeOK, ShapeInv, JobInv, HandInv, StageInv, ConnInv, PeerInv,
         NEW t \in Thread, DoAccept(t)
  PROVE  JobInv' /\ StageInv' /\ ConnInv'
<1>1. PICK c \in Conn : /\ Get(c) /\ newConn' = c
                        /\ overlap' = (overlap \/ Held(t, c))
  BY DEF DoAccept
<1>2. /\ pc[t] = "accept" /\ pc' = [pc EXCEPT ![t] = "read"]
      /\ hand' = hand /\ ~overlap
      /\ posted' = posted \cup {AcceptOp}
      /\ UNCHANGED <<op, state, port, peer>>
  BY DEF DoAccept, Go, Runs
<1>3. /\ hand[t] = newConn /\ Idle(Acceptor) /\ peer[newConn] \in Peer
      /\ Idle(newConn) /\ newConn \in created \ avail /\ newConn \in Conn
  BY <1>2 DEF StageInv, Stage, ConnInv, PeerInv, Busy, TypeOK, ObjectsOK
<1>4. /\ c # newConn /\ Idle(c) /\ peer[c] = None
      /\ avail' = avail \ {c} /\ created' = created \cup {c}
      /\ c \in avail \/ c \notin created
  BY <1>1, <1>2, <1>3 DEF Get, CreateConnection, ConnInv
<1>5. ~overlap' => Free(c) /\ state[c] = "initial"
  BY <1>1, <1>2, <1>3, <1>4 DEF Held, Free, ConnInv
<1>6. AcceptOp.conn = Acceptor /\ AcceptOp.op = "accept" /\ Acceptor \notin Conn
  BY WinNulls DEF AcceptOp, Operation
<1>7. JobInv'
  BY <1>2, <1>3, <1>6 DEF JobInv, Idle
<1>8. \A d \in Conn : (Idle(d) => Idle(d)') /\ \A o \in State : OnlyOp(d, o) => OnlyOp(d,
    o)'
  BY <1>2, <1>6 DEF Idle, OnlyOp
<1>9. StageInv'
  <2> SUFFICES ASSUME ~overlap', NEW u \in Thread
               PROVE  Stage(u)'
    BY DEF StageInv
  <2>1. CASE u = t
    BY <1>1, <1>2, <1>3, <1>4, <1>8, <2>1 DEF Stage, TypeOK, ThreadsOK
  <2>2. CASE u # t
    <3>1. /\ Stage(u) /\ hand[u] # c
          /\ hand[u] \in Conn \cup {None} /\ (pc[u] \in Busy => hand[u] # None)
          /\ op[u] \in State /\ (hand[u] \in Conn => state[hand[u]] \in State)
      BY <1>2, <1>5 DEF StageInv, Free, HandInv, TypeOK, ThreadsOK, ObjectsOK
    <3>2. pc'[u] = pc[u] /\ hand'[u] = hand[u] /\ pc[u] # "accept"
      BY <1>2, <1>3, <2>2, <3>1, WinNulls DEF TypeOK, ThreadsOK, HandInv, Stage, Busy
    <3> QED BY <1>1, <1>2, <1>4, <1>6, <3>1, <3>2 DEF Stage, Idle, OnlyOp, Busy
  <2> QED BY <2>1, <2>2
<1>10. ConnInv'
  <2> SUFFICES ASSUME ~overlap'
               PROVE  ConnInv'
    BY DEF ConnInv
  <2>1. \A d \in Conn : Free(d) <=> Free(d)'
    BY <1>2 DEF Free
  <2>2. \A u \in Thread : pc'[u] # "accept"
    <3> SUFFICES ASSUME NEW u \in Thread, pc'[u] = "accept"
                 PROVE  FALSE
      OBVIOUS
    <3>1. pc[u] = "accept" /\ u # t
      BY <1>2 DEF TypeOK, ThreadsOK
    <3>2. hand[u] = newConn
      BY <1>2, <3>1 DEF StageInv, Stage, Busy
    <3> QED BY <1>2, <1>3, <3>1, <3>2, WinNulls DEF HandInv
  <2>3. \A d \in Conn : state[d] \in State
    BY DEF TypeOK, ObjectsOK
  <2> QED BY <1>1, <1>2, <1>3, <1>4, <1>5, <1>6, <2>1, <2>2, <2>3
          DEF ConnInv, Idle, OnlyOp, TypeOK, ObjectsOK
<1> QED BY <1>7, <1>9, <1>10

\* A thread starts to read from the connection it has accepted.
LEMMA ReadStep ==
  ASSUME TypeOK, JobInv, HandInv, StageInv, NEW t \in Thread, ReadNew(t)
  PROVE  JobInv'
<1>1. /\ posted' = posted \cup {[conn |-> hand[t], op |-> "read", some |-> TRUE]}
      /\ port' = port /\ overlap' = overlap /\ ~overlap
  BY DEF ReadNew, Go, Operation, objects, history, Runs
<1>2. Idle(hand[t])
  BY <1>1 DEF StageInv, Stage, ReadNew, Go
<1> DEFINE c == hand[t]
           o == [conn |-> c, op |-> "read", some |-> TRUE]
<1>3. /\ posted' = posted \cup {o} /\ o.conn = c
      /\ \A r \in posted : r.conn # c
      /\ \A k \in port : k.conn # c
  BY <1>1, <1>2 DEF Idle
<1> HIDE DEF c, o
<1> QED BY <1>1, <1>3 DEF JobInv

\* assert(dataExchange) fails on a packet taken while the connection was in
\* another hand: otherwise m_curState is what the packet is of.
LEMMA AssertsStep ==
  ASSUME TypeOK, ShapeInv, HandInv, ConnInv, NEW t \in Thread, NEW k \in port,
    TakeAsserts(t, k)
  PROVE  AssertNeedsOverlap'
<1> SUFFICES ASSUME ~overlap'
             PROVE  FALSE
  BY DEF AssertNeedsOverlap
<1>1. k.conn \in Conn /\ k.op \in {"read", "write"} /\ ~overlap
  BY DEF TakeAsserts, Take, Waits, Runs, ShapeInv, TypeOK, KernelOK, Packets
<1>2. Free(k.conn)
  BY <1>1, WinNulls DEF TakeAsserts, Take, Waits, Held, Free, HandInv, Busy
<1>3. state[k.conn] = k.op
  BY <1>1, <1>2 DEF ConnInv, OnlyOp
<1> QED BY <1>1, <1>3 DEF TakeAsserts
-----------------------------------------------------------------------------
(* Every step keeps the invariant: one lemma for each of its parts. *)

\* An operation becomes a packet of the same kind, with a result it can have.
LEMMA ShapeStep ==
  ASSUME TypeOK, ShapeInv, JobInv, StageInv, HandInv, [Next]_vars
  PROVE  ShapeInv'
<1> USE WinNulls DEF vars, threads, objects, kernel, clients, history, Runs, Operation,
    Packet, Result, Busy, Ended, State, Operations, Packets, TypeOK, ThreadsOK, ObjectsOK,
    KernelOK, RestOK, ShapeInv, HandInv, StageInv, Stage
<1>1. ASSUME NEW p \in Peer, ClientStep(p)
     PROVE  ShapeInv'
  BY <1>1 DEF ClientStep, Connect, Send, Close, Reset
<1>2. CASE CompleteAccept
  BY <1>2 DEF CompleteAccept, Complete, AcceptOp
<1>3. ASSUME NEW c \in Conn, Receive(c)
     PROVE  ShapeInv'
  BY <1>3 DEF Receive, Plain, WithNul, Complete
<1>4. ASSUME NEW c \in Conn, Transmit(c)
     PROVE  ShapeInv'
  BY <1>4 DEF Transmit, Complete
<1>5. ASSUME NEW c \in Conn, Disconnected(c)
     PROVE  ShapeInv'
  BY <1>5 DEF Disconnected, Complete
<1>6. ASSUME NEW c \in Conn, Fail(c)
     PROVE  ShapeInv'
  BY <1>6 DEF Fail, Complete
<1>7. ASSUME NEW t \in Thread, NEW k \in port, TakeRead(t, k) \/ TakeWritten(t, k)
       \/ TakeClosed(t, k)
     PROVE  ShapeInv'
  BY <1>7 DEF TakeRead, Take, Waits, Post, Held, TakeWritten, TakeClosed
<1>8. ASSUME NEW t \in Thread, NEW k \in port, TakeDisconnected(t, k)
       \/ TakeAccepted(t, k) \/ TakeAsserts(t, k) \/ TakeThrows(t, k)
     PROVE  ShapeInv'
  BY <1>8 DEF TakeDisconnected, Take, Waits, Held, TakeAccepted, TakeAsserts, TakeThrows
<1>9. ASSUME NEW t \in Thread, DoAccept(t)
     PROVE  ShapeInv'
  BY <1>9 DEF DoAccept, Get, CreateConnection, AcceptOp, Go, Held
<1>10. ASSUME NEW t \in Thread, Zero(t)
     PROVE  ShapeInv'
  BY <1>10 DEF Zero, ZeroRead, ZeroWrite, Go
<1>11. ASSUME NEW t \in Thread, TakeExit(t) \/ Switch(t) \/ SwitchData(t)
       \/ ResetState(t) \/ DoAcceptThrows(t) \/ ReadNew(t) \/ ReadNewThrows(t)
     PROVE  ShapeInv'
  BY <1>11 DEF TakeExit, Waits, Switch, SwitchTo, Go, SwitchData, ResetState, DoAcceptThrows,
    ReadNew, ReadNewThrows
<1>12. CASE Stop \/ Join \/ UNCHANGED vars
  BY <1>12 DEF Stop, Join
<1> QED BY <1>1, <1>2, <1>3, <1>4, <1>5, <1>6, <1>7, <1>8, <1>9, <1>10, <1>11,
    <1>12 DEF Next, ThreadStep, PacketStep, KernelStep

\* A thread posts when nothing is under way on the connection, or instead of the
\* packet it has just taken.
LEMMA JobStep ==
  ASSUME TypeOK, ShapeInv, JobInv, HandInv, StageInv, ConnInv, PeerInv, [Next]_vars
  PROVE  JobInv'
<1>1. ASSUME NEW t \in Thread, NEW k \in port, TakeRead(t, k) \/ TakeWritten(t, k)
       \/ TakeClosed(t, k)
     PROVE  JobInv'
  BY <1>1, TakePosts
<1>2. ASSUME NEW t \in Thread, DoAccept(t)
     PROVE  JobInv'
  BY <1>2, AcceptStep
<1>3. ASSUME NEW t \in Thread, ReadNew(t)
     PROVE  JobInv'
  BY <1>3, ReadStep
<1> USE WinNulls DEF vars, threads, objects, kernel, clients, history, Runs, Operation,
    Packet, Result, Busy, Ended, State, Operations, Packets, TypeOK, ThreadsOK, ObjectsOK,
    KernelOK, RestOK, ShapeInv, JobInv, HandInv, StageInv, Stage, ConnInv, Idle, OnlyOp,
    Free
<1>4. ASSUME NEW p \in Peer, ClientStep(p)
     PROVE  JobInv'
  BY <1>4 DEF ClientStep, Connect, Send, Close, Reset
<1>5. CASE CompleteAccept
  BY <1>5 DEF CompleteAccept, Complete, AcceptOp
<1>6. ASSUME NEW c \in Conn, Receive(c)
     PROVE  JobInv'
  BY <1>6 DEF Receive, Plain, WithNul, Complete
<1>7. ASSUME NEW c \in Conn, Transmit(c)
     PROVE  JobInv'
  BY <1>7 DEF Transmit, Complete
<1>8. ASSUME NEW c \in Conn, Disconnected(c)
     PROVE  JobInv'
  BY <1>8 DEF Disconnected, Complete
<1>9. ASSUME NEW c \in Conn, Fail(c)
     PROVE  JobInv'
  BY <1>9 DEF Fail, Complete
<1>10. ASSUME NEW t \in Thread, NEW k \in port, TakeDisconnected(t, k)
       \/ TakeAccepted(t, k) \/ TakeAsserts(t, k) \/ TakeThrows(t, k)
     PROVE  JobInv'
  BY <1>10 DEF TakeDisconnected, Take, Waits, Held, TakeAccepted, TakeAsserts, TakeThrows
<1>11. ASSUME NEW t \in Thread, Zero(t)
     PROVE  JobInv'
  BY <1>11 DEF Zero, ZeroRead, ZeroWrite, Go
<1>12. ASSUME NEW t \in Thread, TakeExit(t) \/ Switch(t) \/ SwitchData(t)
       \/ ResetState(t) \/ DoAcceptThrows(t) \/ ReadNewThrows(t)
     PROVE  JobInv'
  BY <1>12 DEF TakeExit, Waits, Switch, SwitchTo, Go, SwitchData, ResetState, DoAcceptThrows,
    ReadNewThrows
<1>13. CASE Stop \/ Join \/ UNCHANGED vars
  BY <1>13 DEF Stop, Join
<1> QED BY <1>1, <1>2, <1>3, <1>4, <1>5, <1>6, <1>7, <1>8, <1>9, <1>10, <1>11, <1>12,
    <1>13 DEF Next, ThreadStep, PacketStep, KernelStep

\* A connection is taken up by a thread only when no other has it, or it is an
\* overlap.
LEMMA HandStep ==
  ASSUME TypeOK, ShapeInv, JobInv, HandInv, StageInv, ConnInv, PeerInv, [Next]_vars
  PROVE  HandInv'
<1>1. ASSUME NEW t \in Thread, NEW k \in port, TakeRead(t, k) \/ TakeWritten(t, k)
       \/ TakeClosed(t, k)
     PROVE  HandInv'
  BY <1>1, TakePosts
<1>2. ASSUME NEW t \in Thread, NEW k \in port, TakeDisconnected(t, k)
     PROVE  HandInv'
  BY <1>2, ReleaseStep
<1> USE WinNulls DEF vars, threads, objects, kernel, clients, history, Runs, Operation,
    Packet, Result, Busy, Ended, State, Operations, Packets, TypeOK, ThreadsOK, ObjectsOK,
    KernelOK, RestOK, ShapeInv, HandInv, StageInv, Stage, Idle
<1>3. ASSUME NEW p \in Peer, ClientStep(p)
     PROVE  HandInv'
  BY <1>3 DEF ClientStep, Connect, Send, Close, Reset
<1>4. CASE CompleteAccept
  BY <1>4 DEF CompleteAccept, Complete, AcceptOp
<1>5. ASSUME NEW c \in Conn, Receive(c)
     PROVE  HandInv'
  BY <1>5 DEF Receive, Plain, WithNul, Complete
<1>6. ASSUME NEW c \in Conn, Transmit(c)
     PROVE  HandInv'
  BY <1>6 DEF Transmit, Complete
<1>7. ASSUME NEW c \in Conn, Disconnected(c)
     PROVE  HandInv'
  BY <1>7 DEF Disconnected, Complete
<1>8. ASSUME NEW c \in Conn, Fail(c)
     PROVE  HandInv'
  BY <1>8 DEF Fail, Complete
<1>9. ASSUME NEW t \in Thread, NEW k \in port, TakeAccepted(t, k) \/ TakeAsserts(t, k)
       \/ TakeThrows(t, k)
     PROVE  HandInv'
  BY <1>9 DEF TakeAccepted, Take, Waits, Held, TakeAsserts, TakeThrows
<1>10. ASSUME NEW t \in Thread, DoAccept(t)
     PROVE  HandInv'
  BY <1>10 DEF DoAccept, Get, CreateConnection, AcceptOp, Go, Held
<1>11. ASSUME NEW t \in Thread, Zero(t)
     PROVE  HandInv'
  BY <1>11 DEF Zero, ZeroRead, ZeroWrite, Go
<1>12. ASSUME NEW t \in Thread, TakeExit(t) \/ Switch(t) \/ SwitchData(t)
       \/ ResetState(t) \/ DoAcceptThrows(t) \/ ReadNew(t) \/ ReadNewThrows(t)
     PROVE  HandInv'
  BY <1>12 DEF TakeExit, Waits, Switch, SwitchTo, Go, SwitchData, ResetState, DoAcceptThrows,
    ReadNew, ReadNewThrows
<1>13. CASE Stop \/ Join \/ UNCHANGED vars
  BY <1>13 DEF Stop, Join
<1> QED BY <1>1, <1>2, <1>3, <1>4, <1>5, <1>6, <1>7, <1>8, <1>9, <1>10, <1>11, <1>12,
    <1>13 DEF Next, ThreadStep, PacketStep, KernelStep

\* Each thread knows what is under way on its connection, whatever the others do.
LEMMA StageStep ==
  ASSUME TypeOK, ShapeInv, JobInv, HandInv, StageInv, ConnInv, PeerInv, [Next]_vars
  PROVE  StageInv'
<1>1. ASSUME NEW t \in Thread, NEW k \in port, TakeRead(t, k) \/ TakeWritten(t, k)
       \/ TakeClosed(t, k)
     PROVE  StageInv'
  BY <1>1, TakePosts
<1>2. ASSUME NEW t \in Thread, NEW k \in port, TakeDisconnected(t, k)
     PROVE  StageInv'
  BY <1>2, ReleaseStep
<1>3. ASSUME NEW t \in Thread, DoAccept(t)
     PROVE  StageInv'
  BY <1>3, AcceptStep
<1> USE WinNulls DEF vars, threads, objects, kernel, clients, history, Runs, Operation,
    Packet, Result, Busy, Ended, State, Operations, Packets, TypeOK, ThreadsOK, ObjectsOK,
    KernelOK, RestOK, ShapeInv, JobInv, HandInv, StageInv, Stage, ConnInv, PeerInv, Idle,
    OnlyOp, Free
<1>4. ASSUME NEW p \in Peer, ClientStep(p)
     PROVE  StageInv'
  BY <1>4 DEF ClientStep, Connect, Send, Close, Reset
<1>5. CASE CompleteAccept
  BY <1>5 DEF CompleteAccept, Complete, AcceptOp
<1>6. ASSUME NEW c \in Conn, Receive(c)
     PROVE  StageInv'
  BY <1>6 DEF Receive, Plain, WithNul, Complete
<1>7. ASSUME NEW c \in Conn, Transmit(c)
     PROVE  StageInv'
  BY <1>7 DEF Transmit, Complete
<1>8. ASSUME NEW c \in Conn, Disconnected(c)
     PROVE  StageInv'
  BY <1>8 DEF Disconnected, Complete
<1>9. ASSUME NEW c \in Conn, Fail(c)
     PROVE  StageInv'
  BY <1>9 DEF Fail, Complete
<1>10. ASSUME NEW t \in Thread, NEW k \in port, TakeAccepted(t, k)
       \/ TakeAsserts(t, k) \/ TakeThrows(t, k)
     PROVE  StageInv'
  BY <1>10 DEF TakeAccepted, Take, Waits, Held, TakeAsserts, TakeThrows
<1>11. ASSUME NEW t \in Thread, Zero(t)
     PROVE  StageInv'
  BY <1>11 DEF Zero, ZeroRead, ZeroWrite, Go
<1>12. ASSUME NEW t \in Thread, TakeExit(t) \/ Switch(t) \/ SwitchData(t)
       \/ ResetState(t) \/ DoAcceptThrows(t) \/ ReadNew(t) \/ ReadNewThrows(t)
     PROVE  StageInv'
  BY <1>12 DEF TakeExit, Waits, Switch, SwitchTo, Go, SwitchData, ResetState, DoAcceptThrows,
    ReadNew, ReadNewThrows
<1>13. CASE Stop \/ Join \/ UNCHANGED vars
  BY <1>13 DEF Stop, Join
<1> QED BY <1>1, <1>2, <1>3, <1>4, <1>5, <1>6, <1>7, <1>8, <1>9, <1>10, <1>11, <1>12,
    <1>13 DEF Next, ThreadStep, PacketStep, KernelStep

\* When a thread is done with a connection m_curState expects what is under way.
LEMMA ConnStep ==
  ASSUME TypeOK, ShapeInv, JobInv, HandInv, StageInv, ConnInv, PeerInv, [Next]_vars
  PROVE  ConnInv'
<1>1. ASSUME NEW t \in Thread, NEW k \in port, TakeRead(t, k) \/ TakeWritten(t, k)
       \/ TakeClosed(t, k)
     PROVE  ConnInv'
  BY <1>1, TakePosts
<1>2. ASSUME NEW t \in Thread, NEW k \in port, TakeDisconnected(t, k)
     PROVE  ConnInv'
  BY <1>2, ReleaseStep
<1>3. ASSUME NEW t \in Thread, DoAccept(t)
     PROVE  ConnInv'
  BY <1>3, AcceptStep
<1> USE WinNulls DEF vars, threads, objects, kernel, clients, history, Runs, Operation,
    Packet, Result, Busy, Ended, State, Operations, Packets, TypeOK, ThreadsOK, ObjectsOK,
    KernelOK, RestOK, ShapeInv, JobInv, HandInv, StageInv, Stage, ConnInv, PeerInv, Idle,
    OnlyOp, Free
<1>4. ASSUME NEW p \in Peer, ClientStep(p)
     PROVE  ConnInv'
  BY <1>4 DEF ClientStep, Connect, Send, Close, Reset
<1>5. CASE CompleteAccept
  BY <1>5 DEF CompleteAccept, Complete, AcceptOp
<1>6. ASSUME NEW c \in Conn, Receive(c)
     PROVE  ConnInv'
  BY <1>6 DEF Receive, Plain, WithNul, Complete
<1>7. ASSUME NEW c \in Conn, Transmit(c)
     PROVE  ConnInv'
  BY <1>7 DEF Transmit, Complete
<1>8. ASSUME NEW c \in Conn, Disconnected(c)
     PROVE  ConnInv'
  BY <1>8 DEF Disconnected, Complete
<1>9. ASSUME NEW c \in Conn, Fail(c)
     PROVE  ConnInv'
  BY <1>9 DEF Fail, Complete
<1>10. ASSUME NEW t \in Thread, NEW k \in port, TakeAccepted(t, k)
       \/ TakeAsserts(t, k) \/ TakeThrows(t, k)
     PROVE  ConnInv'
  BY <1>10 DEF TakeAccepted, Take, Waits, Held, TakeAsserts, TakeThrows
<1>11. ASSUME NEW t \in Thread, Zero(t)
     PROVE  ConnInv'
  BY <1>11 DEF Zero, ZeroRead, ZeroWrite, Go
<1>12. ASSUME NEW t \in Thread, TakeExit(t) \/ Switch(t) \/ SwitchData(t)
       \/ ResetState(t) \/ DoAcceptThrows(t) \/ ReadNew(t) \/ ReadNewThrows(t)
     PROVE  ConnInv'
  BY <1>12 DEF TakeExit, Waits, Switch, SwitchTo, Go, SwitchData, ResetState, DoAcceptThrows,
    ReadNew, ReadNewThrows
<1>13. CASE Stop \/ Join \/ UNCHANGED vars
  BY <1>13 DEF Stop, Join
<1> QED BY <1>1, <1>2, <1>3, <1>4, <1>5, <1>6, <1>7, <1>8, <1>9, <1>10, <1>11, <1>12,
    <1>13 DEF Next, ThreadStep, PacketStep, KernelStep

\* The client at the other end stays until the connection is disconnected.
LEMMA PeerStep ==
  ASSUME TypeOK, ShapeInv, JobInv, HandInv, StageInv, ConnInv, PeerInv, [Next]_vars
  PROVE  PeerInv'
<1> USE WinNulls DEF vars, threads, objects, kernel, clients, history, Runs, Operation,
    Packet, Result, Busy, Ended, State, Operations, Packets, TypeOK, ThreadsOK, ObjectsOK,
    KernelOK, RestOK, ShapeInv, JobInv, HandInv, StageInv, Stage, ConnInv, PeerInv, Idle,
    OnlyOp, Free
<1>1. ASSUME NEW p \in Peer, ClientStep(p)
     PROVE  PeerInv'
  BY <1>1 DEF ClientStep, Connect, Send, Close, Reset
<1>2. CASE CompleteAccept
  BY <1>2 DEF CompleteAccept, Complete, AcceptOp
<1>3. ASSUME NEW c \in Conn, Receive(c)
     PROVE  PeerInv'
  BY <1>3 DEF Receive, Plain, WithNul, Complete
<1>4. ASSUME NEW c \in Conn, Transmit(c)
     PROVE  PeerInv'
  BY <1>4 DEF Transmit, Complete
<1>5. ASSUME NEW c \in Conn, Disconnected(c)
     PROVE  PeerInv'
  BY <1>5 DEF Disconnected, Complete
<1>6. ASSUME NEW c \in Conn, Fail(c)
     PROVE  PeerInv'
  BY <1>6 DEF Fail, Complete
<1>7. ASSUME NEW t \in Thread, NEW k \in port, TakeRead(t, k) \/ TakeWritten(t, k)
       \/ TakeClosed(t, k)
     PROVE  PeerInv'
  BY <1>7 DEF TakeRead, Take, Waits, Post, Held, TakeWritten, TakeClosed
<1>8. ASSUME NEW t \in Thread, NEW k \in port, TakeDisconnected(t, k)
       \/ TakeAccepted(t, k) \/ TakeAsserts(t, k) \/ TakeThrows(t, k)
     PROVE  PeerInv'
  BY <1>8 DEF TakeDisconnected, Take, Waits, Held, TakeAccepted, TakeAsserts, TakeThrows
<1>9. ASSUME NEW t \in Thread, DoAccept(t)
     PROVE  PeerInv'
  BY <1>9 DEF DoAccept, Get, CreateConnection, AcceptOp, Go, Held
<1>10. ASSUME NEW t \in Thread, Zero(t)
     PROVE  PeerInv'
  BY <1>10 DEF Zero, ZeroRead, ZeroWrite, Go
<1>11. ASSUME NEW t \in Thread, TakeExit(t) \/ Switch(t) \/ SwitchData(t)
       \/ ResetState(t) \/ DoAcceptThrows(t) \/ ReadNew(t) \/ ReadNewThrows(t)
     PROVE  PeerInv'
  BY <1>11 DEF TakeExit, Waits, Switch, SwitchTo, Go, SwitchData, ResetState, DoAcceptThrows,
    ReadNew, ReadNewThrows
<1>12. CASE Stop \/ Join \/ UNCHANGED vars
  BY <1>12 DEF Stop, Join
<1> QED BY <1>1, <1>2, <1>3, <1>4, <1>5, <1>6, <1>7, <1>8, <1>9, <1>10, <1>11,
    <1>12 DEF Next, ThreadStep, PacketStep, KernelStep

\* What the kernel leaves of an operation is as it was when that was under way.
LEMMA EmptyCompleted ==
  ASSUME EmptyInv, NEW o, NEW res, Complete(o, res), rbuf' = rbuf,
         o.op = "write" /\ res = "none" => ~o.some
  PROVE  EmptyInv'
<1>1. /\ o \in posted /\ posted' \subseteq posted
      /\ port' = port \cup {Packet(o.conn, o.op, res)}
      /\ UNCHANGED <<pc, hand, avail, created, newConn, overlap>>
  BY DEF Complete, threads
<1>2. \A k \in port' : k \in port \/ (k.conn = o.conn /\ k.op = o.op /\ k.res = res)
  BY <1>1 DEF Packet
<1>3. \A c : Settled(c)' <=> Settled(c)
  BY <1>1 DEF Settled
<1> SUFFICES ASSUME ~overlap'
             PROVE  EmptyInv'
  BY DEF EmptyInv
<1> DEFINE FromRead(k) == k.op = "read" /\ k.res = "none" /\ Settled(k.conn)
           FromRest(k) == k.op = "disconnect" \/ (k.op = "write" /\ k.res = "none")
<1>4. \A k \in port' : FromRead(k) => rbuf[k.conn] = {}
  BY <1>1, <1>2 DEF EmptyInv
<1>5. \A k \in port' : FromRest(k) => rbuf[k.conn] = {}
  BY <1>1, <1>2 DEF EmptyInv
<1> QED BY <1>1, <1>3, <1>4, <1>5 DEF EmptyInv

\* m_readBuf begins with a zero again when the answer made of it has been sent:
\* the thread that has posted the next read zeroes it.
LEMMA EmptyStep ==
  ASSUME TypeOK, ShapeInv, JobInv, HandInv, StageInv, ConnInv, PeerInv, EmptyInv, [Next]_vars
  PROVE  EmptyInv'
<1> USE WinNulls DEF vars, threads, objects, kernel, clients, history, Runs, Operation,
    Packet, Busy, Ended, TypeOK, ThreadsOK, ObjectsOK, KernelOK, EmptyInv, Settled
<1>1. ASSUME NEW p \in Peer, ClientStep(p)
     PROVE  EmptyInv'
  BY <1>1 DEF ClientStep, Connect, Send, Close, Reset
<1>2. CASE CompleteAccept
  BY <1>2, EmptyCompleted DEF CompleteAccept, AcceptOp
<1>3. ASSUME NEW c \in Conn, Receive(c)
     PROVE  EmptyInv'
  <2>1. CASE UNCHANGED rbuf
    BY <1>3, <2>1 DEF Receive, Complete
  <2>2. CASE (Plain(c) \/ WithNul(c)) /\ Complete(Operation(c, "read", TRUE), "some")
    <3>1. \A d \in Conn : d # c => rbuf'[d] = rbuf[d]
      BY <2>2 DEF Plain, WithNul
    <3>2. /\ Operation(c, "read", TRUE) \in posted /\ ~overlap
          /\ posted' = posted \ {Operation(c, "read", TRUE)}
          /\ port' = port \cup {Packet(c, "read", "some")}
          /\ UNCHANGED <<pc, hand, avail, created, newConn, overlap>>
      BY <2>2 DEF Complete
    <3>3. c # newConn /\ c \notin avail /\ c \in created
      BY <3>2 DEF ConnInv, Idle
    <3>4. \A t \in Thread : pc[t] \in {"accept", "read"} => hand[t] # c /\ hand[t] \in Conn
      BY <3>2, <3>3 DEF HandInv, StageInv, Stage, Idle
    <3> DEFINE o == [conn |-> c, op |-> "read", some |-> TRUE]
               l == [conn |-> c, op |-> "read", res |-> "some"]
    <3>7. /\ o \in posted /\ posted' = posted \ {o} /\ port' = port \cup {l}
          /\ o.conn = c /\ l.op = "read" /\ l.res = "some" /\ ~overlap
      BY <3>2
    <3> HIDE DEF o, l
    <3>5. /\ \A r \in posted' : r \in posted /\ r.conn # c
          /\ \A k \in port' : (k \in port /\ k.conn # c) \/ (k.op = "read" /\ k.res = "some")
      BY ONLY <3>7, JobInv DEF JobInv
    <3>6. /\ \A r \in posted : r.op # "accept" => r.conn \in Conn
          /\ \A k \in port : k.op # "accept" => k.conn \in Conn
      BY DEF ShapeInv, Operations, Packets
    <3> QED BY <3>1, <3>2, <3>3, <3>4, <3>5, <3>6
  <2> QED BY <1>3, <2>1, <2>2 DEF Receive
<1>4. ASSUME NEW c \in Conn, Transmit(c)
     PROVE  EmptyInv'
  <2>1. PICK some \in BOOLEAN :
          Complete([conn |-> c, op |-> "write", some |-> some], IF some THEN "some" ELSE "none")
    BY <1>4 DEF Transmit
  <2> DEFINE o == [conn |-> c, op |-> "write", some |-> some]
             res == IF some THEN "some" ELSE "none"
  <2>2. /\ Complete(o, res) /\ rbuf' = rbuf /\ EmptyInv
        /\ res = "none" => ~o.some
    BY <1>4, <2>1 DEF Transmit
  <2> HIDE DEF o, res
  <2> QED BY ONLY <2>2, EmptyCompleted
<1>5. ASSUME NEW c \in Conn, Disconnected(c)
     PROVE  EmptyInv'
  <2> DEFINE o == [conn |-> c, op |-> "disconnect", some |-> FALSE]
  <2>1. Complete(o, "none") /\ rbuf' = rbuf /\ EmptyInv /\ o.op = "disconnect"
    BY <1>5 DEF Disconnected
  <2> HIDE DEF o
  <2> QED BY ONLY <2>1, EmptyCompleted
<1>15. ASSUME NEW c \in Conn, Fail(c)
     PROVE  EmptyInv'
  <2>1. PICK o \in posted : Complete(o, "error")
    BY <1>15 DEF Fail
  <2>2. rbuf' = rbuf /\ EmptyInv
    BY <1>15 DEF Fail
  <2> QED BY ONLY <2>1, <2>2, EmptyCompleted
<1>6. ASSUME NEW t \in Thread, NEW k \in port, TakeRead(t, k) \/ TakeWritten(t, k)
     PROVE  EmptyInv'
  <2> SUFFICES ASSUME ~overlap'
               PROVE  EmptyInv'
    OBVIOUS
  <2> DEFINE c == k.conn
  <2>1. /\ c \in Conn /\ ~overlap /\ c # newConn /\ c \notin avail /\ c \in created
        /\ UNCHANGED <<rbuf, avail, created, newConn>>
    BY <1>6 DEF TakeRead, TakeWritten, Take, ShapeInv, Packets, ConnInv, Idle
  <2>2. /\ pc[t] = "wait" /\ pc' = [pc EXCEPT ![t] = "switchData"]
        /\ hand' = [hand EXCEPT ![t] = c]
        /\ port' = port \ {k}
    BY <1>6 DEF TakeRead, TakeWritten, Take, Waits, Post
  <2>3. /\ \A r \in posted : r.conn # c
        /\ \A l \in port' : l.conn # c
    BY <2>1, <2>2 DEF JobInv
  <2>4. \A r \in posted' : \/ r \in posted
                           \/ r.conn = c /\ r.op = "write" /\ (r.some <=> rbuf[c] # {})
                           \/ r.conn = c /\ r.op = "read"
    <3>1. CASE TakeRead(t, k)
      <4>1. posted' = posted \cup {[conn |-> c, op |-> "write", some |-> (rbuf[c] # {})]}
        BY <3>1 DEF TakeRead, Post
      <4>2. CASE rbuf[c] = {}
        <5>1. posted' = posted \cup {[conn |-> c, op |-> "write", some |-> FALSE]}
          BY <4>1, <4>2
        <5> QED BY ONLY <4>2, <5>1
      <4>3. CASE rbuf[c] # {}
        <5>1. posted' = posted \cup {[conn |-> c, op |-> "write", some |-> TRUE]}
          BY <4>1, <4>3
        <5> QED BY ONLY <4>3, <5>1
      <4> QED BY <4>2, <4>3
    <3>2. CASE TakeWritten(t, k)
      <4>1. posted' = posted \cup {[conn |-> c, op |-> "read", some |-> TRUE]}
        BY <3>2 DEF TakeWritten, Post
      <4> QED BY ONLY <4>1
    <3> QED BY <1>6, <3>1, <3>2
  <2>5. hand[t] = None /\ ~Settled(c)'
    BY <2>1, <2>2 DEF HandInv
  <2>6. \A d \in Conn : d # c /\ Settled(d)' => Settled(d)
    BY <2>1, <2>2, <2>5
  <2>7. \A u \in Thread : pc'[u] \in {"accept", "read"} =>
                            pc[u] \in {"accept", "read"} /\ hand'[u] = hand[u]
    BY <2>2
  <2>8. /\ \A r \in posted : r.op # "accept" => r.conn \in Conn
        /\ \A l \in port : l.op # "accept" => l.conn \in Conn
    BY DEF ShapeInv, Operations, Packets
  <2> HIDE DEF c, Settled
  <2> QED BY <2>1, <2>2, <2>3, <2>4, <2>5, <2>6, <2>7, <2>8
<1>7. ASSUME NEW t \in Thread, NEW k \in port, TakeClosed(t, k)
     PROVE  EmptyInv'
  <2> SUFFICES ASSUME ~overlap'
               PROVE  EmptyInv'
    OBVIOUS
  <2> DEFINE c == k.conn
  <2>1. c \in Conn /\ ~overlap /\ k.res = "none" /\ UNCHANGED <<rbuf, avail, created, newConn>>
    BY <1>7 DEF TakeClosed, Take, ShapeInv, Packets
  <2>2. Free(c)
    BY <1>7, <2>1 DEF TakeClosed, Take, Waits, Held, Free, HandInv
  <2>3. k.op \in {"read", "write"}
    BY <1>7, <2>1, <2>2 DEF TakeClosed, ConnInv, OnlyOp, ShapeInv, Packets
  <2>4. rbuf[c] = {}
    BY <2>1, <2>2, <2>3 DEF Free
  <2> QED BY <1>7, <2>1, <2>4 DEF TakeClosed, Take, Waits, Post
<1>8. ASSUME NEW t \in Thread, NEW k \in port, TakeDisconnected(t, k)
     PROVE  EmptyInv'
  <2> SUFFICES ASSUME ~overlap'
               PROVE  EmptyInv'
    OBVIOUS
  <2>1. k.conn \in Conn /\ ~overlap
    BY <1>8 DEF TakeDisconnected, Take, ShapeInv, Packets
  <2>2. Free(k.conn)
    BY <1>8, <2>1 DEF TakeDisconnected, Take, Waits, Held, Free, HandInv
  <2>3. k.op = "disconnect"
    BY <1>8, <2>1, <2>2 DEF TakeDisconnected, ConnInv, OnlyOp
  <2> QED BY <1>8, <2>1, <2>3 DEF TakeDisconnected, Take, Waits
<1>9. ASSUME NEW t \in Thread, NEW k \in port, TakeAccepted(t, k) \/ TakeAsserts(t, k)
       \/ TakeThrows(t, k)
     PROVE  EmptyInv'
  BY <1>9 DEF TakeAccepted, Take, Waits, Held, TakeAsserts, TakeThrows, HandInv
<1>10. ASSUME NEW t \in Thread, DoAccept(t)
     PROVE  EmptyInv'
  <2>1. PICK c \in Conn : /\ c \in avail \/ c \notin created
                          /\ avail' = avail \ {c} \/ (avail' = avail /\ avail = {})
                          /\ created \subseteq created' /\ newConn' = c
    BY <1>10 DEF DoAccept, Get, CreateConnection
  <2>2. /\ pc[t] = "accept" /\ pc' = [pc EXCEPT ![t] = "read"]
        /\ hand' = hand /\ ~overlap
        /\ posted' = posted \cup {AcceptOp}
        /\ UNCHANGED <<rbuf, port>>
    BY <1>10 DEF DoAccept, Go
  <2>3. AcceptOp.op = "accept"
    BY DEF AcceptOp
  <2>4. /\ rbuf[c] = {} /\ avail' \subseteq avail
        /\ \A d : Settled(d)' => Settled(d)
        /\ \A r \in posted' : r \in posted \/ r.op = "accept"
        /\ \A u \in Thread : pc'[u] \in {"accept", "read"} => pc[u] \in {"accept", "read"}
    BY <2>1, <2>2, <2>3
  <2> HIDE DEF Settled
  <2> QED BY <2>1, <2>2, <2>4
<1>11. ASSUME NEW t \in Thread, Zero(t)
     PROVE  EmptyInv'
  <2> DEFINE c == hand[t]
  <2>1. /\ c \in Conn /\ pc[t] = "zero" /\ ~overlap
        /\ state[c] \in {"read", "write"} /\ OnlyOp(c, state[c])
    BY <1>11 DEF Zero, Go, HandInv, StageInv, Stage
  <2>2. /\ pc' = [pc EXCEPT ![t] = "wait"] /\ hand' = [hand EXCEPT ![t] = None]
        /\ UNCHANGED <<posted, port, avail, created, newConn, overlap>>
    BY <1>11 DEF Zero, Go
  <2>3. /\ \A d \in Conn : d # c => rbuf'[d] = rbuf[d]
        /\ state[c] = "read" => rbuf'[c] = {}
        /\ state[c] = "write" => rbuf' = rbuf
    BY <1>11, <2>1 DEF Zero, ZeroRead, ZeroWrite
  <2>4. \A d \in Conn : d # c /\ Settled(d)' => Settled(d)
    BY <2>1, <2>2
  <2>5. \A u \in Thread : pc'[u] \in {"accept", "read"} =>
                            /\ pc[u] \in {"accept", "read"} /\ hand'[u] = hand[u]
                            /\ hand[u] \in Conn
    BY <2>2 DEF HandInv
  <2>6. /\ \A r \in posted : r.op # "accept" => r.conn \in Conn
        /\ \A l \in port : l.op # "accept" => l.conn \in Conn
    BY DEF ShapeInv, Operations, Packets
  <2>7. \A d \in Conn : rbuf[d] = {} => rbuf'[d] = {}
    BY <2>1, <2>3
  <2> HIDE DEF c, Settled
  <2>8. /\ \A r \in posted : r.op = "read" /\ Settled(r.conn)' => rbuf'[r.conn] = {}
        /\ \A k \in port : k.op = "read" /\ k.res = "none" /\ Settled(k.conn)'
                             => rbuf'[k.conn] = {}
    BY <2>1, <2>3, <2>4, <2>6, <2>7 DEF OnlyOp
  <2> QED BY <2>1, <2>2, <2>5, <2>6, <2>7, <2>8
<1>12. ASSUME NEW t \in Thread, ReadNew(t)
     PROVE  EmptyInv'
  BY <1>12 DEF ReadNew, Go, HandInv
<1>13. ASSUME NEW t \in Thread, SwitchData(t)
     PROVE  EmptyInv'
  <2>1. /\ pc[t] = "switchData" /\ pc' = [pc EXCEPT ![t] = "zero"] /\ hand' = hand
        /\ UNCHANGED <<rbuf, posted, port, avail, created, newConn, overlap>>
    BY <1>13 DEF SwitchData, SwitchTo, Go
  <2>2. /\ \A d : Settled(d)' => Settled(d)
        /\ \A u \in Thread : pc'[u] \in {"accept", "read"} => pc[u] = pc'[u]
    BY <2>1
  <2> HIDE DEF Settled
  <2> QED BY <2>1, <2>2
<1>16. ASSUME NEW t \in Thread, TakeExit(t) \/ Switch(t) \/ ResetState(t)
       \/ DoAcceptThrows(t) \/ ReadNewThrows(t)
     PROVE  EmptyInv'
  <2>1. /\ pc[t] \in {"wait", "switch", "reset", "accept", "read"}
        /\ \E to \in {"wait", "dead", "gone"} : pc' = [pc EXCEPT ![t] = to]
        /\ hand' \in {hand, [hand EXCEPT ![t] = None]}
        /\ UNCHANGED <<rbuf, posted, port, avail, created, newConn, overlap>>
    BY <1>16 DEF TakeExit, Waits, Switch, SwitchTo, Go, ResetState, DoAcceptThrows,
      ReadNewThrows
  <2>2. \A d \in Conn : Settled(d)' => Settled(d)
    BY <2>1
  <2>3. \A u \in Thread : pc'[u] \in {"accept", "read"} => pc[u] = pc'[u] /\ hand'[u] = hand[u]
    BY <2>1
  <2>4. /\ \A r \in posted : r.op # "accept" => r.conn \in Conn
        /\ \A l \in port : l.op # "accept" => l.conn \in Conn
    BY DEF ShapeInv, Operations, Packets
  <2> HIDE DEF Settled
  <2> QED BY <2>1, <2>2, <2>3, <2>4
<1>14. CASE Stop \/ Join \/ UNCHANGED vars
  BY <1>14 DEF Stop, Join
<1> QED BY <1>1, <1>2, <1>3, <1>4, <1>5, <1>6, <1>7, <1>8, <1>9, <1>10, <1>11, <1>12,
    <1>13, <1>14, <1>15, <1>16 DEF Next, ThreadStep, PacketStep, KernelStep


\* A client whose bytes stay in m_readBuf, for the next one, has sent a zero byte
\* or had its data zeroed.
LEMMA BytesStep ==
  ASSUME TypeOK, ShapeInv, JobInv, HandInv, StageInv, ConnInv, PeerInv, EmptyInv, BytesInv,
         [Next]_vars
  PROVE  BytesInv'
<1> USE DEF vars, threads, objects, kernel, clients, history, Runs, BytesInv, Leavers
<1>1. ASSUME NEW p \in Peer, ClientStep(p)
     PROVE  BytesInv'
  BY <1>1 DEF ClientStep, Connect, Send, Close, Reset
<1>2. CASE CompleteAccept
  <2>1. /\ \E p : peer' = [peer EXCEPT ![newConn] = p]
        /\ UNCHANGED <<rbuf, rest, nuls, wipedRead, overlap>>
    BY <1>2 DEF CompleteAccept, Complete
  <2>2. /\ \A c \in Conn : c # newConn => peer'[c] = peer[c]
        /\ ~overlap => rbuf[newConn] = {} /\ newConn \in Conn
    BY <2>1 DEF EmptyInv, TypeOK, KernelOK, ObjectsOK
  <2> QED BY <2>1, <2>2
<1>3. ASSUME NEW c \in Conn, Receive(c)
     PROVE  BytesInv'
  <2>1. CASE UNCHANGED <<rbuf, rest, nuls>>
    BY <1>3, <2>1 DEF Receive, Complete
  <2>2. CASE (Plain(c) \/ WithNul(c)) /\ Complete(Operation(c, "read", TRUE), "some")
    <3>1. peer[c] \in Peer
      BY <1>3, <2>2 DEF Complete, PeerInv, Operation
    <3>2. PICK B, T \in SUBSET Peer :
           /\ rbuf' = [rbuf EXCEPT ![c] = B] /\ rest' = [rest EXCEPT ![c] = T]
           /\ nuls' \in {nuls, nuls \cup {peer[c]}}
           /\ B \subseteq {peer[c]} \cup rbuf[c] \cup rest[c]
           /\ T \subseteq {peer[c]} \cup rbuf[c] \cup rest[c]
           /\ T = rest[c] \/ peer[c] \in nuls'
           /\ peer[c] \in B \/ (B = {} /\ peer[c] \in nuls')
      BY <2>2, <3>1, Received
    <3>3. UNCHANGED <<peer, wipedRead, overlap>> /\ ~overlap
      BY <1>3, <2>2 DEF Receive, Complete
    <3>4. /\ \A d \in Conn : d # c => rbuf'[d] = rbuf[d] /\ rest'[d] = rest[d]
          /\ rbuf'[c] = B /\ rest'[c] = T
      BY <3>2 DEF TypeOK, ObjectsOK
    <3>5. rest[c] \subseteq Leavers /\ rbuf[c] \subseteq {peer[c]} \cup Leavers
      BY <3>3
    <3>6. Leavers \subseteq Leavers'
      BY <3>2, <3>3
    <3>7. T \subseteq Leavers' /\ B \subseteq {peer[c]} \cup Leavers'
      BY <3>2, <3>5, <3>6
    <3> HIDE DEF Leavers
    <3>8. \A d \in Conn : rest'[d] \subseteq Leavers' /\ rbuf'[d] \subseteq {peer[d]} \cup Leavers'
      BY <3>3, <3>4, <3>6, <3>7
    <3> QED BY <3>3, <3>8
  <2> QED BY <1>3, <2>1, <2>2 DEF Receive
<1>4. ASSUME NEW c \in Conn, Transmit(c) \/ Fail(c)
     PROVE  BytesInv'
  BY <1>4 DEF Transmit, Fail, Complete
<1>5. ASSUME NEW c \in Conn, Disconnected(c)
     PROVE  BytesInv'
  <2>1. /\ peer' = [peer EXCEPT ![c] = None] /\ ~overlap
        /\ UNCHANGED <<rbuf, rest, nuls, wipedRead, overlap>>
    BY <1>5 DEF Disconnected, Complete
  <2>2. rbuf[c] = {}
    BY <1>5, <2>1 DEF Disconnected, Complete, Operation, EmptyInv
  <2>3. \A d \in Conn : d # c => peer'[d] = peer[d]
    BY <2>1
  <2> QED BY <2>1, <2>2, <2>3
<1>6. ASSUME NEW t \in Thread, NEW k \in port, TakeRead(t, k) \/ TakeWritten(t, k)
       \/ TakeClosed(t, k)
     PROVE  BytesInv'
  BY <1>6 DEF TakeRead, Take, Waits, Post, Held, TakeWritten, TakeClosed
<1>7. ASSUME NEW t \in Thread, NEW k \in port, TakeDisconnected(t, k)
       \/ TakeAccepted(t, k) \/ TakeAsserts(t, k) \/ TakeThrows(t, k)
     PROVE  BytesInv'
  BY <1>7 DEF TakeDisconnected, Take, Waits, Held, TakeAccepted, TakeAsserts, TakeThrows
<1>8. ASSUME NEW t \in Thread, DoAccept(t)
     PROVE  BytesInv'
  BY <1>8 DEF DoAccept, Go
<1>9. ASSUME NEW t \in Thread, Zero(t)
     PROVE  BytesInv'
  <2> DEFINE c == hand[t]
  <2>1. c \in Conn /\ UNCHANGED <<peer, overlap, nuls>>
    BY <1>9, WinNulls DEF Zero, Go, HandInv, Busy, TypeOK, ThreadsOK
  <2>2. /\ \A d \in Conn : rbuf'[d] \subseteq rbuf[d]
        /\ \A d \in Conn : d # c => rest'[d] = rest[d]
        /\ \/ rest'[c] = rest[c] /\ wipedRead' = wipedRead
           \/ rest'[c] = rest[c] \cup rbuf[c] /\ wipedRead' = wipedRead \cup {peer[c]}
    BY <1>9, <2>1 DEF Zero, ZeroRead, ZeroWrite, TypeOK, ObjectsOK
  <2> HIDE DEF c
  <2> QED BY <2>1, <2>2
<1>10. ASSUME NEW t \in Thread, TakeExit(t) \/ Switch(t) \/ SwitchData(t)
       \/ ResetState(t) \/ DoAcceptThrows(t) \/ ReadNew(t) \/ ReadNewThrows(t)
     PROVE  BytesInv'
  BY <1>10 DEF TakeExit, Waits, Switch, SwitchTo, Go, SwitchData, ResetState,
    DoAcceptThrows, ReadNew, ReadNewThrows
<1>11. CASE Stop \/ Join \/ UNCHANGED vars
  BY <1>11 DEF Stop, Join
<1> QED BY <1>1, <1>2, <1>3, <1>4, <1>5, <1>6, <1>7, <1>8, <1>9, <1>10, <1>11
        DEF Next, ThreadStep, PacketStep, KernelStep

\* What the kernel receives is the client's, unless it begins with a zero.
LEMMA ReceiveStep ==
  ASSUME TypeOK, ShapeInv, JobInv, PeerInv, DataInv, NEW c \in Conn, Receive(c)
  PROVE  DataInv'
<1> DEFINE o == [conn |-> c, op |-> "read", some |-> TRUE]
           l == [conn |-> c, op |-> "read", res |-> "some"]
           e == [conn |-> c, op |-> "read", res |-> "none"]
<1>1. /\ o \in posted /\ posted' = posted \ {o} /\ ~overlap
      /\ UNCHANGED <<overlap, wipedRead, peer, fin, wbuf>> /\ wipedWrite' = wipedWrite \ {c}
  BY DEF Receive, Complete, Operation, Runs
<1>2. /\ \A r \in posted' : r \in posted /\ r.conn # c
      /\ \A k \in port : k.conn # c
  <2>1. o.conn = c
    OBVIOUS
  <2> HIDE DEF o
  <2> QED BY <1>1, <2>1 DEF JobInv
<1>3. ReadData' /\ (\A k \in port' : k.op = "read" /\ k.res = "none" => peer[k.conn] \in fin)
      /\ nuls \subseteq nuls'
      /\ \A k \in port' : k.op = "write" => k \in port
  <2>1. CASE peer[c] \in fin /\ port' = port \cup {e} /\ UNCHANGED <<rbuf, nuls>>
    <3>1. e.conn = c /\ e.op = "read" /\ e.res = "none"
      OBVIOUS
    <3> HIDE DEF e, o, l
    <3> QED BY <1>1, <2>1, <3>1 DEF DataInv, ReadData, Leavers
  <2>2. CASE port' = port \cup {l} /\ (Plain(c) \/ WithNul(c))
    <3>1. peer[c] \in Peer
      BY <1>1 DEF PeerInv
    <3>2. PICK B, T \in SUBSET Peer :
           /\ rbuf' = [rbuf EXCEPT ![c] = B]
           /\ nuls' \in {nuls, nuls \cup {peer[c]}}
           /\ peer[c] \in B \/ (B = {} /\ peer[c] \in nuls')
      BY <2>2, <3>1, Received
    <3>3. l.conn = c /\ l.op = "read" /\ l.res = "some"
      OBVIOUS
    <3>4. /\ \A d \in Conn : d # c => rbuf'[d] = rbuf[d]
          /\ rbuf'[c] = B
      BY <3>2 DEF TypeOK, ObjectsOK
    <3>5. \A k \in port : k.op = "read" => k.conn \in Conn
      BY DEF TypeOK, KernelOK, ShapeInv, Packets
    <3> HIDE DEF e, o, l
    <3>6. ReadData'
      BY <1>1, <1>2, <2>2, <3>2, <3>3, <3>4, <3>5 DEF DataInv, ReadData, Leavers
    <3> QED BY <1>1, <2>2, <3>2, <3>3, <3>6 DEF DataInv
  <2> QED BY <2>1, <2>2 DEF Receive, Complete, Operation, Packet
<1> HIDE DEF o, l, e
<1>4. Leavers \subseteq Leavers'
  BY <1>1, <1>3 DEF Leavers
<1> QED BY <1>1, <1>2, <1>3, <1>4 DEF DataInv

\* What the other operations leave is evidence of what they were posted for.
LEMMA DataCompleted ==
  ASSUME TypeOK, JobInv, ShapeInv, DataInv, NEW o, NEW res, Complete(o, res),
         o.op # "read" \/ res = "error",
         o.op = "write" /\ res = "none" => ~o.some,
         \A c \in Conn : c # o.conn => peer'[c] = peer[c],
         peer'[o.conn] = peer[o.conn] \/ o.op = "disconnect",
         UNCHANGED <<rbuf, rest, nuls>>
  PROVE  DataInv'
<1>1. /\ o \in posted /\ posted' = posted \ {o} /\ ~overlap
      /\ port' = port \cup {Packet(o.conn, o.op, res)}
      /\ UNCHANGED <<overlap, wipedRead, fin, wbuf>>
      /\ wipedWrite' = wipedWrite \ {o.conn}
  BY DEF Complete, Runs
<1>2. Packet(o.conn, o.op, res).conn = o.conn /\ Packet(o.conn, o.op, res).op = o.op
      /\ Packet(o.conn, o.op, res).res = res
  BY DEF Packet
<1>3. /\ \A r \in posted' : r \in posted /\ r.conn # o.conn
      /\ \A k \in port : k.conn # o.conn
      /\ \A k \in port' : k \in port \/ (k.conn = o.conn /\ k.op = o.op /\ k.res = res)
  BY <1>1, <1>2 DEF JobInv
<1>4. /\ \A r \in posted : r.op # "accept" => r.conn \in Conn
      /\ \A l \in port : l.op # "accept" => l.conn \in Conn
  BY DEF ShapeInv, Operations, Packets, TypeOK, KernelOK
<1>5. Leavers' = Leavers
  BY <1>1 DEF Leavers
<1>6. /\ \A k \in port : k.op # "accept" => peer'[k.conn] = peer[k.conn]
      /\ \A r \in posted' : r.op # "accept" => peer'[r.conn] = peer[r.conn]
  BY <1>3, <1>4
<1> QED BY <1>1, <1>3, <1>5, <1>6 DEF DataInv, ReadData

\* What is read is the client's data, and what joined up with it, and it goes to
\* the write buffer; if there is nothing before the first zero, nothing goes.
LEMMA EchoStep ==
  ASSUME TypeOK, ShapeInv, JobInv, HandInv, ConnInv, PeerInv, BytesInv, DataInv,
         NEW t \in Thread, NEW k \in port, TakeRead(t, k)
  PROVE  DataInv'
<1> SUFFICES ASSUME ~overlap'
             PROVE  DataInv'
  BY DEF DataInv
<1> DEFINE c == k.conn
           o == [conn |-> c, op |-> "write", some |-> (rbuf[c] # {})]
<1>1. c \in Conn /\ ~overlap /\ UNCHANGED <<peer, fin, nuls, wipedRead, wipedWrite, rbuf>>
  BY DEF TypeOK, KernelOK, Packets, ShapeInv, TakeRead, Take, Waits, Runs, clients
<1>2. Free(c)
  BY <1>1, WinNulls DEF TakeRead, Take, Waits, Held, Free, HandInv, Busy
<1>3. k.op = "read" /\ k.res = "some"
  BY <1>1, <1>2 DEF ConnInv, OnlyOp, TakeRead
<1>4. /\ rbuf[c] \subseteq {peer[c]} \cup Leavers
      /\ peer[c] \in rbuf[c] \/ (rbuf[c] = {} /\ peer[c] \in Leavers)
  BY <1>1, <1>3 DEF DataInv, ReadData, BytesInv
<1>5. posted' = posted \cup {o} /\ port' \subseteq port
  BY DEF TakeRead, Take, Waits, Post, Operation
<1>6. /\ \A d \in Conn : d # c => wbuf'[d] = wbuf[d]
      /\ rbuf[c] # {} => wbuf'[c] = rbuf[c]
  BY <1>1 DEF TakeRead, TypeOK, ObjectsOK
<1>7. \A r \in posted : r.conn # c
  BY <1>1 DEF JobInv
<1>8. o.conn = c /\ o.op = "write" /\ (o.some <=> rbuf[c] # {})
  OBVIOUS
<1>9. Leavers' = Leavers
  BY <1>1 DEF Leavers
<1>10. \A r \in posted : r.op # "accept" => r.conn \in Conn
  BY DEF TypeOK, KernelOK, ShapeInv, Operations
<1> HIDE DEF c, o
<1>11. \A r \in posted' : r.op = "write" /\ r.some =>
           /\ peer[r.conn] \in wbuf'[r.conn] \/ r.conn \in wipedWrite
           /\ wbuf'[r.conn] \subseteq {peer[r.conn]} \cup Leavers
  <2> SUFFICES ASSUME NEW r \in posted', r.op = "write", r.some
               PROVE  /\ peer[r.conn] \in wbuf'[r.conn] \/ r.conn \in wipedWrite
                      /\ wbuf'[r.conn] \subseteq {peer[r.conn]} \cup Leavers
    OBVIOUS
  <2>1. CASE r \in posted
    BY <1>1, <1>6, <1>7, <1>10, <2>1 DEF DataInv
  <2>2. CASE r = o
    BY <1>4, <1>6, <1>8, <2>2
  <2> QED BY <1>5, <2>1, <2>2
<1>12. \A r \in posted' : r.op = "write" /\ ~r.some => peer[r.conn] \in Leavers
  BY <1>1, <1>4, <1>5, <1>8 DEF DataInv
<1>13. \A r \in posted' : r.op = "disconnect" => r \in posted
  BY <1>5, <1>8
<1> QED BY <1>1, <1>5, <1>9, <1>11, <1>12, <1>13 DEF DataInv, ReadData

\* The disconnection answers a close, or the completion of an answer of no bytes.
LEMMA CloseStep ==
  ASSUME TypeOK, ShapeInv, JobInv, HandInv, ConnInv, PeerInv, DataInv,
         NEW t \in Thread, NEW k \in port, TakeClosed(t, k)
  PROVE  DataInv'
<1> SUFFICES ASSUME ~overlap'
             PROVE  DataInv'
  BY DEF DataInv
<1> DEFINE c == k.conn
           o == [conn |-> c, op |-> "disconnect", some |-> FALSE]
<1>1. /\ c \in Conn /\ ~overlap
      /\ UNCHANGED <<peer, fin, nuls, wipedRead, wipedWrite, rbuf, wbuf>>
  BY DEF TypeOK, KernelOK, Packets, ShapeInv, TakeClosed, Take, Waits, Runs, clients, objects
<1>2. Free(c)
  BY <1>1, WinNulls DEF TakeClosed, Take, Waits, Held, Free, HandInv, Busy
<1>3. k.op \in {"read", "write"} /\ k.res = "none"
  BY <1>1, <1>2, WinNulls DEF ConnInv, OnlyOp, TakeClosed, ShapeInv, TypeOK, KernelOK,
    Packets
<1>4. peer[c] \in fin \cup Leavers
  BY <1>3 DEF DataInv, TakeClosed, Take, Waits, Runs
<1>5. posted' = posted \cup {o} /\ port' \subseteq port
  BY DEF TakeClosed, Take, Waits, Post, Operation
<1>6. o.conn = c /\ o.op = "disconnect"
  OBVIOUS
<1>7. Leavers' = Leavers
  BY <1>1 DEF Leavers
<1> HIDE DEF c, o
<1> QED BY <1>1, <1>4, <1>5, <1>6, <1>7 DEF DataInv, ReadData

\* Zeroing a portion that waits in the port, or an answer that the kernel still
\* works on, is recorded.
LEMMA ZeroStep ==
  ASSUME TypeOK, ShapeInv, JobInv, HandInv, StageInv, BytesInv, DataInv,
         NEW t \in Thread, Zero(t)
  PROVE  DataInv'
<1> DEFINE c == hand[t]
<1>1. /\ ~overlap /\ pc[t] = "zero" /\ c \in Conn
      /\ UNCHANGED <<posted, port, peer, fin, overlap, nuls>>
  BY DEF Zero, Go, Runs, clients, TypeOK, ThreadsOK, HandInv, Busy
<1>2. state[c] \in {"read", "write"}
  BY <1>1 DEF StageInv, Stage
<1>3. rbuf \in [Conn -> SUBSET Peer] /\ wbuf \in [Conn -> SUBSET Peer]
  BY DEF TypeOK, ObjectsOK
<1>4. /\ \A r \in posted : r.op # "accept" => r.conn \in Conn
      /\ \A l \in port : l.op # "accept" => l.conn \in Conn
  BY DEF TypeOK, KernelOK, ShapeInv, Operations, Packets
<1>5. CASE state[c] = "read"
  <2> DEFINE arrived == Packet(c, "read", "some") \in port
  <2>1. /\ rbuf' = [rbuf EXCEPT ![c] = {}] /\ UNCHANGED <<wbuf, wipedWrite>>
        /\ wipedRead \subseteq wipedRead'
        /\ arrived => peer[c] \in wipedRead'
    BY <1>5 DEF Zero, ZeroRead
  <2>2. \A k \in port : k.conn = c /\ k.op = "read" /\ k.res = "some" => arrived
    <3> SUFFICES ASSUME NEW k \in port, k.conn = c, k.op = "read", k.res = "some"
                 PROVE  k = [conn |-> c, op |-> "read", res |-> "some"]
      BY DEF Packet
    <3>1. k = [conn |-> k.conn, op |-> k.op, res |-> k.res]
      BY DEF TypeOK, KernelOK, Packets
    <3> QED BY <3>1
  <2>3. Leavers \subseteq Leavers' /\ (arrived => peer[c] \in Leavers')
    BY <1>1, <2>1 DEF Leavers
  <2>4. /\ \A d \in Conn : d # c => rbuf'[d] = rbuf[d]
        /\ rbuf'[c] = {}
    BY <1>1, <1>3, <2>1
  <2> HIDE DEF c, arrived
  <2>5. ReadData'
    BY <1>1, <1>4, <2>2, <2>3, <2>4 DEF DataInv, ReadData
  <2> QED BY <1>1, <2>1, <2>3, <2>5 DEF DataInv
<1>6. CASE state[c] = "write"
  <2> DEFINE underway == Operation(c, "write", TRUE) \in posted
  <2>1. /\ UNCHANGED <<rbuf, wipedRead>>
        /\ \A d \in Conn : d # c => wbuf'[d] = wbuf[d]
        /\ underway => wbuf' = wbuf
        /\ wipedWrite \subseteq wipedWrite'
        /\ Leavers' = Leavers
    BY <1>1, <1>3, <1>6 DEF Zero, ZeroWrite, Leavers
  <2>2. \A r \in posted : r.conn = c /\ r.op = "write" /\ r.some => underway
    <3> SUFFICES ASSUME NEW r \in posted, r.conn = c, r.op = "write", r.some
                 PROVE  r = [conn |-> c, op |-> "write", some |-> TRUE]
      BY DEF Operation
    <3>1. r = [conn |-> r.conn, op |-> r.op, some |-> r.some] /\ r.some \in BOOLEAN
      BY DEF TypeOK, KernelOK, Operations
    <3>2. r.some = TRUE
      BY <3>1
    <3> QED BY <3>1, <3>2
  <2> HIDE DEF c, underway
  <2> QED BY <1>1, <1>4, <2>1, <2>2 DEF DataInv, ReadData
<1> QED BY <1>2, <1>5, <1>6

\* The evidence stays: closes are not taken back, and buffers are written by the
\* kernel, by the callback that copies and by the zeroing only.
LEMMA DataStep ==
  ASSUME TypeOK, ShapeInv, JobInv, HandInv, StageInv, ConnInv, PeerInv, BytesInv, DataInv,
         [Next]_vars
  PROVE  DataInv'
<1>1. ASSUME NEW t \in Thread, NEW k \in port, TakeRead(t, k)
     PROVE  DataInv'
  BY <1>1, EchoStep
<1>2. ASSUME NEW t \in Thread, NEW k \in port, TakeClosed(t, k)
     PROVE  DataInv'
  BY <1>2, CloseStep
<1>3. ASSUME NEW t \in Thread, Zero(t)
     PROVE  DataInv'
  BY <1>3, ZeroStep
<1>4. ASSUME NEW c \in Conn, Receive(c)
     PROVE  DataInv'
  BY <1>4, ReceiveStep
<1>5. CASE CompleteAccept
  <2>1. /\ Complete(AcceptOp, "none") /\ UNCHANGED <<rbuf, rest, nuls>>
        /\ \E p : peer' = [peer EXCEPT ![newConn] = p]
    BY <1>5 DEF CompleteAccept
  <2>2. /\ ~overlap /\ posted' \subseteq posted
        /\ port' = port \cup {Packet(AcceptOp.conn, AcceptOp.op, "none")}
        /\ UNCHANGED <<wbuf, fin, wipedRead, overlap>>
        /\ wipedWrite' = wipedWrite \ {AcceptOp.conn}
    BY <2>1 DEF Complete, Runs
  <2>3. /\ \A r \in posted : r.conn # newConn
        /\ \A k \in port : k.conn # newConn
    BY <2>2 DEF ConnInv, Idle
  <2>4. /\ \A r \in posted : r.op # "accept" => r.conn \in Conn
        /\ \A l \in port : l.op # "accept" => l.conn \in Conn
    BY DEF ShapeInv, Operations, Packets, TypeOK, KernelOK
  <2>5. \A d \in Conn : d # newConn => peer'[d] = peer[d]
    BY <2>1
  <2>6. /\ Packet(AcceptOp.conn, AcceptOp.op, "none").op = "accept"
        /\ AcceptOp.conn \notin Conn /\ Leavers' = Leavers
    BY <2>1, <2>2, WinNulls DEF Packet, AcceptOp, Operation, Leavers
  <2> QED BY <2>1, <2>2, <2>3, <2>4, <2>5, <2>6 DEF DataInv, ReadData
<1>6. ASSUME NEW c \in Conn, Transmit(c)
     PROVE  DataInv'
  <2>1. PICK some \in BOOLEAN :
          Complete(Operation(c, "write", some), IF some THEN "some" ELSE "none")
    BY <1>6 DEF Transmit
  <2> DEFINE o == Operation(c, "write", some)
             res == IF some THEN "some" ELSE "none"
  <2>2. /\ Complete(o, res) /\ o.op = "write" /\ o.conn = c
        /\ res = "none" => ~o.some
        /\ UNCHANGED <<rbuf, rest, nuls, peer>>
    BY <1>6, <2>1 DEF Transmit, Operation
  <2> HIDE DEF o, res
  <2> QED BY <2>2, DataCompleted
<1>7. ASSUME NEW c \in Conn, Disconnected(c)
     PROVE  DataInv'
  <2> DEFINE o == Operation(c, "disconnect", FALSE)
  <2>1. /\ Complete(o, "none") /\ o.op = "disconnect" /\ o.conn = c
        /\ peer' = [peer EXCEPT ![c] = None]
        /\ UNCHANGED <<rbuf, rest, nuls>>
    BY <1>7 DEF Disconnected, Operation
  <2> HIDE DEF o
  <2>2. \A d \in Conn : d # c => peer'[d] = peer[d]
    BY <2>1
  <2> QED BY <2>1, <2>2, DataCompleted
<1>8. ASSUME NEW c \in Conn, Fail(c)
     PROVE  DataInv'
  <2>1. PICK o \in posted : Complete(o, "error")
    BY <1>8 DEF Fail
  <2>2. UNCHANGED <<rbuf, rest, nuls, peer>>
    BY <1>8 DEF Fail
  <2> QED BY <2>1, <2>2, DataCompleted
<1> USE DEF vars, threads, objects, kernel, clients, history, Runs, DataInv, ReadData, Leavers
<1>9. ASSUME NEW p \in Peer, ClientStep(p)
     PROVE  DataInv'
  BY <1>9 DEF ClientStep, Connect, Send, Close, Reset
<1>10. ASSUME NEW t \in Thread, NEW k \in port, TakeWritten(t, k)
     PROVE  DataInv'
  <2>1. /\ posted' = posted \cup {[conn |-> k.conn, op |-> "read", some |-> TRUE]}
        /\ port' \subseteq port /\ (~overlap' => ~overlap)
        /\ UNCHANGED <<peer, fin, nuls, wipedRead, wipedWrite, rbuf, wbuf>>
    BY <1>10 DEF TakeWritten, Take, Waits, Post, Operation
  <2> QED BY <2>1
<1>11. ASSUME NEW t \in Thread, NEW k \in port, TakeDisconnected(t, k)
       \/ TakeAccepted(t, k) \/ TakeAsserts(t, k) \/ TakeThrows(t, k)
     PROVE  DataInv'
  BY <1>11 DEF TakeDisconnected, Take, Waits, Held, TakeAccepted, TakeAsserts, TakeThrows
<1>12. ASSUME NEW t \in Thread, DoAccept(t)
     PROVE  DataInv'
  BY <1>12 DEF DoAccept, Get, CreateConnection, AcceptOp, Operation, Go, Held
<1>13. ASSUME NEW t \in Thread, ReadNew(t)
     PROVE  DataInv'
  <2>1. /\ posted' = posted \cup {[conn |-> hand[t], op |-> "read", some |-> TRUE]}
        /\ UNCHANGED <<port, overlap, peer, fin, nuls, wipedRead, wipedWrite, rbuf, wbuf>>
    BY <1>13 DEF ReadNew, Go, Operation
  <2> QED BY <2>1
<1>14. ASSUME NEW t \in Thread, TakeExit(t) \/ Switch(t) \/ SwitchData(t)
       \/ ResetState(t) \/ DoAcceptThrows(t) \/ ReadNewThrows(t)
     PROVE  DataInv'
  BY <1>14 DEF TakeExit, Waits, Switch, SwitchTo, Go, SwitchData, ResetState, DoAcceptThrows,
    ReadNewThrows
<1>15. CASE Stop \/ Join \/ UNCHANGED vars
  BY <1>15 DEF Stop, Join
<1> QED BY <1>1, <1>2, <1>3, <1>4, <1>5, <1>6, <1>7, <1>8, <1>9, <1>10, <1>11, <1>12,
    <1>13, <1>14, <1>15 DEF Next, ThreadStep, PacketStep, KernelStep

\* No other step evaluates the assertion.
LEMMA AssertStep ==
  ASSUME TypeOK, ShapeInv, HandInv, ConnInv, AssertNeedsOverlap, [Next]_vars
  PROVE  AssertNeedsOverlap'
<1>1. ASSUME NEW t \in Thread, NEW k \in port, TakeAsserts(t, k)
     PROVE  AssertNeedsOverlap'
  BY <1>1, AssertsStep
<1> USE WinNulls DEF vars, threads, objects, kernel, clients, history, Runs,
    AssertNeedsOverlap
<1>2. ASSUME NEW p \in Peer, ClientStep(p)
     PROVE  AssertNeedsOverlap'
  BY <1>2 DEF ClientStep, Connect, Send, Close, Reset
<1>3. CASE CompleteAccept
  BY <1>3 DEF CompleteAccept, Complete, AcceptOp
<1>4. ASSUME NEW c \in Conn, Receive(c) \/ Transmit(c) \/ Disconnected(c) \/ Fail(c)
     PROVE  AssertNeedsOverlap'
  BY <1>4 DEF Receive, Plain, WithNul, Complete, Transmit, Disconnected, Fail
<1>5. ASSUME NEW t \in Thread, NEW k \in port, TakeRead(t, k) \/ TakeWritten(t, k)
       \/ TakeClosed(t, k)
     PROVE  AssertNeedsOverlap'
  BY <1>5 DEF TakeRead, Take, Waits, Post, Held, TakeWritten, TakeClosed
<1>6. ASSUME NEW t \in Thread, NEW k \in port, TakeDisconnected(t, k)
       \/ TakeAccepted(t, k) \/ TakeThrows(t, k)
     PROVE  AssertNeedsOverlap'
  BY <1>6 DEF TakeDisconnected, Take, Waits, Held, TakeAccepted, TakeThrows
<1>7. ASSUME NEW t \in Thread, DoAccept(t)
     PROVE  AssertNeedsOverlap'
  BY <1>7 DEF DoAccept, Get, CreateConnection, AcceptOp, Go, Held
<1>8. ASSUME NEW t \in Thread, Zero(t)
     PROVE  AssertNeedsOverlap'
  BY <1>8 DEF Zero, ZeroRead, ZeroWrite, Go
<1>9. ASSUME NEW t \in Thread, TakeExit(t) \/ Switch(t) \/ SwitchData(t)
       \/ ResetState(t) \/ DoAcceptThrows(t) \/ ReadNew(t) \/ ReadNewThrows(t)
     PROVE  AssertNeedsOverlap'
  BY <1>9 DEF TakeExit, Waits, Switch, SwitchTo, Go, SwitchData, ResetState, DoAcceptThrows,
    ReadNew, ReadNewThrows
<1>10. CASE Stop \/ Join \/ UNCHANGED vars
  BY <1>10 DEF Stop, Join
<1> QED BY <1>1, <1>2, <1>3, <1>4, <1>5, <1>6, <1>7, <1>8, <1>9, <1>10 DEF Next,
    ThreadStep, PacketStep, KernelStep

-----------------------------------------------------------------------------
(* The theorems. *)

\* After OnRun one connection waits to be accepted and the others are available.
LEMMA InitIInv == Init => IInv
<1> SUFFICES ASSUME Init
             PROVE  IInv
  OBVIOUS
<1> USE WinNulls, WinPrealloc DEF Init, ConnInit
<1>1. ThreadsOK /\ ObjectsOK
  BY DEF ThreadsOK, ObjectsOK, State
<1>2. KernelOK /\ ShapeInv
  BY DEF KernelOK, ShapeInv, Operations, AcceptOp, Operation
<1>3. RestOK /\ AssertNeedsOverlap
  BY DEF RestOK, AssertNeedsOverlap
<1>4. JobInv /\ HandInv /\ StageInv
  BY DEF JobInv, HandInv, StageInv, Stage, AcceptOp, Busy
<1>5. ConnInv
  BY DEF ConnInv, OnlyOp, Idle, Free, AcceptOp, Operation
<1>6. PeerInv /\ DataInv
  BY DEF PeerInv, DataInv, ReadData, AcceptOp, Operation
<1>7. EmptyInv /\ BytesInv
  BY DEF EmptyInv, BytesInv, AcceptOp, Operation
<1> QED BY <1>1, <1>2, <1>3, <1>4, <1>5, <1>6, <1>7 DEF IInv, TypeOK

\* Every step keeps all the parts of the invariant.
LEMMA NextIInv == IInv /\ [Next]_vars => IInv'
<1> SUFFICES ASSUME IInv, [Next]_vars
             PROVE  IInv'
  OBVIOUS
<1> USE DEF IInv
<1>1. TypeOK'
  BY ThreadsStep, ObjectsStep, KernelTypeStep, RestStep DEF TypeOK
<1>2. ShapeInv' /\ JobInv' /\ HandInv'
  BY ShapeStep, JobStep, HandStep
<1>3. StageInv' /\ ConnInv'
  BY StageStep, ConnStep
<1>4. PeerInv' /\ EmptyInv' /\ BytesInv'
  BY PeerStep, EmptyStep, BytesStep
<1>5. DataInv' /\ AssertNeedsOverlap'
  BY DataStep, AssertStep
<1> QED BY <1>1, <1>2, <1>3, <1>4, <1>5

\* The invariant holds in every behaviour of CWinSockServer.
THEOREM Invariance == Spec => []IInv
  BY InitIInv, NextIInv, PTL DEF Spec

\* Every variable has its type.
THEOREM TypeCorrect == Spec => []TypeOK
<1>1. IInv => TypeOK
  BY DEF IInv
<1> QED BY Invariance, <1>1, PTL

\* A set without two different elements has at most one.
LEMMA AtMostOne ==
  ASSUME NEW S, \A x, y \in S : x = y
  PROVE  Cardinality(S) \in {0, 1} /\ (S # {} => Cardinality(S) = 1)
         /\ (S = {} => Cardinality(S) = 0)
<1>1. CASE S = {}
  BY <1>1, FS_EmptySet
<1>2. CASE S # {}
  <2>1. PICK x \in S : S = {x}
    BY <1>2
  <2> QED BY <2>1, FS_Singleton
<1> QED BY <1>1, <1>2

\* OneOperation: a connection is never under two operations, nor in two hands,
\* m_curState is the operation under way once its handler has ended, and an
\* available connection is idle.
THEOREM OneOperationHolds == Spec => []OneOperation
<1>1. IInv => OneOperation
  <2> SUFFICES ASSUME IInv, ~overlap, NEW c \in Conn
               PROVE  /\ Cardinality(PostedOn(c)) + Cardinality(PacketsOf(c)) <= 1
                      /\ Cardinality(HeldBy(c)) <= 1
                      /\ HeldBy(c) = {} =>
                           \A o \in PostedOn(c) \cup PacketsOf(c) : o.op = state[c]
                      /\ c \in avail => /\ PostedOn(c) \cup PacketsOf(c) = {}
                                        /\ peer[c] = None
                                        /\ HeldBy(c) = {} => state[c] = "initial"
    BY DEF OneOperation
  <2>1. Cardinality(PostedOn(c)) + Cardinality(PacketsOf(c)) <= 1
    <3>1. /\ \A x, y \in PostedOn(c) : x = y
          /\ \A x, y \in PacketsOf(c) : x = y
          /\ PostedOn(c) = {} \/ PacketsOf(c) = {}
      BY DEF IInv, JobInv, PostedOn, PacketsOf
    <3>2. /\ Cardinality(PostedOn(c)) \in {0, 1}
          /\ PostedOn(c) = {} => Cardinality(PostedOn(c)) = 0
      BY <3>1, AtMostOne
    <3>3. /\ Cardinality(PacketsOf(c)) \in {0, 1}
          /\ PacketsOf(c) = {} => Cardinality(PacketsOf(c)) = 0
      BY <3>1, AtMostOne
    <3> QED BY <3>1, <3>2, <3>3
  <2>2. Cardinality(HeldBy(c)) <= 1
    <3>1. \A x, y \in HeldBy(c) : x = y
      BY WinNulls DEF IInv, HandInv, HeldBy
    <3>2. Cardinality(HeldBy(c)) \in {0, 1}
      BY <3>1, AtMostOne
    <3> QED BY <3>2
  <2>3. HeldBy(c) = {} => Free(c)
    BY DEF HeldBy, Free
  <2>4. HeldBy(c) = {} => \A o \in PostedOn(c) \cup PacketsOf(c) : o.op = state[c]
    BY <2>3 DEF IInv, ConnInv, OnlyOp, PostedOn, PacketsOf
  <2>5. c \in avail => /\ PostedOn(c) \cup PacketsOf(c) = {}
                       /\ peer[c] = None
                       /\ HeldBy(c) = {} => state[c] = "initial"
    BY <2>3 DEF IInv, ConnInv, Idle, PostedOn, PacketsOf
  <2> QED BY <2>1, <2>2, <2>4, <2>5
<1> QED BY Invariance, <1>1, PTL

\* AssertNeedsOverlap: assert(dataExchange) of Endpoint.cpp fails only after an
\* overlap of two handlers on one connection.
THEOREM AssertNeedsOverlapHolds == Spec => []AssertNeedsOverlap
<1>1. IInv => AssertNeedsOverlap
  BY DEF IInv
<1> QED BY Invariance, <1>1, PTL

\* DisconnectNeedsClose: a client that has not closed is disconnected only when
\* it has sent a zero byte, or its data was zeroed in m_readBuf, or after an
\* overlap.
THEOREM DisconnectNeedsCloseHolds == Spec => []DisconnectNeedsClose
<1>1. IInv => DisconnectNeedsClose
  BY DEF IInv, DataInv, DisconnectNeedsClose, Leavers
<1> QED BY Invariance, <1>1, PTL

\* EchoIntact: up to an overlap, what is sent to a client has bytes of its own,
\* unless the answer was zeroed while it was sent, and bytes of another client
\* only if that one had sent a zero byte or had its data zeroed in m_readBuf.
THEOREM EchoIntactHolds == Spec => []EchoIntact
<1>1. IInv => EchoIntact
  <2> SUFFICES ASSUME IInv, NEW o \in posted, o.op = "write", o.some, ~overlap
               PROVE  /\ peer[o.conn] \in wbuf[o.conn] \/ o.conn \in wipedWrite
                      /\ wbuf[o.conn] \subseteq {peer[o.conn]} \cup nuls \cup wipedRead
    BY DEF EchoIntact
  <2> QED BY DEF IInv, DataInv, Leavers
<1> QED BY Invariance, <1>1, PTL

=============================================================================
