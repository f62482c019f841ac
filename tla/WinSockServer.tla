---------------------------- MODULE WinSockServer ----------------------------
(***************************************************************************)
(* CWinSockServer: the same server over an IO completion port.  Operations *)
(* are posted (WSARecv, WSASend, DisconnectEx, AcceptEx), the kernel works *)
(* on them and on their buffers, and each completion is a packet that any  *)
(* thread of the pool may take.  A connection has no operation in its      *)
(* packet: it remembers in m_curState what it expects, and it writes that  *)
(* down after it has posted the operation.                                 *)
(*                                                                         *)
(* Data is whose it is: a buffer is the set of clients it has bytes of.    *)
(* m_readBuf is seen as GetInputData sees it: up to its first zero byte,   *)
(* and, behind it, whose bytes may be there.  Lengths are left open: what  *)
(* a portion joins up with is any part of what was there before.           *)
(* Behaviours are followed up to the first overlap, when a thread takes up *)
(* a connection that another has not finished with.                        *)
(***************************************************************************)
EXTENDS Naturals, FiniteSets

CONSTANTS
  Thread,    \* the threads of CThreadPool, numbers
  Peer,      \* clients, numbers: they come in this order
  Conn,      \* connection objects memory has room for
  Prealloc,  \* those made by the constructor of the connection manager
  Acts,      \* bound: portions of data that clients send and resets, all together
  InOrder,   \* bound: the first of the waiting threads takes the next packet; they
             \* are alike, so it is as good as any
  Nuls,      \* clients whose data may have zero bytes in it
  Acceptor, None

ASSUME WinPrealloc == Prealloc \subseteq Conn /\ Prealloc # {}
ASSUME WinNulls == {Acceptor, None} \cap Conn = {} /\ None \notin Peer
ASSUME WinThreads == IsFiniteSet(Thread) /\ Thread \subseteq Nat
ASSUME WinBounds == Nuls \subseteq Peer /\ Peer \subseteq Nat /\ Acts \in Nat /\ InOrder \in BOOLEAN

VARIABLES
  pc,        \* where each thread is
  hand,      \* the connection it is working on
  op,        \* the operation it has posted on it, to be expected from now on
  state,     \* m_curState
  rbuf, rest,  \* m_readBuf: whose bytes are before its first zero, and whose
             \* may be behind it
  wbuf,      \* m_writeBuf: whose bytes may be in it
  newConn,   \* m_newConnection
  avail, created,  \* the connection manager
  posted,    \* operations the kernel works on
  port,      \* packets in the completion port
  exits,     \* packets without a context in the port
  mpc,       \* the main thread: waits for the key, joins, has returned
  waiting,   \* clients not accepted yet
  peer,      \* the client at the other end of each connection
  came, unread, fin, rst,  \* clients that connected, and what they did
  acts,
  aborted,   \* an assertion failed
  overlap,   \* history: see above
  nuls,      \* history: clients that have sent a zero byte
  wipedRead, \* history: clients whose data was zeroed after it had been received
  wipedWrite \* history: connections whose answer was zeroed before it was sent

threads == <<pc, hand, op>>
objects == <<state, rbuf, rest, wbuf, newConn, avail, created>>
kernel == <<posted, port, exits, waiting, peer>>
clients == <<came, unread, fin, rst, acts>>
history == <<overlap, nuls, wipedRead, wipedWrite>>
vars == <<threads, objects, kernel, mpc, clients, aborted, history>>

Ended == {"gone", "dead"}
State == {"initial", "read", "write", "disconnect"}
Result == {"some", "none", "error"}    \* bytes transferred, or a failed operation

Operation(c, o, some) == [conn |-> c, op |-> o, some |-> some]
Packet(c, o, res) == [conn |-> c, op |-> o, res |-> res]
AcceptOp == Operation(Acceptor, "accept", FALSE)

\* The constructor of a connection
ConnInit ==
  /\ state = [c \in Conn |-> "initial"]
  /\ rbuf = [c \in Conn |-> {}] /\ rest = [c \in Conn |-> {}]
  /\ wbuf = [c \in Conn |-> {}]

\* After OnRun: DoAccept has posted the first AcceptEx, the threads run.
Init ==
  /\ pc = [t \in Thread |-> "wait"]
  /\ hand = [t \in Thread |-> None]
  /\ op = [t \in Thread |-> "initial"]
  /\ ConnInit
  /\ newConn \in Prealloc
  /\ avail = Prealloc \ {newConn}
  /\ created = Prealloc
  /\ posted = {AcceptOp}
  /\ port = {} /\ exits = 0
  /\ mpc = "key"
  /\ waiting = {}
  /\ peer = [c \in Conn |-> None]
  /\ came = {} /\ unread = {} /\ fin = {} /\ rst = {} /\ acts = 0
  /\ aborted = FALSE /\ overlap = FALSE
  /\ nuls = {} /\ wipedRead = {} /\ wipedWrite = {}

Runs == ~aborted /\ ~overlap /\ mpc # "returned"

Connected(p) == \E c \in Conn : peer[c] = p

-----------------------------------------------------------------------------
(* Clients. *)

Connect(p) ==
  /\ Runs
  /\ p \notin came /\ \A q \in Peer : q < p => q \in came
  /\ came' = came \cup {p}
  /\ waiting = {} /\ waiting' = {p}   \* listen(m_hEndpoint, 1)
  /\ UNCHANGED <<threads, objects, posted, port, exits, peer, mpc, unread, fin, rst, acts,
                 aborted, history>>

Send(p) ==
  /\ Runs
  /\ p \notin fin \cup rst
  /\ Connected(p) \/ p \in waiting
  /\ acts < Acts /\ acts' = acts + 1
  /\ unread' = unread \cup {p}
  /\ UNCHANGED <<threads, objects, kernel, mpc, came, fin, rst, aborted, history>>

Close(p) ==
  /\ Runs
  /\ Connected(p) /\ p \notin fin \cup rst
  /\ fin' = fin \cup {p}
  /\ UNCHANGED <<threads, objects, kernel, mpc, came, unread, rst, acts, aborted, history>>

Reset(p) ==
  /\ Runs
  /\ p \notin rst /\ Connected(p)
  /\ acts < Acts /\ acts' = acts + 1
  /\ rst' = rst \cup {p}
  /\ UNCHANGED <<threads, objects, kernel, mpc, came, unread, fin, aborted, history>>

-----------------------------------------------------------------------------
(* The kernel completes posted operations. *)

Complete(o, res) ==
  /\ Runs
  /\ o \in posted
  /\ posted' = posted \ {o}
  /\ port' = port \cup {Packet(o.conn, o.op, res)}
  /\ wipedWrite' = wipedWrite \ {o.conn}
  /\ UNCHANGED <<threads, newConn, state, wbuf, avail, created, exits, mpc, came, fin, rst,
                 acts, aborted, overlap, wipedRead>>

CompleteAccept ==
  /\ Complete(AcceptOp, "none")
  /\ \E p \in waiting :
       /\ waiting' = waiting \ {p}
       /\ peer' = [peer EXCEPT ![newConn] = p]
  /\ UNCHANGED <<rbuf, rest, nuls, unread>>

\* A portion without zero bytes covers the beginning of m_readBuf.  What is left
\* from before may follow it at once.
Plain(c) ==
  /\ \E S \in SUBSET (rbuf[c] \cup rest[c]) :
       rbuf' = [rbuf EXCEPT ![c] = {peer[c]} \cup S]
  /\ UNCHANGED <<rest, nuls>>

\* A zero byte in it, perhaps the first, hides what comes behind.
WithNul(c) ==
  /\ peer[c] \in Nuls /\ nuls' = nuls \cup {peer[c]}
  /\ \E S \in SUBSET {peer[c]} : rbuf' = [rbuf EXCEPT ![c] = S]
  /\ rest' = [rest EXCEPT ![c] = @ \cup rbuf[c] \cup {peer[c]}]

Receive(c) ==
  /\ peer[c] \notin rst
  /\ \/ /\ peer[c] \in unread
        /\ Complete(Operation(c, "read", TRUE), "some")
        /\ Plain(c) \/ WithNul(c)
        /\ unread' = unread \ {peer[c]}
     \/ /\ peer[c] \in fin \ unread
        /\ Complete(Operation(c, "read", TRUE), "none")
        /\ UNCHANGED <<rbuf, rest, nuls, unread>>
  /\ UNCHANGED <<waiting, peer>>

\* The length was fixed when the operation was posted.
Transmit(c) ==
  /\ peer[c] \notin rst
  /\ \E some \in BOOLEAN :
       Complete(Operation(c, "write", some), IF some THEN "some" ELSE "none")
  /\ UNCHANGED <<rbuf, rest, nuls, unread, waiting, peer>>

\* The socket can be used for AcceptEx again.
Disconnected(c) ==
  /\ Complete(Operation(c, "disconnect", FALSE), "none")
  /\ peer' = [peer EXCEPT ![c] = None]
  /\ UNCHANGED <<rbuf, rest, nuls, unread, waiting>>

Fail(c) ==
  /\ peer[c] \in rst
  /\ \E o \in posted : o.conn = c /\ Complete(o, "error")
  /\ UNCHANGED <<rbuf, rest, nuls, unread, waiting, peer>>

KernelStep(c) == Receive(c) \/ Transmit(c) \/ Disconnected(c) \/ Fail(c)

-----------------------------------------------------------------------------
(* CIoManager::Run: take a packet; CAcceptorImpl and CConnectionImpl::Complete. *)

Held(t, c) == \E u \in Thread \ {t} : hand[u] = c

\* GetQueuedCompletionStatus
Waits(t) ==
  /\ pc[t] = "wait"
  /\ InOrder => \A u \in Thread : u < t => pc[u] # "wait"

Take(t, k, to) ==
  /\ Runs
  /\ k \in port
  /\ Waits(t) /\ pc' = [pc EXCEPT ![t] = to]
  /\ port' = port \ {k}
  /\ overlap' = (overlap \/ Held(t, k.conn))
  /\ UNCHANGED <<exits, waiting, peer, mpc, clients, nuls, wipedRead, wipedWrite>>

\* The callback posts operation o; with Take it is one step, since nobody else
\* touches the connection in between unless there is an overlap.
Post(t, c, o, some) ==
  /\ hand' = [hand EXCEPT ![t] = c]
  /\ op' = [op EXCEPT ![t] = o]
  /\ posted' = posted \cup {Operation(c, o, some)}

\* Mutant: the length is that of the data sent before.
TakeReadOld(t, k) ==
  /\ k.res = "some" /\ state[k.conn] = "read"
  /\ Take(t, k, "switchData")
  /\ wbuf' = [wbuf EXCEPT ![k.conn] = rbuf[k.conn]]
  /\ Post(t, k.conn, "write", wbuf[k.conn] # {})
  /\ UNCHANGED <<state, rbuf, rest, newConn, avail, created, aborted>>

\* OnReadComplete: GetInputData and WriteAsync.  When m_readBuf begins with a
\* zero there is no data: m_writeBuf stays as it is and the operation is one of
\* no bytes.
TakeRead(t, k) ==
  /\ k.res = "some" /\ state[k.conn] = "read"
  /\ Take(t, k, "switchData")
  /\ wbuf' = IF rbuf[k.conn] = {} THEN wbuf ELSE [wbuf EXCEPT ![k.conn] = rbuf[k.conn]]
  /\ Post(t, k.conn, "write", rbuf[k.conn] # {})
  /\ UNCHANGED <<state, rbuf, rest, newConn, avail, created, aborted>>

\* OnWriteComplete: ReadAsync
TakeWritten(t, k) ==
  /\ k.res = "some" /\ state[k.conn] = "write"
  /\ Take(t, k, "switchData")
  /\ Post(t, k.conn, "read", TRUE)
  /\ UNCHANGED <<objects, aborted>>

\* assert(dataExchange)
TakeAsserts(t, k) ==
  /\ k.res = "some" /\ state[k.conn] \notin {"read", "write"}
  /\ Take(t, k, "wait")
  /\ aborted' = TRUE
  /\ UNCHANGED <<hand, op, objects, posted>>

\* Mutant: a close is not answered with DisconnectEx.
TakeClosedForgets(t, k) ==
  /\ k.res = "none" /\ k.conn # Acceptor /\ state[k.conn] # "disconnect"
  /\ Take(t, k, "wait")
  /\ UNCHANGED <<hand, op, objects, posted, aborted>>

\* Nothing transferred: the peer closed; Disconnect().
TakeClosed(t, k) ==
  /\ k.res = "none" /\ k.conn # Acceptor /\ state[k.conn] # "disconnect"
  /\ Take(t, k, "switch")
  /\ Post(t, k.conn, "disconnect", FALSE)
  /\ UNCHANGED <<objects, aborted>>

\* OnDisconnectComplete: m_cnMgr.Release; Reset follows.
TakeDisconnected(t, k) ==
  /\ k.res = "none" /\ k.conn # Acceptor /\ state[k.conn] = "disconnect"
  /\ Take(t, k, "reset")
  /\ hand' = [hand EXCEPT ![t] = k.conn]
  /\ avail' = avail \cup {k.conn}
  /\ UNCHANGED <<op, state, rbuf, rest, wbuf, newConn, created, posted, aborted>>

\* The acceptor's Complete passes m_newConnection.
TakeAccepted(t, k) ==
  /\ k.conn = Acceptor
  /\ Take(t, k, "accept")
  /\ hand' = [hand EXCEPT ![t] = newConn]
  /\ UNCHANGED <<op, objects, posted, aborted>>

\* GetQueuedCompletionStatus reports a failed operation as an error of its own,
\* and posting on a connection that was reset fails: the exception ends Run.
TakeThrows(t, k) ==
  /\ \/ k.res = "error"
     \/ k.conn # Acceptor /\ peer[k.conn] \in rst
  /\ Take(t, k, "dead")
  /\ UNCHANGED <<hand, op, objects, posted, aborted>>

\* A packet without a context.
TakeExit(t) ==
  /\ Runs
  /\ exits > 0 /\ exits' = exits - 1
  /\ Waits(t) /\ pc' = [pc EXCEPT ![t] = "gone"]
  /\ UNCHANGED <<hand, op, objects, posted, port, waiting, peer, mpc, clients, aborted, history>>

-----------------------------------------------------------------------------
(* The rest of a handler. *)

Go(t, from, to) ==
  /\ Runs
  /\ pc[t] = from /\ pc' = [pc EXCEPT ![t] = to]
  /\ hand' = IF to \in {"wait", "dead"} THEN [hand EXCEPT ![t] = None] ELSE hand
  /\ UNCHANGED <<port, exits, waiting, peer, mpc, clients, aborted>>

\* SwitchTo, the last thing in Read, Write and Disconnect.
SwitchTo(t, from, to) ==
  /\ Go(t, from, to)
  /\ state' = [state EXCEPT ![hand[t]] = op[t]]
  /\ UNCHANGED <<op, rbuf, rest, wbuf, newConn, avail, created, posted, history>>

\* Mutant: the state is not switched when a read is posted.
SwitchToRead(t, from, to) ==
  /\ Go(t, from, to)
  /\ state' = IF op[t] = "read" /\ to = "zero" THEN state
              ELSE [state EXCEPT ![hand[t]] = op[t]]
  /\ UNCHANGED <<op, rbuf, rest, wbuf, newConn, avail, created, posted, history>>

SwitchDataForgets(t) == SwitchToRead(t, "switchData", "zero")

\* Mutant: m_curState is left as it was.
SwitchForgets(t) ==
  /\ Go(t, "switch", "wait")
  /\ UNCHANGED <<op, objects, posted, history>>

Switch(t) == SwitchTo(t, "switch", "wait")
SwitchData(t) == SwitchTo(t, "switchData", "zero")

\* m_readBuf, zeroed up to the length of the answer just sent: of what the answer
\* was made of nothing stays, what was behind a zero byte stays.  When the next
\* portion is there already, its beginning is lost.
ZeroRead(c) ==
  LET arrived == Packet(c, "read", "some") \in port IN
  /\ rbuf' = [rbuf EXCEPT ![c] = {}]
  /\ IF arrived THEN /\ rest' = [rest EXCEPT ![c] = @ \cup rbuf[c]]
                     /\ wipedRead' = wipedRead \cup {peer[c]}
     ELSE UNCHANGED <<rest, wipedRead>>
  /\ UNCHANGED <<wbuf, wipedWrite>>

\* m_writeBuf, zeroed up to the length of the portion that has been read, which
\* the answer may exceed: some of it may stay to be sent.  When it has been sent
\* nobody reads the buffer: the next answer covers as much as it sends.
ZeroWrite(c) ==
  LET underway == Operation(c, "write", TRUE) \in posted IN
  /\ wbuf' = IF underway THEN wbuf ELSE [wbuf EXCEPT ![c] = {}]
  /\ wipedWrite' = IF underway THEN wipedWrite \cup {c} ELSE wipedWrite
  /\ UNCHANGED <<rbuf, rest, wipedRead>>

\* Mutant: m_readBuf is not zeroed.
ZeroWriteOnly(t) ==
  /\ Go(t, "zero", "wait")
  /\ IF state[hand[t]] = "read" THEN UNCHANGED <<rbuf, rest, wipedRead, wbuf, wipedWrite>>
     ELSE ZeroWrite(hand[t])
  /\ UNCHANGED <<op, state, newConn, avail, created, posted, overlap, nuls>>

\* Complete zeroes the buffer of the state it is in now: of the operation just
\* posted, not of the one that has completed.
Zero(t) ==
  /\ Go(t, "zero", "wait")
  /\ IF state[hand[t]] = "read" THEN ZeroRead(hand[t]) ELSE ZeroWrite(hand[t])
  /\ UNCHANGED <<op, state, newConn, avail, created, posted, overlap, nuls>>

\* Reset, after the callback has made the connection available.
ResetState(t) ==
  /\ Go(t, "reset", "wait")
  /\ state' = [state EXCEPT ![hand[t]] = "initial"]
  /\ UNCHANGED <<op, rbuf, rest, wbuf, newConn, avail, created, posted, history>>

\* A new connection in its initial state, bound to the port.
CreateConnection(c) ==
  /\ c \notin created /\ created' = created \cup {c}
  /\ UNCHANGED avail

\* ConnectionManager::Get
Get(c) ==
  IF avail = {} THEN CreateConnection(c)
  ELSE c \in avail /\ avail' = avail \ {c} /\ UNCHANGED created

\* OnAcceptComplete: DoAccept gets a connection and posts AcceptEx for it.
DoAccept(t) ==
  /\ Go(t, "accept", "read")
  /\ \E c \in Conn :
       /\ Get(c)
       /\ newConn' = c
       /\ overlap' = (overlap \/ Held(t, c))
  /\ posted' = posted \cup {AcceptOp}
  /\ UNCHANGED <<op, state, rbuf, rest, wbuf, nuls, wipedRead, wipedWrite>>

\* GetPeerInfo, new or AcceptEx fails: nothing accepts any more.
DoAcceptThrows(t) ==
  /\ Go(t, "accept", "dead")
  /\ UNCHANGED <<op, objects, posted, history>>

\* newConnection->ReadAsync()
ReadNew(t) ==
  /\ Go(t, "read", "switch")
  /\ op' = [op EXCEPT ![t] = "read"]
  /\ posted' = posted \cup {Operation(hand[t], "read", TRUE)}
  /\ UNCHANGED <<objects, history>>

ReadNewThrows(t) ==
  /\ Go(t, "read", "dead")
  /\ peer[hand[t]] \in rst
  /\ UNCHANGED <<op, objects, posted, history>>

-----------------------------------------------------------------------------
(* OnStop on the main thread. *)

\* Mutant: one packet too few.
StopShort ==
  /\ Runs
  /\ mpc = "key" /\ mpc' = "join"
  /\ exits' = exits + Cardinality(Thread) - 1
  /\ UNCHANGED <<threads, objects, posted, port, waiting, peer, clients, aborted, history>>

\* CIoManager::Stop: a packet for each thread.
Stop ==
  /\ Runs
  /\ mpc = "key" /\ mpc' = "join"
  /\ exits' = exits + Cardinality(Thread)
  /\ UNCHANGED <<threads, objects, posted, port, waiting, peer, clients, aborted, history>>

\* CThreadPool::Stop: WaitForMultipleObjects for all of them (at most 64).
Join ==
  /\ Runs
  /\ mpc = "join" /\ mpc' = "returned"
  /\ \A t \in Thread : pc[t] \in Ended
  /\ UNCHANGED <<threads, objects, kernel, clients, aborted, history>>

-----------------------------------------------------------------------------
PacketStep(t, k) ==
  \/ TakeRead(t, k) \/ TakeWritten(t, k) \/ TakeAsserts(t, k) \/ TakeClosed(t, k)
  \/ TakeDisconnected(t, k) \/ TakeAccepted(t, k) \/ TakeThrows(t, k)

ThreadStep(t) ==
  \/ \E k \in port : PacketStep(t, k)
  \/ TakeExit(t)
  \/ Switch(t) \/ SwitchData(t) \/ Zero(t) \/ ResetState(t)
  \/ DoAccept(t) \/ DoAcceptThrows(t) \/ ReadNew(t) \/ ReadNewThrows(t)

ClientStep(p) == Connect(p) \/ Send(p) \/ Close(p) \/ Reset(p)

Next ==
  \/ \E t \in Thread : ThreadStep(t)
  \/ \E p \in Peer : ClientStep(p)
  \/ \E c \in Conn : KernelStep(c)
  \/ CompleteAccept \/ Stop \/ Join

Spec == Init /\ [][Next]_vars

\* Threads run, posted operations complete; clients and the key owe nothing.
Fairness ==
  /\ \A t \in Thread : WF_vars(ThreadStep(t))
  /\ \A c \in Conn : WF_vars(KernelStep(c))
  /\ WF_vars(CompleteAccept) /\ WF_vars(Join)

FairSpec == Spec /\ Fairness

-----------------------------------------------------------------------------
(* Properties *)

PostedOn(c) == {o \in posted : o.conn = c}
PacketsOf(c) == {k \in port : k.conn = c}
HeldBy(c) == {t \in Thread : hand[t] = c}

\* Up to an overlap a connection is in one place: with a thread, which may have
\* posted its next operation already, or under one operation, which is the one
\* m_curState expects.  A connection in the available list is idle: connected to
\* nobody and, unless its last handler is still about to reset it, in its
\* initial state.
OneOperation ==
  ~overlap => \A c \in Conn :
    /\ Cardinality(PostedOn(c)) + Cardinality(PacketsOf(c)) <= 1
    /\ Cardinality(HeldBy(c)) <= 1
    /\ HeldBy(c) = {} => \A o \in PostedOn(c) \cup PacketsOf(c) : o.op = state[c]
    /\ c \in avail => /\ PostedOn(c) \cup PacketsOf(c) = {}
                      /\ peer[c] = None
                      /\ HeldBy(c) = {} => state[c] = "initial"

\* Endpoint.cpp:239 assert(dataExchange) fails only after an overlap: a packet
\* taken before SwitchTo, or a connection reused before Reset.
AssertNeedsOverlap == aborted => overlap

\* The server disconnects a client only if the client closed.  The exceptions: a
\* client that sent a zero byte (as the first of a portion, it makes an answer of
\* no bytes, whose completion is taken for a close), and one whose data was
\* zeroed in m_readBuf, to the same effect.
DisconnectNeedsClose ==
  \A o \in posted :
    o.op = "disconnect" => peer[o.conn] \in fin \cup nuls \cup wipedRead \/ overlap

\* What waits to be sent to a client is its own data, unless that was zeroed while
\* it waited; and it has bytes of other clients, whom the connection served
\* before, only if these sent a zero byte or had their data zeroed in m_readBuf,
\* so that bytes stayed there.
EchoIntact ==
  \A o \in posted :
    o.op = "write" /\ o.some /\ ~overlap =>
      /\ peer[o.conn] \in wbuf[o.conn] \/ o.conn \in wipedWrite
      /\ wbuf[o.conn] \subseteq {peer[o.conn]} \cup nuls \cup wipedRead

\* What excuses the server from serving: an overlap, a worker ended by an
\* exception, or the end.
Excused == overlap \/ aborted \/ mpc # "key" \/ \E t \in Thread : pc[t] = "dead"

\* A client that closed is disconnected in the end and its connection released.
ClosedIsReleased ==
  \A c \in Conn : peer[c] \in fin ~> c \in avail \/ Excused

\* OnStop returns: each thread finds a packet of its own, however many have ended
\* by an exception.
StopReturns == mpc = "join" ~> mpc = "returned" \/ overlap \/ aborted

=============================================================================
