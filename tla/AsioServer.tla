----------------------------- MODULE AsioServer -----------------------------
(***************************************************************************)
(* AsioServer and AsioClient.  Threads run the handlers of one io_service. *)
(* The handlers of a connection follow one another (read, write, read), so *)
(* each is one step, without a strand or a lock; accepting is a chain of   *)
(* its own, OnAccept starting the new connection and the next accept.      *)
(*                                                                         *)
(* A connection object serves one client and is named after it.  A byte is *)
(* the number of its line, 0 a zero of the buffers.                        *)
(***************************************************************************)
EXTENDS Naturals, FiniteSets, Sequences

CONSTANTS
  Thread,    \* m_threadPool
  Peer,      \* clients
  BufSize,   \* BUF_SIZE of both sides, 1024 in the code
  Talkers,   \* bound: clients that type two lines, the others type nothing
  Lengths,   \* bound: how long a line can be
  Nobody

ASSUME AsioNobody == Nobody \notin Peer
ASSUME AsioBounds ==
  BufSize \in Nat \ {0} /\ Lengths \subseteq Nat /\ Talkers \subseteq Peer

VARIABLES
  pc,        \* threads: "run" (in io_service::run), "start", "listen", "gone"
  conn,      \* the connection OnAccept is about
  mpc,       \* main: "key", "close", "join", "returned"
  ops,       \* asynchronous operations under way
  buf,       \* m_data of each connection
  threw,     \* connections whose Start threw
  cpc,       \* clients: "off", "type", "recv", "closed", "reset"
  waiting,   \* clients not accepted yet
  lines,     \* lines a client has typed
  len,       \* length of the last of them
  shown,     \* dataReceived
  inbox,     \* sent and not read by the server
  back,      \* written and not read by the client
  torn, short  \* history: clients whose line was not read at once; not all of a
               \* buffer was written

threads == <<pc, conn, mpc, threw>>
server == <<ops, buf>>
client == <<cpc, lines, len, shown>>
network == <<waiting, inbox, back>>
vars == <<threads, server, client, network, torn, short>>

AcceptOp == <<"accept", Nobody>>
Min2(a, b) == IF a < b THEN a ELSE b
Rest(s, n) == SubSeq(s, n + 1, Len(s))

\* OnRun up to cin.get(): StartListening, create_thread.
Init ==
  /\ pc = [t \in Thread |-> "run"] /\ conn = [t \in Thread |-> Nobody] /\ mpc = "key"
  /\ ops = {AcceptOp}
  /\ buf = [p \in Peer |-> [i \in 1 .. BufSize |-> 0]]
  /\ threw = {}
  /\ cpc = [p \in Peer |-> "off"]
  /\ lines = [p \in Peer |-> 0] /\ len = [p \in Peer |-> 0]
  /\ shown = [p \in Peer |-> <<>>]
  /\ waiting = {}
  /\ inbox = [p \in Peer |-> <<>>] /\ back = [p \in Peer |-> <<>>]
  /\ torn = {} /\ short = {}

-----------------------------------------------------------------------------
(* AsioClient *)

\* After Stop no handler runs and clients are not followed any more.
Open == mpc = "key"

Connect(p) ==
  /\ Open
  /\ cpc[p] = "off" /\ cpc' = [cpc EXCEPT ![p] = "type"]
  /\ waiting' = waiting \cup {p}
  /\ UNCHANGED <<threads, server, lines, len, shown, inbox, back, torn, short>>

\* getline, boost::asio::write
TypeLine(p) ==
  /\ Open
  /\ cpc[p] = "type" /\ cpc' = [cpc EXCEPT ![p] = "recv"]
  /\ p \in Talkers \ short /\ lines[p] < 2    \* bound: nothing is promised when short
  /\ lines' = [lines EXCEPT ![p] = @ + 1]
  /\ shown' = [shown EXCEPT ![p] = <<>>]
  /\ \E n \in Lengths :
       /\ len' = [len EXCEPT ![p] = n]
       /\ inbox' = [inbox EXCEPT ![p] = @ \o [i \in 1 .. n |-> lines'[p]]]
  /\ UNCHANGED <<threads, server, waiting, back, torn, short>>

\* Mutant: all that was read is shown.
RecvAll(p) ==
  /\ Open
  /\ cpc[p] = "recv" /\ cpc' = [cpc EXCEPT ![p] = "type"]
  /\ Len(back[p]) >= BufSize
  /\ shown' = [shown EXCEPT ![p] = SubSeq(back[p], 1, BufSize)]
  /\ back' = [back EXCEPT ![p] = Rest(@, BufSize)]
  /\ UNCHANGED <<threads, server, lines, len, waiting, inbox, torn, short>>

\* boost::asio::read with transfer_all: a full buffer; the length of the line of
\* it is shown.
Recv(p) ==
  /\ Open
  /\ cpc[p] = "recv" /\ cpc' = [cpc EXCEPT ![p] = "type"]
  /\ Len(back[p]) >= BufSize
  /\ shown' = [shown EXCEPT ![p] = SubSeq(back[p], 1, Min2(BufSize, len[p]))]
  /\ back' = [back EXCEPT ![p] = Rest(@, BufSize)]
  /\ UNCHANGED <<threads, server, lines, len, waiting, inbox, torn, short>>

\* OnStop by a signal; or the connection is reset.
Leave(p) ==
  /\ Open
  /\ cpc[p] \in {"type", "recv"}
  /\ \E how \in {"closed", "reset"} : cpc' = [cpc EXCEPT ![p] = how]
  /\ UNCHANGED <<threads, server, lines, len, shown, network, torn, short>>

-----------------------------------------------------------------------------
(* OnAccept *)

Idle(t) == pc[t] = "run" /\ Open

AcceptComplete(t) ==
  /\ Idle(t) /\ pc' = [pc EXCEPT ![t] = "start"]
  /\ AcceptOp \in ops /\ ops' = ops \ {AcceptOp}
  /\ \E p \in waiting :
       /\ waiting' = waiting \ {p}
       /\ conn' = [conn EXCEPT ![t] = p]
  /\ UNCHANGED <<mpc, threw, buf, client, inbox, back, torn, short>>

\* Mutant: an error ends the chain.
AcceptErrorReturns(t) ==
  /\ Idle(t)
  /\ AcceptOp \in ops /\ ops' = ops \ {AcceptOp}
  /\ waiting # {}
  /\ UNCHANGED <<threads, buf, client, network, torn, short>>

\* No descriptors: the client stays where it is.
AcceptError(t) ==
  /\ Idle(t) /\ pc' = [pc EXCEPT ![t] = "listen"]
  /\ AcceptOp \in ops /\ ops' = ops \ {AcceptOp}
  /\ waiting # {}
  /\ UNCHANGED <<conn, mpc, threw, buf, client, network, torn, short>>

\* connection->Start()
Start(t) ==
  /\ pc[t] = "start" /\ pc' = [pc EXCEPT ![t] = "listen"]
  /\ cpc[conn[t]] # "reset"
  /\ ops' = ops \cup {<<"read", conn[t]>>}
  /\ conn' = [conn EXCEPT ![t] = Nobody]
  /\ UNCHANGED <<mpc, threw, buf, client, network, torn, short>>

\* remote_endpoint() throws out of run(), ThreadCallback catches it and ends:
\* StartListening is not reached.
StartThrows(t) ==
  /\ pc[t] = "start" /\ pc' = [pc EXCEPT ![t] = "gone"]
  /\ cpc[conn[t]] = "reset"
  /\ threw' = threw \cup {conn[t]}
  /\ conn' = [conn EXCEPT ![t] = Nobody]
  /\ UNCHANGED <<mpc, server, client, network, torn, short>>

StartListening(t) ==
  /\ pc[t] = "listen" /\ pc' = [pc EXCEPT ![t] = "run"]
  /\ ops' = ops \cup {AcceptOp}
  /\ UNCHANGED <<conn, mpc, threw, buf, client, network, torn, short>>

-----------------------------------------------------------------------------
(* OnReadComplete, OnWriteComplete *)

Completes(t, kind, p) == Idle(t) /\ <<kind, p>> \in ops

Next_(kind, p, then) == ops' = (ops \ {<<kind, p>>}) \cup {<<then, p>>}

\* Some of what has arrived, at the beginning of m_data; the rest of it stays.
ReadComplete(t, p) ==
  /\ Completes(t, "read", p)
  /\ cpc[p] # "reset"
  /\ \E n \in 1 .. Min2(BufSize, Len(inbox[p])) :
       /\ buf' = [buf EXCEPT ![p] = [i \in 1 .. BufSize |-> IF i <= n THEN inbox[p][i] ELSE @[i]]]
       /\ inbox' = [inbox EXCEPT ![p] = Rest(@, n)]
       /\ torn' = IF n # len[p] THEN torn \cup {p} ELSE torn
  /\ Next_("read", p, "write")
  /\ UNCHANGED <<threads, client, waiting, back, short>>

\* m_sock.close()
ReadError(t, p) ==
  /\ Completes(t, "read", p)
  /\ cpc[p] = "reset" \/ (cpc[p] = "closed" /\ inbox[p] = <<>>)
  /\ ops' = ops \ {<<"read", p>>}
  /\ UNCHANGED <<threads, buf, client, network, torn, short>>

\* Mutant: only what was read is written.
WriteCompletePart(t, p) ==
  /\ Completes(t, "write", p)
  /\ cpc[p] # "reset"
  /\ back' = [back EXCEPT ![p] = @ \o SubSeq(buf[p], 1, Min2(BufSize, len[p]))]
  /\ Next_("write", p, "read")
  /\ UNCHANGED <<threads, buf, client, waiting, inbox, torn, short>>

\* async_write_some of all of m_data; less if the socket has no room for it, and
\* that is not continued.
WriteComplete(t, p) ==
  /\ Completes(t, "write", p)
  /\ cpc[p] # "reset"
  /\ \E n \in 1 .. BufSize :
       /\ n = BufSize \/ back[p] # <<>>
       /\ back' = [back EXCEPT ![p] = @ \o SubSeq(buf[p], 1, n)]
       /\ short' = IF n < BufSize THEN short \cup {p} ELSE short
  /\ Next_("write", p, "read")
  /\ UNCHANGED <<threads, buf, client, waiting, inbox, torn>>

WriteError(t, p) ==
  /\ Completes(t, "write", p)
  /\ cpc[p] \in {"closed", "reset"}
  /\ ops' = ops \ {<<"write", p>>}
  /\ UNCHANGED <<threads, buf, client, network, torn, short>>

-----------------------------------------------------------------------------
(* OnStop *)

\* m_ioSvc.stop(): no more handlers; those that run go on.
Stop ==
  /\ mpc = "key" /\ mpc' = "close"
  /\ UNCHANGED <<pc, conn, threw, server, client, network, torn, short>>

\* m_acceptor.close(), perhaps while a thread is in async_accept.
CloseAcceptor ==
  /\ mpc = "close" /\ mpc' = "join"
  /\ ops' = ops \ {AcceptOp}
  /\ UNCHANGED <<pc, conn, threw, buf, client, network, torn, short>>

\* run() also returns when it has no work left: after Start has thrown, when the
\* last connection ends.
OutOfWork == ops = {} /\ \A t \in Thread : pc[t] \in {"run", "gone"}

RunReturns(t) ==
  /\ pc[t] = "run" /\ pc' = [pc EXCEPT ![t] = "gone"]
  /\ mpc # "key" \/ OutOfWork
  /\ UNCHANGED <<conn, mpc, threw, server, client, network, torn, short>>

\* m_threadPool.join_all()
JoinAll ==
  /\ mpc = "join" /\ mpc' = "returned"
  /\ \A t \in Thread : pc[t] = "gone"
  /\ UNCHANGED <<pc, conn, threw, server, client, network, torn, short>>

-----------------------------------------------------------------------------
ThreadStep(t) ==
  \/ AcceptComplete(t) \/ AcceptError(t) \/ Start(t) \/ StartThrows(t)
  \/ StartListening(t) \/ RunReturns(t)

Serve(t, p) ==
  ReadComplete(t, p) \/ ReadError(t, p) \/ WriteComplete(t, p) \/ WriteError(t, p)

ClientStep(p) == Connect(p) \/ TypeLine(p) \/ Recv(p) \/ Leave(p)

Next ==
  \/ \E t \in Thread : ThreadStep(t)
  \/ \E t \in Thread, p \in Peer : Serve(t, p)
  \/ \E p \in Peer : ClientStep(p)
  \/ Stop \/ CloseAcceptor \/ JoinAll

Spec == Init /\ [][Next]_vars

\* Threads run, and the io_service takes handlers in the order they became ready:
\* a connection is served though threads are busy with others in between.
FairSpec ==
  /\ Spec
  /\ \A t \in Thread : WF_vars(ThreadStep(t))
  /\ \A p \in Peer : SF_vars(\E t \in Thread : Serve(t, p))
  /\ \A p \in Peer : WF_vars(Recv(p))

-----------------------------------------------------------------------------
(* Properties *)

OpsOf(p) == {o \in ops : o[2] = p}
Accepting == {t \in Thread : pc[t] \in {"start", "listen"}}

\* The chains: a connection never has two operations, which would share its
\* m_data; and until the server is stopped there is one accept, under way or about
\* to be started by one thread, unless Start has thrown: then nobody ever accepts
\* again, though the other threads serve on.
OneChain ==
  /\ \A p \in Peer : Cardinality(OpsOf(p)) <= 1
  /\ mpc = "key" => Cardinality(OpsOf(Nobody)) + Cardinality(Accepting) =
                    (IF threw = {} THEN 1 ELSE 0)

\* A client shows the line it typed, though the answer is a full buffer with rests
\* of earlier lines, as long as each line was read at once and each buffer written
\* at once.
AnswerIsTyped ==
  \A p \in Peer :
    p \notin torn \cup short /\ cpc[p] = "type" =>
      shown[p] = [i \in 1 .. (IF lines[p] = 0 THEN 0 ELSE len[p]) |-> lines[p]]

\* Something of p is on its way through the server.
Owed(p) == inbox[p] # <<>> \/ <<"write", p>> \in ops

Accepted(p) == OpsOf(p) # {}

\* A client that waits for an answer gets one, also when other clients make
\* accepting fail for good, unless a buffer was not written at once: the client
\* insists on a full one.
AsioClientIsAnswered ==
  \A p \in Peer :
    cpc[p] = "recv" /\ Accepted(p) /\ Owed(p) ~>
      cpc[p] # "recv" \/ p \in short \/ mpc # "key" \/ \A t \in Thread : pc[t] = "gone"

=============================================================================
