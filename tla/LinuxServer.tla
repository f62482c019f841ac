----------------------------- MODULE LinuxServer -----------------------------
(***************************************************************************)
(* LinuxServer at work: the workers of the IoManager complete events of    *)
(* the acceptor and of the connections, each call step by step between the *)
(* accesses to state that other threads share (m_newConnection,            *)
(* m_endpoint, m_dataExchange, the descriptor table, the epoll set).  The  *)
(* connection manager is its available list, with Get and Release atomic   *)
(* (see ConnectionManager), and starting and stopping the workers is left  *)
(* to ServerLifecycle.                                                     *)
(*                                                                         *)
(* Data is abstracted to "there is unread data of this peer": what the     *)
(* reads leave in m_readBuf, and so what is answered to whom, is the       *)
(* subject of DataExchange.  Epoll is edge triggered: an event is queued   *)
(* when something arrives, and any worker may take it, also while another  *)
(* worker is still busy with the same endpoint.                            *)
(***************************************************************************)
EXTENDS Naturals, FiniteSets, FiniteSetsExt

CONSTANTS
  Main,     \* the main thread: the DoAccept of OnRun
  Worker,   \* the threads of the pool
  Peer,     \* clients
  Conn,     \* connection objects memory has room for
  Prealloc, \* those made by the constructor of the connection manager
  MaxFd,    \* descriptors: 0 (standard input) and those accept may return
  MaxMsg,   \* bound: portions of data a client sends
  AfterRace, \* bound: whether to follow behaviours past the first race
  Senders,  \* clients that send data
  Resets,   \* clients that may reset their connection
  Acceptor, \* the acceptor as an endpoint
  None,     \* no connection, no endpoint
  NoPeer,   \* a descriptor that is closed
  Stdin     \* what descriptor 0 is at the start

ASSUME ServerThreads == Main \notin Worker
ASSUME ServerPrealloc == Prealloc \subseteq Conn
ASSUME ServerNulls ==
  /\ None \notin Conn \cup {Acceptor} /\ Acceptor \notin Conn
  /\ NoPeer \notin Peer /\ Stdin \notin Peer /\ NoPeer # Stdin
  /\ Acceptor \notin 0 .. MaxFd
ASSUME ServerBounds ==
  /\ MaxFd \in Nat \ {0} /\ MaxMsg \in Nat
  /\ AfterRace \in BOOLEAN /\ Senders \subseteq Peer /\ Resets \subseteq Peer

Thread == Worker \cup {Main}
Fd == 0 .. MaxFd
Backlog == 2    \* listen(m_endpoint, 1): Linux queues one more

VARIABLES
  pc,         \* where each thread is
  batch,      \* endpoints of the events array the thread has not completed yet
  hand,       \* the endpoint whose Complete the thread is in
  cur,        \* local connection: of OnDataExchangeComplete, or of DoAccept
  nc,         \* OnAcceptComplete's argument newConnection
  fd,         \* Accept's local res
  target,     \* the connection whose Set the thread is in
  m_newConnection,
  endpoint,   \* m_endpoint of each connection
  dataExchange,  \* m_dataExchange of each connection
  avail,      \* the list of available connections, as a bag
  created,    \* connection objects made so far
  file,       \* descriptor table: what each descriptor is open on
  reg,        \* epoll set: the connection a descriptor is registered for
  ready,      \* epoll ready list: descriptors, and the acceptor
  backlog,    \* clients waiting to be accepted
  sent,       \* portions each client has sent (bounded by MaxMsg)
  unread,     \* clients whose data waits in the socket
  fin, rst,   \* clients that closed, that reset
  aborted,    \* what ended the process: "no", "assert", "sigpipe"
  race,       \* history: two threads had events of one endpoint at the same time
  skipped     \* history: clients whose end of file only a discarded read saw

locals == <<batch, hand, cur, nc, fd, target>>
objects == <<m_newConnection, endpoint, dataExchange, avail, created>>
kernel == <<file, reg, ready, backlog>>
peers == <<sent, unread, fin, rst>>
history == <<race, skipped>>
vars == <<pc, locals, objects, kernel, peers, aborted, history>>

Phase == {"off", "wait", "pick", "get", "accept", "giveBack", "publish", "setFd",
          "setMode", "bind", "readNew", "read", "data", "write", "reread", "unbind",
          "reset", "close", "zero", "clear", "release", "stdin", "dead"}

Init ==
  /\ pc = [t \in Thread |-> IF t = Main THEN "get" ELSE "off"]
  /\ batch = [t \in Thread |-> {}]
  /\ hand = [t \in Thread |-> None]
  /\ cur = [t \in Thread |-> None]
  /\ nc = [t \in Thread |-> None]
  /\ fd = [t \in Thread |-> 0]
  /\ target = [t \in Thread |-> None]
  /\ m_newConnection = None
  /\ endpoint = [c \in Conn |-> 0]
  /\ dataExchange = [c \in Conn |-> FALSE]
  /\ avail = [c \in Conn |-> IF c \in Prealloc THEN 1 ELSE 0]
  /\ created = Prealloc
  /\ file = [f \in Fd |-> IF f = 0 THEN Stdin ELSE NoPeer]
  /\ reg = [f \in Fd |-> None]
  /\ ready = {}
  /\ backlog = {}
  /\ sent = [p \in Peer |-> 0]
  /\ unread = {} /\ fin = {} /\ rst = {}
  /\ aborted = "no"
  /\ race = FALSE
  /\ skipped = {}

\* The process runs until an assertion fails or a signal kills it.
Runs == aborted = "no" /\ (race => AfterRace)

Go(t, from, to) == Runs /\ pc[t] = from /\ pc' = [pc EXCEPT ![t] = to]

\* The end of Complete: on with the batch.  For main, the end of the first
\* DoAccept, after which Start lets the workers run.
Finish(t) ==
  /\ Runs
  /\ pc' = IF t = Main THEN [u \in Thread |-> IF u = Main THEN "off" ELSE "wait"]
                       ELSE [pc EXCEPT ![t] = "pick"]
  /\ hand' = [hand EXCEPT ![t] = None]
  /\ cur' = [cur EXCEPT ![t] = None]
  /\ nc' = [nc EXCEPT ![t] = None]
  /\ fd' = [fd EXCEPT ![t] = 0]
  /\ target' = [target EXCEPT ![t] = None]
  /\ UNCHANGED batch

\* An exception leaves Run and ends the worker; its batch is forgotten.
Throw(t) ==
  /\ Runs
  /\ pc' = [pc EXCEPT ![t] = "dead"]
  /\ hand' = [hand EXCEPT ![t] = None]
  /\ cur' = [cur EXCEPT ![t] = None]
  /\ batch' = [batch EXCEPT ![t] = {}]
  /\ UNCHANGED <<nc, fd, target>>

\* read() on standard input does not return: nobody types.
Block(t) == Runs /\ pc' = [pc EXCEPT ![t] = "stdin"] /\ UNCHANGED locals

Abort(why) ==
  Runs /\ aborted' = why /\ UNCHANGED <<pc, locals, objects, kernel, peers, history>>

\* What read() and write() find behind descriptor f.
HasData(f) == file[f] \in unread
\* (A reset that follows an end of file does not take the end of file away, and
\* one that was reported is an end of file from then on.)
IsBroken(f) == file[f] = NoPeer \/ file[f] \in rst \ (fin \cup unread)
AtEof(f) == file[f] \in fin \ unread
HasNothing(f) == file[f] \in Peer \ (fin \cup rst \cup unread)

\* A call on descriptor f fails: of a reset the socket tells once.
Reported(f) == fin' = fin \cup ({file[f]} \cap rst)

\* Something happens to client p: an edge, if p's descriptor is in the epoll set.
Edge(p) == ready' = ready \cup {f \in Fd : file[f] = p /\ reg[f] # None}

-----------------------------------------------------------------------------
(* Clients and the kernel. *)

Known(p) == p \in backlog \/ \E f \in Fd : file[f] = p

Connect(p) ==
  /\ Runs
  /\ ~Known(p)
  /\ sent[p] = 0 /\ p \notin fin \cup rst
  /\ Cardinality(backlog) < Backlog
  /\ backlog' = backlog \cup {p}
  /\ ready' = ready \cup {Acceptor}
  /\ UNCHANGED <<pc, locals, objects, file, reg, peers, aborted, history>>

Send(p) ==
  /\ Runs
  /\ Known(p)
  /\ p \in Senders \ (fin \cup rst)
  /\ sent[p] < MaxMsg
  /\ sent' = [sent EXCEPT ![p] = @ + 1]
  /\ unread' = unread \cup {p}
  /\ Edge(p)
  /\ UNCHANGED <<pc, locals, objects, file, reg, backlog, fin, rst, aborted, history>>

\* The client shuts down its side and still reads the answers.
Close(p) ==
  /\ Runs
  /\ Known(p)
  /\ p \notin fin \cup rst
  /\ fin' = fin \cup {p}
  /\ Edge(p)
  /\ UNCHANGED <<pc, locals, objects, file, reg, backlog, sent, unread, rst, aborted, history>>

Reset(p) ==
  /\ Runs
  /\ p \in Resets \ rst
  /\ \E f \in Fd : file[f] = p
  /\ rst' = rst \cup {p}
  /\ Edge(p)
  /\ UNCHANGED <<pc, locals, objects, file, reg, backlog, sent, unread, fin, aborted, history>>

-----------------------------------------------------------------------------
(* IoManager::Run *)

\* The endpoints thread t has events of.
Busy(t) == batch[t] \cup ({hand[t]} \ {None})

\* Mutant: an events array of one, the rest is lost.
HarvestOne(t) ==
  LET found == {reg[f] : f \in ready \cap Fd}
                 \cup (IF backlog # {} THEN ready \cap {Acceptor} ELSE {})
  IN /\ Go(t, "wait", "pick")
     /\ \E x \in found : batch' = [batch EXCEPT ![t] = {x}]
     /\ ready' = {}
     /\ race' = (race \/ \E u \in Worker \ {t} : found \cap Busy(u) # {})
     /\ UNCHANGED <<hand, cur, nc, fd, target, objects, file, reg, backlog, peers,
                    aborted, skipped>>

\* epoll_wait hands over every ready endpoint; the acceptor only while somebody
\* waits to be accepted.
Harvest(t) ==
  LET found == {reg[f] : f \in ready \cap Fd}
                 \cup (IF backlog # {} THEN ready \cap {Acceptor} ELSE {})
  IN /\ Go(t, "wait", "pick")
     /\ found # {}
     /\ batch' = [batch EXCEPT ![t] = found]
     /\ ready' = {}
     /\ race' = (race \/ \E u \in Worker \ {t} : found \cap Busy(u) # {})
     /\ UNCHANGED <<hand, cur, nc, fd, target, objects, file, reg, backlog, peers,
                    aborted, skipped>>

BatchDone(t) ==
  /\ Go(t, "pick", "wait")
  /\ batch[t] = {}
  /\ UNCHANGED <<locals, objects, kernel, peers, aborted, history>>

Take(t, x) ==
  /\ x \in batch[t]
  /\ batch' = [batch EXCEPT ![t] = @ \ {x}]
  /\ hand' = [hand EXCEPT ![t] = x]

\* AcceptorImpl::Complete passes on m_newConnection.
CompleteAccept(t) ==
  /\ Go(t, "pick", "get")
  /\ Take(t, Acceptor)
  /\ nc' = [nc EXCEPT ![t] = m_newConnection]
  /\ UNCHANGED <<cur, fd, target, objects, kernel, peers, aborted, history>>

\* ConnectionImpl::Complete: assert(m_dataExchange), then the callback.
CompleteConnection(t) ==
  \E c \in Conn :
    /\ dataExchange[c]
    /\ Go(t, "pick", "read")
    /\ Take(t, c)
    /\ cur' = [cur EXCEPT ![t] = c]
    /\ UNCHANGED <<nc, fd, target, objects, kernel, peers, aborted, history>>

CompleteAsserts(t) ==
  /\ pc[t] = "pick"
  /\ \E c \in batch[t] \cap Conn : ~dataExchange[c]
  /\ Abort("assert")

-----------------------------------------------------------------------------
(* DoAccept, AcceptAsync and OnAcceptComplete *)

\* m_cnMgr.Get()
Get(t) ==
  /\ Go(t, "get", "accept")
  /\ \E c \in Conn :
       /\ IF \E d \in Conn : avail[d] > 0
          THEN /\ avail[c] > 0
               /\ avail' = [avail EXCEPT ![c] = @ - 1]
               /\ UNCHANGED created
          ELSE /\ c \notin created
               /\ created' = created \cup {c}
               /\ UNCHANGED avail
       /\ cur' = [cur EXCEPT ![t] = c]
  /\ UNCHANGED <<batch, hand, nc, fd, target, m_newConnection, endpoint, dataExchange,
                 kernel, peers, aborted, history>>

\* None is available and there is no memory for a new one.
GetThrows(t) ==
  /\ pc[t] = "get"
  /\ \A c \in Conn : avail[c] = 0
  /\ Throw(t)
  /\ UNCHANGED <<objects, kernel, peers, aborted, history>>

FreeFds == {f \in Fd : file[f] = NoPeer}

\* accept() takes the lowest free descriptor.
Accept(t) ==
  /\ Go(t, "accept", "publish")
  /\ \E p \in backlog, f \in FreeFds \ {0} :
       /\ \A g \in FreeFds : f <= g
       /\ backlog' = backlog \ {p}
       /\ file' = [file EXCEPT ![f] = p]
       /\ fd' = [fd EXCEPT ![t] = f]
  /\ UNCHANGED <<batch, hand, cur, nc, target, objects, reg, ready, peers, aborted, history>>

\* Nobody waits (EAGAIN): AcceptAsync returns false.
AcceptNothing(t) ==
  /\ Go(t, "accept", "giveBack")
  /\ backlog = {}
  /\ UNCHANGED <<locals, objects, kernel, peers, aborted, history>>

\* Descriptor 0 had been closed and comes back: taken for "socket closed".
AcceptZero(t) ==
  /\ Go(t, "accept", "giveBack")
  /\ file[0] = NoPeer
  /\ \E p \in backlog :
       /\ backlog' = backlog \ {p}
       /\ file' = [file EXCEPT ![0] = p]
  /\ UNCHANGED <<locals, objects, reg, ready, peers, aborted, history>>

\* EMFILE, ENFILE, ENOMEM: at any time, not only when this table is full.
AcceptThrows(t) ==
  /\ pc[t] = "accept"
  /\ backlog # {}
  /\ Throw(t)
  /\ UNCHANGED <<objects, kernel, peers, aborted, history>>

\* m_cnMgr.Release(connection): nothing was accepted.
GiveBack(t) ==
  /\ pc[t] = "giveBack"
  /\ avail' = [avail EXCEPT ![cur[t]] = @ + 1]
  /\ Finish(t)
  /\ UNCHANGED <<m_newConnection, endpoint, dataExchange, created, kernel, peers,
                 aborted, history>>

\* m_newConnection = connection
Publish(t) ==
  /\ Go(t, "publish", "setFd")
  /\ m_newConnection' = cur[t]
  /\ UNCHANGED <<locals, endpoint, dataExchange, avail, created, kernel, peers,
                 aborted, history>>

\* m_newConnection->Set(res), whichever connection that now is: m_endpoint
\* first, m_dataExchange after ioctl.
SetFd(t) ==
  /\ Go(t, "setFd", "setMode")
  /\ target' = [target EXCEPT ![t] = m_newConnection]
  /\ endpoint' = [endpoint EXCEPT ![m_newConnection] = fd[t]]
  /\ UNCHANGED <<batch, hand, cur, nc, fd, m_newConnection, dataExchange, avail,
                 created, kernel, peers, aborted, history>>

\* Mutant: SetDataExchangeMode(true) is forgotten.
SetNoMode(t) ==
  /\ Go(t, "setMode", "bind")
  /\ UNCHANGED <<locals, objects, kernel, peers, aborted, history>>

SetMode(t) ==
  /\ Go(t, "setMode", "bind")
  /\ dataExchange' = [dataExchange EXCEPT ![target[t]] = TRUE]
  /\ UNCHANGED <<locals, m_newConnection, endpoint, avail, created, kernel, peers,
                 aborted, history>>

\* Mutant: only main's DoAccept starts asynchronous IO.
BindMainOnly(t) ==
  /\ pc[t] = "bind"
  /\ t = Main => reg' = [reg EXCEPT ![endpoint[cur[t]]] = cur[t]]
  /\ t # Main => UNCHANGED reg
  /\ ready' = IF t = Main THEN ready \cup {endpoint[cur[t]]} ELSE ready
  /\ Finish(t)
  /\ UNCHANGED <<objects, file, backlog, peers, aborted, history>>

\* StartAsyncIo(connection): into the epoll set; a socket is writable at once,
\* so the first event is already there.
Bind(t) ==
  LET f == endpoint[cur[t]]
  IN /\ pc[t] = "bind"
     /\ file[f] # NoPeer /\ reg[f] = None
     /\ reg' = [reg EXCEPT ![f] = cur[t]]
     /\ ready' = ready \cup {f}
     /\ \/ nc[t] = None /\ Finish(t)
        \/ /\ nc[t] # None
           /\ Go(t, "bind", "readNew")
           /\ cur' = [cur EXCEPT ![t] = None]
           /\ UNCHANGED <<batch, hand, nc, fd, target>>
     /\ UNCHANGED <<objects, file, backlog, peers, aborted, history>>

\* epoll_ctl fails: EBADF, EEXIST; EPERM where standard input is a file.
BindThrows(t) ==
  LET f == endpoint[cur[t]]
  IN /\ pc[t] = "bind"
     /\ file[f] \notin Peer \/ reg[f] # None
     /\ Throw(t)
     /\ UNCHANGED <<objects, kernel, peers, aborted, history>>

-----------------------------------------------------------------------------
(* ReadAsync where the caller discards what it returns. *)

DiscardingRead(t, from, c) ==
  LET f == endpoint[c]
  IN /\ pc[t] = from
     /\ \/ /\ HasData(f)
           /\ unread' = unread \ {file[f]}
           /\ Finish(t)
           /\ UNCHANGED <<fin, skipped>>
        \/ /\ AtEof(f)
           /\ skipped' = IF from = "reread" THEN skipped \cup {file[f]} ELSE skipped
           /\ Finish(t)
           /\ UNCHANGED <<unread, fin>>
        \/ HasNothing(f) /\ Finish(t) /\ UNCHANGED <<unread, fin, skipped>>
        \/ IsBroken(f) /\ Throw(t) /\ Reported(f) /\ UNCHANGED <<unread, skipped>>
        \/ file[f] = Stdin /\ Block(t) /\ UNCHANGED <<unread, fin, skipped>>
     /\ UNCHANGED <<objects, kernel, sent, rst, aborted, race>>

\* OnAcceptComplete: newConnection->ReadAsync()
ReadNew(t) == DiscardingRead(t, "readNew", nc[t])

-----------------------------------------------------------------------------
(* OnDataExchangeComplete *)

ReadData(t) ==
  LET f == endpoint[cur[t]]
  IN /\ Go(t, "read", "data")
     /\ HasData(f)
     /\ unread' = unread \ {file[f]}
     /\ UNCHANGED <<locals, objects, kernel, sent, fin, rst, aborted, history>>

\* Mutant: EAGAIN releases the connection as well (res <= 0).
ReadNothingReleases(t) ==
  /\ Go(t, "read", "release")
  /\ HasNothing(endpoint[cur[t]])
  /\ UNCHANGED <<locals, objects, kernel, peers, aborted, history>>

\* EAGAIN: return 0.
ReadNothing(t) ==
  /\ pc[t] = "read"
  /\ HasNothing(endpoint[cur[t]])
  /\ Finish(t)
  /\ UNCHANGED <<objects, kernel, peers, aborted, history>>

\* Mutant: Release without Disconnect.
ReadEofReleases(t) ==
  /\ Go(t, "read", "release")
  /\ AtEof(endpoint[cur[t]])
  /\ UNCHANGED <<locals, objects, kernel, peers, aborted, history>>

\* Remote side disconnected.
ReadEof(t) ==
  /\ Go(t, "read", "unbind")
  /\ AtEof(endpoint[cur[t]])
  /\ UNCHANGED <<locals, objects, kernel, peers, aborted, history>>

\* ECONNRESET, EBADF
ReadThrows(t) ==
  /\ pc[t] = "read"
  /\ IsBroken(endpoint[cur[t]])
  /\ Throw(t)
  /\ Reported(endpoint[cur[t]])
  /\ UNCHANGED <<objects, kernel, sent, unread, rst, aborted, history>>

ReadStdin(t) ==
  /\ pc[t] = "read"
  /\ file[endpoint[cur[t]]] = Stdin
  /\ Block(t)
  /\ UNCHANGED <<objects, kernel, peers, aborted, history>>

\* GetInputData: assert(m_dataExchange)
GetData(t) ==
  /\ Go(t, "data", "write")
  /\ dataExchange[cur[t]]
  /\ UNCHANGED <<locals, objects, kernel, peers, aborted, history>>

GetDataAsserts(t) ==
  /\ pc[t] = "data"
  /\ ~dataExchange[cur[t]]
  /\ Abort("assert")

\* WriteAsync(data)
Write(t) ==
  LET f == endpoint[cur[t]]
  IN /\ Go(t, "write", "reread")
     /\ file[f] \notin rst \cup {NoPeer}
     /\ UNCHANGED <<locals, objects, kernel, peers, aborted, history>>

\* EBADF, ECONNRESET; EAGAIN where the client does not take its answers.
WriteThrows(t) ==
  LET f == endpoint[cur[t]]
  IN /\ pc[t] = "write"
     /\ file[f] \notin (rst \cap fin) \cup {Stdin}
     /\ Throw(t)
     /\ Reported(f)
     /\ UNCHANGED <<objects, kernel, sent, unread, rst, aborted, history>>

\* EPIPE comes with SIGPIPE, for which the program has no handler.
WriteKills(t) ==
  /\ pc[t] = "write"
  /\ file[endpoint[cur[t]]] \in rst \cap fin
  /\ Abort("sigpipe")

\* Get ready to read next data portion.
Reread(t) == DiscardingRead(t, "reread", cur[t])

-----------------------------------------------------------------------------
(* Disconnect: StopAsyncIo, Reset; then m_cnMgr.Release *)

\* StopAsyncIo: out of the epoll set, unless the object is in its initial state.
Unbind(t) ==
  LET f == endpoint[cur[t]]
  IN /\ Go(t, "unbind", "reset")
     /\ IF dataExchange[cur[t]]
        THEN /\ reg[f] # None
             /\ reg' = [reg EXCEPT ![f] = None]
             /\ ready' = ready \ {f}
        ELSE UNCHANGED <<reg, ready>>
     /\ UNCHANGED <<locals, objects, file, backlog, peers, aborted, history>>

\* epoll_ctl fails: ENOENT, EBADF.
UnbindThrows(t) ==
  LET f == endpoint[cur[t]]
  IN /\ pc[t] = "unbind"
     /\ dataExchange[cur[t]]
     /\ reg[f] = None
     /\ Throw(t)
     /\ UNCHANGED <<objects, kernel, peers, aborted, history>>

\* Mutant: Reset does not close the descriptor.
ResetKeepsOpen(t) ==
  /\ Go(t, "reset", IF dataExchange[cur[t]] THEN "zero" ELSE "release")
  /\ UNCHANGED <<locals, objects, kernel, peers, aborted, history>>

\* Reset: if IsInitialState() return
ResetChecks(t) ==
  /\ Go(t, "reset", IF dataExchange[cur[t]] THEN "close" ELSE "release")
  /\ UNCHANGED <<locals, objects, kernel, peers, aborted, history>>

CloseFd(t) ==
  LET f == endpoint[cur[t]]
  IN /\ Go(t, "close", "zero")
     /\ file' = [file EXCEPT ![f] = NoPeer]
     /\ reg' = [reg EXCEPT ![f] = None]
     /\ ready' = ready \ {f}
     /\ UNCHANGED <<locals, objects, backlog, peers, aborted, history>>

ZeroEndpoint(t) ==
  /\ Go(t, "zero", "clear")
  /\ endpoint' = [endpoint EXCEPT ![cur[t]] = 0]
  /\ UNCHANGED <<locals, m_newConnection, dataExchange, avail, created, kernel, peers,
                 aborted, history>>

ClearMode(t) ==
  /\ Go(t, "clear", "release")
  /\ dataExchange' = [dataExchange EXCEPT ![cur[t]] = FALSE]
  /\ UNCHANGED <<locals, m_newConnection, endpoint, avail, created, kernel, peers,
                 aborted, history>>

Release(t) ==
  /\ pc[t] = "release"
  /\ avail' = [avail EXCEPT ![cur[t]] = @ + 1]
  /\ Finish(t)
  /\ UNCHANGED <<m_newConnection, endpoint, dataExchange, created, kernel, peers,
                 aborted, history>>

-----------------------------------------------------------------------------

ThreadStep(t) ==
  \/ Get(t) \/ GetThrows(t)
  \/ Accept(t) \/ AcceptNothing(t) \/ AcceptZero(t) \/ AcceptThrows(t)
  \/ GiveBack(t) \/ Publish(t) \/ SetFd(t) \/ SetMode(t) \/ Bind(t) \/ BindThrows(t)
  \/ ReadNew(t)

WorkerStep(t) ==
  \/ Harvest(t) \/ BatchDone(t)
  \/ CompleteAccept(t) \/ CompleteConnection(t) \/ CompleteAsserts(t)
  \/ ReadData(t) \/ ReadNothing(t) \/ ReadEof(t) \/ ReadThrows(t) \/ ReadStdin(t)
  \/ GetData(t) \/ GetDataAsserts(t) \/ Write(t) \/ WriteThrows(t) \/ WriteKills(t) \/ Reread(t)
  \/ Unbind(t) \/ UnbindThrows(t)
  \/ ResetChecks(t) \/ CloseFd(t) \/ ZeroEndpoint(t) \/ ClearMode(t) \/ Release(t)

ClientStep(p) == Connect(p) \/ Send(p) \/ Close(p) \/ Reset(p)

Next ==
  \/ \E t \in Thread : ThreadStep(t)
  \/ \E t \in Worker : WorkerStep(t)
  \/ \E p \in Peer : ClientStep(p)

Spec == Init /\ [][Next]_vars

\* The operating system schedules every thread; clients owe nothing.
Fairness ==
  /\ \A t \in Thread : WF_vars(ThreadStep(t))
  /\ \A t \in Worker : WF_vars(WorkerStep(t))

FairSpec == Spec /\ Fairness

-----------------------------------------------------------------------------
(* Properties *)

TypeOK ==
  /\ pc \in [Thread -> Phase]
  /\ batch \in [Thread -> SUBSET (Conn \cup {Acceptor})]
  /\ hand \in [Thread -> Conn \cup {Acceptor, None}]
  /\ cur \in [Thread -> Conn \cup {None}] /\ nc \in [Thread -> Conn \cup {None}]
  /\ fd \in [Thread -> Fd]
  /\ target \in [Thread -> Conn \cup {None}]
  /\ m_newConnection \in Conn \cup {None}
  /\ endpoint \in [Conn -> Fd]
  /\ dataExchange \in [Conn -> BOOLEAN]
  /\ avail \in [Conn -> Nat]
  /\ created \in SUBSET Conn
  /\ file \in [Fd -> Peer \cup {NoPeer, Stdin}]
  /\ reg \in [Fd -> Conn \cup {None}]
  /\ ready \in SUBSET (Fd \cup {Acceptor})
  /\ backlog \in SUBSET Peer
  /\ sent \in [Peer -> 0 .. MaxMsg]
  /\ unread \in SUBSET Peer /\ fin \in SUBSET Peer /\ rst \in SUBSET Peer
  /\ aborted \in {"no", "assert", "sigpipe"} /\ race \in BOOLEAN
  /\ skipped \in SUBSET Peer

\* Thread t carries descriptor f from accept() to Set; connection c is past
\* close() and still remembers the number.
Carries(t, f) == pc[t] \in {"publish", "setFd"} /\ fd[t] = f
Closing(c) == \E t \in Thread : pc[t] = "zero" /\ cur[t] = c

Owners(f) == {c \in Conn : endpoint[c] = f /\ ~Closing(c)}

\* As long as no two workers had events of one endpoint at the same time:
\* every accepted socket has exactly one owner, the thread that is accepting it
\* or one connection object, and is registered for that object or not at all.
\* So none leaks and none is shared.
OneOwner ==
  ~race => \A f \in Fd : file[f] \in Peer =>
    /\ Cardinality(Owners(f) \cup {t \in Thread : Carries(t, f)}) = 1
    /\ reg[f] \in Owners(f) \cup {None}

\* As long as there was no race: a connection in the available list is in it
\* once, is in its initial state, and no worker is about to use it (but for the
\* read of OnAcceptComplete, which follows m_newConnection).  Get hands it to
\* the next client without looking.
AvailClean ==
  ~race => \A c \in Conn : avail[c] > 0 =>
    /\ avail[c] = 1
    /\ endpoint[c] = 0 /\ ~dataExchange[c]
    /\ \A f \in Fd : reg[f] # c
    /\ \A t \in Thread : c \notin Busy(t) \cup {cur[t]}

\* The assertions of Complete and GetInputData can fail only after a race: the
\* steps of a single worker, the reuse of objects and of descriptors, and the
\* accepting thread never lead there.
AbortNeedsRace == aborted = "assert" => race

\* As long as there was no race, a worker that serves a connection never finds
\* descriptor 0 in it: one blocks on standard input only in OnAcceptComplete, whose
\* m_newConnection may have been released since it was accepted.
StdinNeedsAccept ==
  ~race => \A t \in Thread : pc[t] = "stdin" => hand[t] = Acceptor /\ cur[t] = None

Accepted(p) == \E f \in Fd : file[f] = p

\* What excuses the server: a race, the end of the process, a worker ended by an
\* exception or blocked on standard input.
Broken == race \/ aborted # "no" \/ \E t \in Thread : pc[t] \in {"dead", "stdin"}

\* What an accepted client sent is read in the end: no edge is lost between
\* accept, registration and the rounds of epoll_wait.
DataIsRead == \A p \in Peer : Accepted(p) /\ p \in unread ~> p \notin unread \/ Broken

\* The descriptor of a client that closed is closed in the end, unless a read
\* whose result is thrown away was the one to see the end of file.
FinIsServed ==
  \A p \in Peer : Accepted(p) /\ p \in fin ~> ~Accepted(p) \/ p \in skipped \/ Broken

\* An edge of the acceptor leads to an accept: a client that waits alone is
\* accepted, or others come to wait with it.  (Of several that share an edge only
\* one is accepted, the next when another connects.)
LoneClientAccepted ==
  \A p \in Peer : Acceptor \in ready /\ backlog = {p} ~> backlog # {p} \/ Broken

\* Endpoint.cpp:471 and :458 assert(m_dataExchange).
NoAssertFails == aborted # "assert"

=============================================================================
