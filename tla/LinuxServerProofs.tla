--------------------------- MODULE LinuxServerProofs ---------------------------
(***************************************************************************)
(* Proofs about LinuxServer.  Its four safety properties are conditional   *)
(* on there having been no race, so the invariant has two parts: ShapeInv, *)
(* which holds always (types, and what a phase says of the thread that is  *)
(* in it), and OwnInv, which holds up to the first race and follows each   *)
(* connection object and each descriptor from owner to owner through       *)
(* accept, exchange and disconnect.                                        *)
(***************************************************************************)
EXTENDS LinuxServer, FiniteSetTheorems, TLAPS

\* The phases of an accept, those in which it has a new connection, and the phases
\* of OnDataExchangeComplete and Disconnect.
New == {"accept", "giveBack", "publish", "setFd", "setMode", "bind"}
Accepting == New \cup {"get", "readNew"}
Exchanging == {"read", "data", "write", "reread", "unbind", "reset", "close", "zero",
               "clear", "release"}

\* The main thread accepts the first connection alone and is no worker: it has no
\* batch, no endpoint and no previous connection.
MainFirst ==
  /\ pc[Main] \in (New \cup {"get", "off", "dead"})
  /\ batch[Main] = {} /\ hand[Main] = None /\ nc[Main] = None
  /\ pc[Main] # "off" => \A w \in Worker : pc[w] = "off"

\* What a phase says of the thread's own variables.
Shape(t) ==
  /\ pc[t] \in {"off", "wait", "dead"} => batch[t] = {}
  /\ pc[t] \in {"off", "wait", "pick", "dead"} => hand[t] = None
  /\ pc[t] \in {"off", "wait", "pick", "dead", "get", "readNew"} => cur[t] = None
  /\ pc[t] \in Accepting => t = Main \/ hand[t] = Acceptor
  /\ pc[t] \in New => cur[t] \in Conn
  /\ pc[t] \in Exchanging => cur[t] \in Conn /\ hand[t] = cur[t]
  /\ pc[t] = "readNew" => nc[t] \in Conn
  /\ pc[t] = "setFd" => m_newConnection \in Conn

\* A descriptor on the ready list is in the epoll set.
ReadyRegistered == \A f \in Fd : f \in ready => reg[f] # None

\* The part of the invariant that holds past a race as well.
ShapeInv == TypeOK /\ MainFirst /\ (\A t \in Thread : Shape(t)) /\ ReadyRegistered

\* Thread t holds endpoint x: it has an event of x, or is in its Complete.
Holds(t, x) == x \in batch[t] \/ hand[t] = x

\* No endpoint is held by two threads, and none twice by one.
Exclusive ==
  \A t, u \in Thread, x \in Conn \cup {Acceptor} :
    /\ t # u /\ Holds(t, x) => ~Holds(u, x)
    /\ x \in batch[t] => hand[t] # x

\* Connection c serves nobody: it is available, or not made yet.
Unused(c) == avail[c] > 0 \/ c \notin created

\* An unused connection is in its initial state, and no thread works with it.
UnusedClean ==
  \A c \in Conn :
    /\ avail[c] \in {0, 1}
    /\ c \notin created => avail[c] = 0
    /\ Unused(c) =>
         /\ endpoint[c] = 0 /\ ~dataExchange[c]
         /\ \A t \in Thread : cur[t] # c

\* Connection c is in data exchange and its descriptor is registered for it.
Bound(c) == dataExchange[c] /\ reg[endpoint[c]] = c

\* What waits in a batch can be completed: nobody else takes it out of the epoll set.
BatchBound == \A t \in Thread, c \in Conn : c \in batch[t] => Bound(c)

\* The epoll set never names a connection the descriptor does not belong to.
RegOwned ==
  \A f \in Fd, c \in Conn : reg[f] = c =>
    endpoint[c] = f /\ dataExchange[c] /\ file[f] \in Peer

\* A thread in AcceptAsync is the only one that knows its connection, which gets its
\* state bit by bit; m_newConnection is still that connection when Set is called on it.
NewStage(t) ==
  LET c == cur[t] IN
  /\ pc[t] \in New =>
       /\ ~Unused(c)
       /\ \A f \in Fd : reg[f] # c
       /\ \A u \in Thread : ~Holds(u, c)
  /\ pc[t] \in New \ {"setMode", "bind"} => endpoint[c] = 0
  /\ pc[t] \in New \ {"bind"} => ~dataExchange[c]
  /\ pc[t] \in {"publish", "setFd", "setMode", "bind"} =>
       file[fd[t]] \in Peer /\ reg[fd[t]] = None
  /\ pc[t] = "setFd" => m_newConnection = c
  /\ pc[t] = "setMode" => target[t] = c
  /\ pc[t] \in {"setMode", "bind"} => endpoint[c] = fd[t]
  /\ pc[t] = "bind" => dataExchange[c]

\* A worker in OnDataExchangeComplete or Disconnect: what is left of its connection's
\* state at each step.
DataStage(t) ==
  LET c == cur[t] IN
  /\ pc[t] \in {"read", "data", "write", "reread", "unbind"} => Bound(c)
  /\ pc[t] \in {"reset", "close"} =>
       file[endpoint[c]] \in Peer /\ reg[endpoint[c]] = None
  /\ pc[t] \in {"reset", "close", "zero", "clear", "release"} => \A f \in Fd : reg[f] # c
  /\ pc[t] \in {"reset", "close", "zero", "clear"} => dataExchange[c]
  /\ pc[t] \in {"clear", "release"} => endpoint[c] = 0
  /\ pc[t] = "release" => ~dataExchange[c]
  /\ pc[t] = "stdin" => cur[t] = None /\ hand[t] = Acceptor

Stages == \A t \in Thread : NewStage(t) /\ DataStage(t)

\* A connection's descriptor is open on a client, but between close() and the
\* assignment that follows it.
EndpointOpen ==
  \A c \in Conn : endpoint[c] # 0 => Closing(c) \/ file[endpoint[c]] \in Peer

\* Two connections share a descriptor only while one of them is in that gap.
EndpointOwned ==
  \A c, d \in Conn :
    c # d /\ endpoint[c] = endpoint[d] /\ endpoint[c] # 0 => Closing(c) \/ Closing(d)

\* The same of the thread that carries a new descriptor from accept() to Set.
CarriedOwned ==
  \A t \in Thread, f \in Fd, c \in Conn :
    Carries(t, f) /\ endpoint[c] = f => Closing(c)

\* Descriptor 0 is never closed, and no open socket is without an owner.
FileOwned ==
  /\ file[0] = Stdin
  /\ \A f \in Fd : file[f] \in Peer =>
       (\E t \in Thread : Carries(t, f)) \/ (\E c \in Conn : endpoint[c] = f /\ ~Closing(c))

\* The part of the invariant that holds up to the first race.
OwnInv ==
  /\ Exclusive
  /\ UnusedClean
  /\ BatchBound
  /\ RegOwned
  /\ Stages
  /\ EndpointOpen
  /\ EndpointOwned
  /\ CarriedOwned
  /\ FileOwned

\* The two branches of Get.
TakesAvailable(c) ==
  avail[c] > 0 /\ avail' = [avail EXCEPT ![c] = @ - 1] /\ UNCHANGED created
MakesNew(c) ==
  /\ \A d \in Conn : ~ (avail[d] > 0)
  /\ c \notin created /\ created' = created \cup {c} /\ UNCHANGED avail

\* Get takes an available connection, or makes one when none is.
LEMMA GetCases ==
  ASSUME NEW t, Get(t)
  PROVE  \E c \in Conn : /\ cur' = [cur EXCEPT ![t] = c]
                         /\ TakesAvailable(c) \/ MakesNew(c)
<1>1. CASE \E d \in Conn : avail[d] > 0
  <2>1. PICK c \in Conn : /\ avail[c] > 0
                          /\ avail' = [avail EXCEPT ![c] = @ - 1] /\ UNCHANGED created
                          /\ cur' = [cur EXCEPT ![t] = c]
    BY <1>1 DEF Get
  <2> QED
    BY <2>1 DEF TakesAvailable
<1>2. CASE ~ \E d \in Conn : avail[d] > 0
  <2>1. PICK c \in Conn : /\ c \notin created
                          /\ created' = created \cup {c} /\ UNCHANGED avail
                          /\ cur' = [cur EXCEPT ![t] = c]
    BY <1>2 DEF Get
  <2> QED
    BY <1>2, <2>1 DEF MakesNew
<1> QED
  BY <1>1, <1>2

\* The types of the threads' own variables.
LocalTypes ==
  /\ pc \in [Thread -> Phase]
  /\ batch \in [Thread -> SUBSET (Conn \cup {Acceptor})]
  /\ hand \in [Thread -> Conn \cup {Acceptor, None}]
  /\ cur \in [Thread -> Conn \cup {None}] /\ nc \in [Thread -> Conn \cup {None}]
  /\ fd \in [Thread -> Fd]
  /\ target \in [Thread -> Conn \cup {None}]

\* The ends of Complete keep the types of the threads' variables.
LEMMA EndTypes ==
  ASSUME LocalTypes, NEW t \in Thread, Finish(t) \/ Throw(t) \/ Block(t)
  PROVE  LocalTypes'
<1> 0 \in Fd
  BY ServerBounds DEF Fd
<1>1. CASE Finish(t)
  <2>1. pc' \in [Thread -> Phase]
    <3>1. CASE t = Main
      BY <1>1, <3>1 DEF Finish, LocalTypes, Phase, Thread
    <3>2. CASE t # Main
      BY <1>1, <3>2 DEF Finish, LocalTypes, Phase
    <3> QED BY <3>1, <3>2
  <2>2. hand' \in [Thread -> Conn \cup {Acceptor, None}] /\ cur' \in [Thread -> Conn \cup {None}]
    BY <1>1 DEF Finish, LocalTypes
  <2>3. nc' \in [Thread -> Conn \cup {None}] /\ fd' \in [Thread -> Fd]
    BY <1>1 DEF Finish, LocalTypes
  <2>4. target' \in [Thread -> Conn \cup {None}]
    BY <1>1 DEF Finish, LocalTypes
  <2> QED
    BY <1>1, <2>1, <2>2, <2>3, <2>4 DEF Finish, LocalTypes
<1>2. CASE Throw(t)
  BY <1>2 DEF Throw, LocalTypes, Phase
<1>3. CASE Block(t)
  BY <1>3 DEF Block, LocalTypes, Phase, locals
<1> QED
  BY <1>1, <1>2, <1>3

\* Every step keeps the types, also past a race.
LEMMA TypeStep ==
  ASSUME TypeOK, MainFirst, \A t \in Thread : Shape(t), ReadyRegistered, [Next]_vars
  PROVE  TypeOK'
<1>a. LocalTypes
  BY DEF TypeOK, LocalTypes
<1> USE ServerThreads, ServerNulls, ServerBounds DEF TypeOK, Go, Finish, Throw, Block,
    Phase, Thread, locals, objects, kernel, peers, history, Fd
<1>1. CASE \E t \in Thread : Get(t)
  <2>1. PICK t \in Thread : Get(t)
    BY <1>1
  <2>2. PICK c \in Conn :
          /\ cur' = [cur EXCEPT ![t] = c]
          /\ TakesAvailable(c) \/ MakesNew(c)
    BY ONLY <2>1, GetCases
  <2>3. pc' \in [Thread -> Phase] /\ cur' \in [Thread -> Conn \cup {None}]
    BY <2>1, <2>2 DEF Get
  <2>4. avail' \in [Conn -> Nat] /\ created' \in SUBSET Conn
    <3>1. CASE TakesAvailable(c)
      <4>1. avail[c] - 1 \in Nat
        BY <3>1 DEF TakesAvailable
      <4> QED BY <3>1, <4>1 DEF TakesAvailable
    <3>2. CASE MakesNew(c)
      BY <3>2 DEF MakesNew
    <3> QED BY <2>2, <3>1, <3>2
  <2>5. UNCHANGED <<batch, hand, nc, fd, target, m_newConnection, endpoint,
                    dataExchange, file, reg, ready, backlog, sent, unread, fin, rst,
                    aborted, race, skipped>>
    BY <2>1 DEF Get
  <2> QED
    BY <2>3, <2>4, <2>5
<1>2. CASE \E t \in Thread : GetThrows(t)
  BY <1>2 DEF GetThrows
<1>3. CASE \E t \in Thread : Accept(t)
  BY <1>3 DEF Accept, FreeFds
<1>4. CASE \E t \in Thread : AcceptNothing(t)
  BY <1>4 DEF AcceptNothing
<1>5. CASE \E t \in Thread : AcceptZero(t)
  BY <1>5 DEF AcceptZero
<1>6. CASE \E t \in Thread : AcceptThrows(t)
  BY <1>6 DEF AcceptThrows
<1>7. CASE \E t \in Thread : GiveBack(t)
  BY <1>7 DEF GiveBack, Shape, New
<1>8. CASE \E t \in Thread : Publish(t)
  BY <1>8 DEF Publish, Shape, New
<1>9. CASE \E t \in Thread : SetFd(t)
  BY <1>9 DEF SetFd, Shape, New
<1>10. CASE \E t \in Thread : SetMode(t)
  <2>1. PICK t \in Thread : SetMode(t)
    BY <1>10
  <2>2. dataExchange' \in [Conn -> BOOLEAN] /\ pc' \in [Thread -> Phase]
    BY <2>1 DEF SetMode
  <2>3. UNCHANGED <<batch, hand, cur, nc, fd, target, m_newConnection, endpoint, avail,
                    created, file, reg, ready, backlog, sent, unread, fin, rst, aborted,
                    race, skipped>>
    BY <2>1 DEF SetMode
  <2> QED
    BY <2>2, <2>3
<1>11. CASE \E t \in Thread : Bind(t)
  <2>1. PICK t \in Thread : Bind(t)
    BY <1>11
  <2>2. cur[t] \in Conn /\ endpoint[cur[t]] \in Fd
    BY <2>1 DEF Bind, Shape, New
  <2>3. LocalTypes'
    <3>1. CASE Finish(t)
      BY ONLY <1>a, <3>1, EndTypes
    <3>2. CASE ~Finish(t)
      <4>1. Go(t, "bind", "readNew") /\ cur' = [cur EXCEPT ![t] = None]
            /\ UNCHANGED <<batch, hand, nc, fd, target>>
        BY ONLY <2>1, <3>2 DEF Bind
      <4> QED
        BY ONLY <4>1, <1>a DEF LocalTypes, Go, Phase
    <3> QED BY <3>1, <3>2
  <2>4. reg' \in [Fd -> Conn \cup {None}] /\ ready' \in SUBSET (Fd \cup {Acceptor})
    BY <2>1, <2>2 DEF Bind
  <2>8. UNCHANGED <<batch, m_newConnection, endpoint, dataExchange, avail, created, file,
                    backlog, sent, unread, fin, rst, aborted, race, skipped>>
    BY <2>1 DEF Bind
  <2> QED
    BY <2>3, <2>4, <2>8 DEF LocalTypes
<1>12. CASE \E t \in Thread : BindThrows(t)
  BY <1>12 DEF BindThrows
<1>13. CASE \E t \in Thread : ReadNew(t)
  <2>1. PICK t \in Thread : ReadNew(t)
    BY <1>13
  <2>2. Finish(t) \/ Throw(t) \/ Block(t)
    BY <2>1 DEF ReadNew, DiscardingRead
  <2>3. LocalTypes'
    BY ONLY <1>a, <2>1, <2>2, EndTypes
  <2>7. unread' \in SUBSET Peer /\ fin' \in SUBSET Peer /\ skipped' \in SUBSET Peer
    BY <2>1 DEF ReadNew, DiscardingRead, AtEof, Reported
  <2>8. UNCHANGED <<m_newConnection, endpoint, dataExchange, avail, created, file, reg,
                    ready, backlog, sent, rst, aborted, race>>
    BY <2>1 DEF ReadNew, DiscardingRead
  <2> QED
    BY <2>3, <2>7, <2>8 DEF LocalTypes
<1>14. CASE \E t \in Worker : Harvest(t)
  BY <1>14 DEF Harvest, ReadyRegistered
<1>15. CASE \E t \in Worker : BatchDone(t)
  BY <1>15 DEF BatchDone
<1>16. CASE \E t \in Worker : CompleteAccept(t)
  BY <1>16 DEF CompleteAccept, Take
<1>17. CASE \E t \in Worker : CompleteConnection(t)
  BY <1>17 DEF CompleteConnection, Take
<1>18. CASE \E t \in Worker : CompleteAsserts(t)
  BY <1>18 DEF CompleteAsserts, Abort
<1>19. CASE \E t \in Worker : ReadData(t)
  BY <1>19 DEF ReadData, HasData
<1>20. CASE \E t \in Worker : ReadNothing(t)
  BY <1>20 DEF ReadNothing, HasNothing
<1>21. CASE \E t \in Worker : ReadEof(t)
  BY <1>21 DEF ReadEof, AtEof
<1>22. CASE \E t \in Worker : ReadThrows(t)
  <2>1. PICK t \in Worker : ReadThrows(t)
    BY <1>22
  <2>2. LocalTypes'
    BY ONLY <1>a, <2>1, EndTypes, t \in Thread DEF ReadThrows
  <2>3. fin' \in SUBSET Peer
    BY <2>1 DEF ReadThrows, Reported
  <2>4. UNCHANGED <<m_newConnection, endpoint, dataExchange, avail, created, file, reg,
                    ready, backlog, sent, unread, rst, aborted, race, skipped>>
    BY <2>1 DEF ReadThrows
  <2> QED
    BY <2>2, <2>3, <2>4 DEF LocalTypes
<1>23. CASE \E t \in Worker : ReadStdin(t)
  BY <1>23 DEF ReadStdin
<1>24. CASE \E t \in Worker : GetData(t)
  BY <1>24 DEF GetData
<1>25. CASE \E t \in Worker : GetDataAsserts(t)
  BY <1>25 DEF GetDataAsserts, Abort
<1>26. CASE \E t \in Worker : Write(t)
  BY <1>26 DEF Write
<1>27. CASE \E t \in Worker : WriteThrows(t)
  <2>1. PICK t \in Worker : WriteThrows(t)
    BY <1>27
  <2>2. LocalTypes'
    BY ONLY <1>a, <2>1, EndTypes, t \in Thread DEF WriteThrows
  <2>3. fin' \in SUBSET Peer
    BY <2>1 DEF WriteThrows, Reported
  <2>4. UNCHANGED <<m_newConnection, endpoint, dataExchange, avail, created, file, reg,
                    ready, backlog, sent, unread, rst, aborted, race, skipped>>
    BY <2>1 DEF WriteThrows
  <2> QED
    BY <2>2, <2>3, <2>4 DEF LocalTypes
<1>28. CASE \E t \in Worker : WriteKills(t)
  BY <1>28 DEF WriteKills, Abort
<1>29. CASE \E t \in Worker : Reread(t)
  <2>1. PICK t \in Worker : Reread(t)
    BY <1>29
  <2>2. Finish(t) \/ Throw(t) \/ Block(t)
    BY <2>1 DEF Reread, DiscardingRead
  <2>3. LocalTypes'
    BY ONLY <1>a, <2>1, <2>2, EndTypes
  <2>7. unread' \in SUBSET Peer /\ fin' \in SUBSET Peer /\ skipped' \in SUBSET Peer
    BY <2>1 DEF Reread, DiscardingRead, AtEof, Reported
  <2>8. UNCHANGED <<m_newConnection, endpoint, dataExchange, avail, created, file, reg,
                    ready, backlog, sent, rst, aborted, race>>
    BY <2>1 DEF Reread, DiscardingRead
  <2> QED
    BY <2>3, <2>7, <2>8 DEF LocalTypes
<1>30. CASE \E t \in Worker : Unbind(t)
  <2>1. PICK t \in Worker : Unbind(t)
    BY <1>30
  <2>2. pc' \in [Thread -> Phase]
    BY <2>1 DEF Unbind
  <2>3. reg' \in [Fd -> Conn \cup {None}] /\ ready' \in SUBSET (Fd \cup {Acceptor})
    <3>1. \/ UNCHANGED <<reg, ready>>
          \/ \E e : reg' = [reg EXCEPT ![e] = None] /\ ready' = ready \ {e}
      BY <2>1 DEF Unbind
    <3> QED BY ONLY <3>1, TypeOK DEF TypeOK
  <2>4. UNCHANGED <<batch, hand, cur, nc, fd, target, m_newConnection, endpoint,
                    dataExchange, avail, created, file, backlog, sent, unread, fin, rst,
                    aborted, race, skipped>>
    BY <2>1 DEF Unbind
  <2> QED
    BY <2>2, <2>3, <2>4
<1>31. CASE \E t \in Worker : UnbindThrows(t)
  BY <1>31 DEF UnbindThrows
<1>32. CASE \E t \in Worker : ResetChecks(t)
  BY <1>32 DEF ResetChecks
<1>33. CASE \E t \in Worker : CloseFd(t)
  <2>1. PICK t \in Worker : CloseFd(t)
    BY <1>33
  <2>2. pc' \in [Thread -> Phase] /\ file' \in [Fd -> Peer \cup {NoPeer, Stdin}]
    BY <2>1 DEF CloseFd
  <2>3. reg' \in [Fd -> Conn \cup {None}] /\ ready' \in SUBSET (Fd \cup {Acceptor})
    BY <2>1 DEF CloseFd
  <2>4. UNCHANGED <<batch, hand, cur, nc, fd, target, m_newConnection, endpoint,
                    dataExchange, avail, created, backlog, sent, unread, fin, rst, aborted,
                    race, skipped>>
    BY <2>1 DEF CloseFd
  <2> QED
    BY <2>2, <2>3, <2>4
<1>34. CASE \E t \in Worker : ZeroEndpoint(t)
  <2>1. PICK t \in Worker : ZeroEndpoint(t)
    BY <1>34
  <2> 0 \in Fd
    OBVIOUS
  <2>2. endpoint' \in [Conn -> Fd] /\ pc' \in [Thread -> Phase]
    BY <2>1 DEF ZeroEndpoint
  <2>3. UNCHANGED <<batch, hand, cur, nc, fd, target, m_newConnection, dataExchange,
                    avail, created, file, reg, ready, backlog, sent, unread, fin, rst,
                    aborted, race, skipped>>
    BY <2>1 DEF ZeroEndpoint
  <2> QED
    BY <2>2, <2>3
<1>35. CASE \E t \in Worker : ClearMode(t)
  <2>1. PICK t \in Worker : ClearMode(t)
    BY <1>35
  <2>2. dataExchange' \in [Conn -> BOOLEAN] /\ pc' \in [Thread -> Phase]
    BY <2>1 DEF ClearMode
  <2>3. UNCHANGED <<batch, hand, cur, nc, fd, target, m_newConnection, endpoint, avail,
                    created, file, reg, ready, backlog, sent, unread, fin, rst, aborted,
                    race, skipped>>
    BY <2>1 DEF ClearMode
  <2> QED
    BY <2>2, <2>3
<1>36. CASE \E t \in Worker : Release(t)
  BY <1>36 DEF Release, Shape, Exchanging
<1>37. CASE \E p \in Peer : Connect(p)
  BY <1>37 DEF Connect
<1>38. CASE \E p \in Peer : Send(p)
  <2>1. PICK p \in Peer : Send(p)
    BY <1>38
  <2>2. sent' \in [Peer -> 0 .. MaxMsg] /\ unread' \in SUBSET Peer
    BY <2>1 DEF Send
  <2>3. ready' \in SUBSET (Fd \cup {Acceptor})
    BY <2>1 DEF Send, Edge
  <2>4. UNCHANGED <<pc, batch, hand, cur, nc, fd, target, m_newConnection, endpoint,
                    dataExchange, avail, created, file, reg, backlog, fin, rst, aborted,
                    race, skipped>>
    BY <2>1 DEF Send
  <2> QED
    BY <2>2, <2>3, <2>4
<1>39. CASE \E p \in Peer : Close(p)
  <2>1. PICK p \in Peer : Close(p)
    BY <1>39
  <2>2. fin' \in SUBSET Peer
    BY <2>1 DEF Close
  <2>3. ready' \in SUBSET (Fd \cup {Acceptor})
    BY <2>1 DEF Close, Edge
  <2>4. UNCHANGED <<pc, batch, hand, cur, nc, fd, target, m_newConnection, endpoint,
                    dataExchange, avail, created, file, reg, backlog, sent, unread, rst,
                    aborted, race, skipped>>
    BY <2>1 DEF Close
  <2> QED
    BY <2>2, <2>3, <2>4
<1>40. CASE \E p \in Peer : Reset(p)
  <2>1. PICK p \in Peer : Reset(p)
    BY <1>40
  <2>2. rst' \in SUBSET Peer
    BY <2>1 DEF Reset
  <2>3. ready' \in SUBSET (Fd \cup {Acceptor})
    BY <2>1 DEF Reset, Edge
  <2>4. UNCHANGED <<pc, batch, hand, cur, nc, fd, target, m_newConnection, endpoint,
                    dataExchange, avail, created, file, reg, backlog, sent, unread, fin,
                    aborted, race, skipped>>
    BY <2>1 DEF Reset
  <2> QED
    BY <2>2, <2>3, <2>4
<1>41. CASE UNCHANGED vars
  BY <1>41 DEF vars, locals, objects, kernel, peers, history
<1> QED
  BY <1>1, <1>2, <1>3, <1>4, <1>5, <1>6, <1>7, <1>8, <1>9, <1>10, <1>11, <1>12, <1>13,
      <1>14, <1>15, <1>16, <1>17, <1>18, <1>19, <1>20, <1>21, <1>22, <1>23, <1>24, <1>25, <1>26,
      <1>27, <1>28, <1>29, <1>30, <1>31, <1>32, <1>33, <1>34, <1>35, <1>36, <1>37, <1>38, <1>39,
      <1>40, <1>41 DEF Next, ThreadStep, WorkerStep, ClientStep

\* What the invariant is about.
serverVars == <<pc, locals, objects, file, reg, race>>

\* Clients and failing assertions leave it alone.
LEMMA QuietSteps ==
  ASSUME \/ \E p \in Peer : ClientStep(p)
         \/ \E t \in Worker : CompleteAsserts(t) \/ GetDataAsserts(t) \/ WriteKills(t)
         \/ UNCHANGED vars
  PROVE  UNCHANGED serverVars
BY DEF serverVars, ClientStep, Connect, Send, Close, Reset, CompleteAsserts, GetDataAsserts,
   WriteKills, Abort, vars, locals, objects, kernel, history

\* No worker runs before the first DoAccept is over, and main runs no more after it.
LEMMA MainStep ==
  ASSUME LocalTypes, MainFirst, \A t \in Thread : Shape(t), [Next]_vars
  PROVE  MainFirst'
<1> USE ServerThreads DEF LocalTypes, MainFirst, Shape, Go, Finish, Throw, Block, Thread,
    locals, objects, New, Accepting, Exchanging
<1>1. CASE \E t \in Thread : Get(t)
  BY <1>1 DEF Get
<1>2. CASE \E t \in Thread : GetThrows(t)
  BY <1>2 DEF GetThrows
<1>3. CASE \E t \in Thread : Accept(t)
  BY <1>3 DEF Accept
<1>4. CASE \E t \in Thread : AcceptNothing(t)
  BY <1>4 DEF AcceptNothing
<1>5. CASE \E t \in Thread : AcceptZero(t)
  BY <1>5 DEF AcceptZero
<1>6. CASE \E t \in Thread : AcceptThrows(t)
  BY <1>6 DEF AcceptThrows
<1>7. CASE \E t \in Thread : GiveBack(t)
  BY <1>7 DEF GiveBack
<1>8. CASE \E t \in Thread : Publish(t)
  BY <1>8 DEF Publish
<1>9. CASE \E t \in Thread : SetFd(t)
  BY <1>9 DEF SetFd
<1>10. CASE \E t \in Thread : SetMode(t)
  BY <1>10 DEF SetMode
<1>11. CASE \E t \in Thread : Bind(t)
  BY <1>11 DEF Bind
<1>12. CASE \E t \in Thread : BindThrows(t)
  BY <1>12 DEF BindThrows
<1>13. CASE \E t \in Thread : ReadNew(t)
  BY <1>13 DEF ReadNew, DiscardingRead
<1>14. CASE \E t \in Worker : Harvest(t)
  BY <1>14 DEF Harvest
<1>15. CASE \E t \in Worker : BatchDone(t)
  BY <1>15 DEF BatchDone
<1>16. CASE \E t \in Worker : CompleteAccept(t)
  BY <1>16 DEF CompleteAccept, Take
<1>17. CASE \E t \in Worker : CompleteConnection(t)
  BY <1>17 DEF CompleteConnection, Take
<1>18. CASE \E t \in Worker : ReadData(t)
  BY <1>18 DEF ReadData
<1>19. CASE \E t \in Worker : ReadNothing(t)
  BY <1>19 DEF ReadNothing
<1>20. CASE \E t \in Worker : ReadEof(t)
  BY <1>20 DEF ReadEof
<1>21. CASE \E t \in Worker : ReadThrows(t)
  BY <1>21 DEF ReadThrows
<1>22. CASE \E t \in Worker : ReadStdin(t)
  BY <1>22 DEF ReadStdin
<1>23. CASE \E t \in Worker : GetData(t)
  BY <1>23 DEF GetData
<1>24. CASE \E t \in Worker : Write(t)
  BY <1>24 DEF Write
<1>25. CASE \E t \in Worker : WriteThrows(t)
  BY <1>25 DEF WriteThrows
<1>26. CASE \E t \in Worker : Reread(t)
  BY <1>26 DEF Reread, DiscardingRead
<1>27. CASE \E t \in Worker : Unbind(t)
  BY <1>27 DEF Unbind
<1>28. CASE \E t \in Worker : UnbindThrows(t)
  BY <1>28 DEF UnbindThrows
<1>29. CASE \E t \in Worker : ResetChecks(t)
  BY <1>29 DEF ResetChecks
<1>30. CASE \E t \in Worker : CloseFd(t)
  BY <1>30 DEF CloseFd
<1>31. CASE \E t \in Worker : ZeroEndpoint(t)
  BY <1>31 DEF ZeroEndpoint
<1>32. CASE \E t \in Worker : ClearMode(t)
  BY <1>32 DEF ClearMode
<1>33. CASE \E t \in Worker : Release(t)
  BY <1>33 DEF Release
<1>34. CASE UNCHANGED serverVars
  BY <1>34 DEF serverVars
<1> QED
  BY <1>1, <1>2, <1>3, <1>4, <1>5, <1>6, <1>7, <1>8, <1>9, <1>10, <1>11, <1>12, <1>13,
      <1>14, <1>15, <1>16, <1>17, <1>18, <1>19, <1>20, <1>21, <1>22, <1>23, <1>24, <1>25, <1>26,
      <1>27, <1>28, <1>29, <1>30, <1>31, <1>32, <1>33, <1>34, QuietSteps DEF Next, ThreadStep,
      WorkerStep

\* Every step keeps what a phase says of the thread's own variables.
LEMMA ShapeStep ==
  ASSUME LocalTypes, MainFirst, \A t \in Thread : Shape(t),
         m_newConnection \in Conn \cup {None}, [Next]_vars,
         NEW s \in Thread
  PROVE  Shape(s)'
<1> USE ServerThreads, ServerNulls DEF LocalTypes, MainFirst, Shape, Go, Finish, Throw, Block,
    Thread, locals, objects, New, Accepting, Exchanging
<1>1. CASE \E t \in Thread : Get(t)
  BY <1>1 DEF Get
<1>2. CASE \E t \in Thread : GetThrows(t)
  BY <1>2 DEF GetThrows
<1>3. CASE \E t \in Thread : Accept(t)
  BY <1>3 DEF Accept
<1>4. CASE \E t \in Thread : AcceptNothing(t)
  BY <1>4 DEF AcceptNothing
<1>5. CASE \E t \in Thread : AcceptZero(t)
  BY <1>5 DEF AcceptZero
<1>6. CASE \E t \in Thread : AcceptThrows(t)
  BY <1>6 DEF AcceptThrows
<1>7. CASE \E t \in Thread : GiveBack(t)
  BY <1>7 DEF GiveBack
<1>8. CASE \E t \in Thread : Publish(t)
  BY <1>8 DEF Publish
<1>9. CASE \E t \in Thread : SetFd(t)
  BY <1>9 DEF SetFd
<1>10. CASE \E t \in Thread : SetMode(t)
  BY <1>10 DEF SetMode
<1>11. CASE \E t \in Thread : Bind(t)
  BY <1>11 DEF Bind
<1>12. CASE \E t \in Thread : BindThrows(t)
  BY <1>12 DEF BindThrows
<1>13. CASE \E t \in Thread : ReadNew(t)
  BY <1>13 DEF ReadNew, DiscardingRead
<1>14. CASE \E t \in Worker : Harvest(t)
  BY <1>14 DEF Harvest
<1>15. CASE \E t \in Worker : BatchDone(t)
  BY <1>15 DEF BatchDone
<1>16. CASE \E t \in Worker : CompleteAccept(t)
  BY <1>16 DEF CompleteAccept, Take
<1>17. CASE \E t \in Worker : CompleteConnection(t)
  BY <1>17 DEF CompleteConnection, Take
<1>18. CASE \E t \in Worker : ReadData(t)
  BY <1>18 DEF ReadData
<1>19. CASE \E t \in Worker : ReadNothing(t)
  BY <1>19 DEF ReadNothing
<1>20. CASE \E t \in Worker : ReadEof(t)
  BY <1>20 DEF ReadEof
<1>21. CASE \E t \in Worker : ReadThrows(t)
  BY <1>21 DEF ReadThrows
<1>22. CASE \E t \in Worker : ReadStdin(t)
  BY <1>22 DEF ReadStdin
<1>23. CASE \E t \in Worker : GetData(t)
  BY <1>23 DEF GetData
<1>24. CASE \E t \in Worker : Write(t)
  BY <1>24 DEF Write
<1>25. CASE \E t \in Worker : WriteThrows(t)
  BY <1>25 DEF WriteThrows
<1>26. CASE \E t \in Worker : Reread(t)
  BY <1>26 DEF Reread, DiscardingRead
<1>27. CASE \E t \in Worker : Unbind(t)
  BY <1>27 DEF Unbind
<1>28. CASE \E t \in Worker : UnbindThrows(t)
  BY <1>28 DEF UnbindThrows
<1>29. CASE \E t \in Worker : ResetChecks(t)
  BY <1>29 DEF ResetChecks
<1>30. CASE \E t \in Worker : CloseFd(t)
  BY <1>30 DEF CloseFd
<1>31. CASE \E t \in Worker : ZeroEndpoint(t)
  BY <1>31 DEF ZeroEndpoint
<1>32. CASE \E t \in Worker : ClearMode(t)
  BY <1>32 DEF ClearMode
<1>33. CASE \E t \in Worker : Release(t)
  BY <1>33 DEF Release
<1>34. CASE UNCHANGED serverVars
  BY <1>34 DEF serverVars
<1> QED
  BY <1>1, <1>2, <1>3, <1>4, <1>5, <1>6, <1>7, <1>8, <1>9, <1>10, <1>11, <1>12, <1>13,
      <1>14, <1>15, <1>16, <1>17, <1>18, <1>19, <1>20, <1>21, <1>22, <1>23, <1>24, <1>25, <1>26,
      <1>27, <1>28, <1>29, <1>30, <1>31, <1>32, <1>33, <1>34, QuietSteps DEF Next, ThreadStep,
      WorkerStep

\* Edges are queued for registered descriptors only, and EPOLL_CTL_DEL drops them.
LEMMA ReadyStep ==
  ASSUME TypeOK, ReadyRegistered, \A t \in Thread : Shape(t), [Next]_vars
  PROVE  ReadyRegistered'
<1> USE ServerNulls, ServerBounds DEF TypeOK, ReadyRegistered, objects, kernel, Fd
<1>1. CASE \E t \in Thread : Get(t)
  BY <1>1 DEF Get
<1>2. CASE \E t \in Thread : GetThrows(t)
  BY <1>2 DEF GetThrows
<1>3. CASE \E t \in Thread : Accept(t)
  BY <1>3 DEF Accept
<1>4. CASE \E t \in Thread : AcceptNothing(t)
  BY <1>4 DEF AcceptNothing
<1>5. CASE \E t \in Thread : AcceptZero(t)
  BY <1>5 DEF AcceptZero
<1>6. CASE \E t \in Thread : AcceptThrows(t)
  BY <1>6 DEF AcceptThrows
<1>7. CASE \E t \in Thread : GiveBack(t)
  BY <1>7 DEF GiveBack
<1>8. CASE \E t \in Thread : Publish(t)
  BY <1>8 DEF Publish
<1>9. CASE \E t \in Thread : SetFd(t)
  BY <1>9 DEF SetFd
<1>10. CASE \E t \in Thread : SetMode(t)
  BY <1>10 DEF SetMode
<1>11. CASE \E t \in Thread : Bind(t)
  BY <1>11 DEF Bind, Shape, New
<1>12. CASE \E t \in Thread : BindThrows(t)
  BY <1>12 DEF BindThrows
<1>13. CASE \E t \in Thread : ReadNew(t)
  BY <1>13 DEF ReadNew, DiscardingRead
<1>14. CASE \E t \in Worker : Harvest(t)
  BY <1>14 DEF Harvest
<1>15. CASE \E t \in Worker : BatchDone(t)
  BY <1>15 DEF BatchDone
<1>16. CASE \E t \in Worker : CompleteAccept(t)
  BY <1>16 DEF CompleteAccept, Take
<1>17. CASE \E t \in Worker : CompleteConnection(t)
  BY <1>17 DEF CompleteConnection, Take
<1>18. CASE \E t \in Worker : CompleteAsserts(t)
  BY <1>18 DEF CompleteAsserts, Abort
<1>19. CASE \E t \in Worker : ReadData(t)
  BY <1>19 DEF ReadData
<1>20. CASE \E t \in Worker : ReadNothing(t)
  BY <1>20 DEF ReadNothing
<1>21. CASE \E t \in Worker : ReadEof(t)
  BY <1>21 DEF ReadEof
<1>22. CASE \E t \in Worker : ReadThrows(t)
  BY <1>22 DEF ReadThrows
<1>23. CASE \E t \in Worker : ReadStdin(t)
  BY <1>23 DEF ReadStdin
<1>24. CASE \E t \in Worker : GetData(t)
  BY <1>24 DEF GetData
<1>25. CASE \E t \in Worker : GetDataAsserts(t)
  BY <1>25 DEF GetDataAsserts, Abort
<1>26. CASE \E t \in Worker : Write(t)
  BY <1>26 DEF Write
<1>27. CASE \E t \in Worker : WriteThrows(t)
  BY <1>27 DEF WriteThrows
<1>28. CASE \E t \in Worker : WriteKills(t)
  BY <1>28 DEF WriteKills, Abort
<1>29. CASE \E t \in Worker : Reread(t)
  BY <1>29 DEF Reread, DiscardingRead
<1>30. CASE \E t \in Worker : Unbind(t)
  <2>1. PICK t \in Worker : Unbind(t)
    BY <1>30
  <2> DEFINE e == endpoint[cur[t]]
  <2>2. UNCHANGED <<reg, ready>> \/ (reg' = [reg EXCEPT ![e] = None] /\ ready' = ready \ {e})
    BY <2>1 DEF Unbind
  <2> HIDE DEF e
  <2>3. \A f \in Fd : f # e => reg'[f] = reg[f]
    BY <2>2 DEF Fd
  <2>4. ready' \subseteq ready /\ (e \in ready' => reg' = reg)
    BY ONLY <2>2
  <2> QED
    BY <2>3, <2>4
<1>31. CASE \E t \in Worker : UnbindThrows(t)
  BY <1>31 DEF UnbindThrows
<1>32. CASE \E t \in Worker : ResetChecks(t)
  BY <1>32 DEF ResetChecks
<1>33. CASE \E t \in Worker : CloseFd(t)
  BY <1>33 DEF CloseFd
<1>34. CASE \E t \in Worker : ZeroEndpoint(t)
  BY <1>34 DEF ZeroEndpoint
<1>35. CASE \E t \in Worker : ClearMode(t)
  BY <1>35 DEF ClearMode
<1>36. CASE \E t \in Worker : Release(t)
  BY <1>36 DEF Release
<1>37. CASE \E p \in Peer : Connect(p)
  BY <1>37 DEF Connect
<1>38. CASE \E p \in Peer : Send(p)
  BY <1>38 DEF Send, Edge
<1>39. CASE \E p \in Peer : Close(p)
  BY <1>39 DEF Close, Edge
<1>40. CASE \E p \in Peer : Reset(p)
  BY <1>40 DEF Reset, Edge
<1>41. CASE UNCHANGED vars
  BY <1>41 DEF vars, locals, objects, kernel, peers, history
<1> QED
  BY <1>1, <1>2, <1>3, <1>4, <1>5, <1>6, <1>7, <1>8, <1>9, <1>10, <1>11, <1>12, <1>13,
      <1>14, <1>15, <1>16, <1>17, <1>18, <1>19, <1>20, <1>21, <1>22, <1>23, <1>24, <1>25, <1>26,
      <1>27, <1>28, <1>29, <1>30, <1>31, <1>32, <1>33, <1>34, <1>35, <1>36, <1>37, <1>38, <1>39,
      <1>40, <1>41 DEF Next, ThreadStep, WorkerStep, ClientStep

\* A step that leaves every descriptor its owner.
KeepsOwners ==
  /\ \A c \in Conn : Closing(c)' <=> Closing(c)
  /\ \A u \in Thread, f \in Fd : Carries(u, f)' <=> Carries(u, f)

\* The phases Carries and Closing look at.
OwnedPhases == {"publish", "setFd", "zero"}

\* A thread that moves between other phases leaves the descriptors their owners.
LEMMA MoveKeeps ==
  ASSUME ShapeInv, NEW t \in Thread, UNCHANGED fd,
         \A u \in Thread : u # t => pc'[u] = pc[u] /\ cur'[u] = cur[u],
         pc[t] \notin OwnedPhases, pc'[t] \notin OwnedPhases
  PROVE  KeepsOwners
BY DEF Closing, Carries, KeepsOwners, OwnedPhases

\* So does one that ends Complete, throws, or blocks on standard input.
LEMMA EndKeeps ==
  ASSUME ShapeInv, NEW t \in Thread, Finish(t) \/ Throw(t) \/ Block(t),
         pc[t] \notin OwnedPhases, pc[t] # "off"
  PROVE  KeepsOwners
<1> USE ServerThreads DEF ShapeInv, TypeOK, Thread
<1>1. CASE Finish(t)
  <2>1. \A u \in Thread : u # t => cur'[u] = cur[u] /\ fd'[u] = fd[u]
    BY <1>1 DEF Finish
  <2>2. \A u \in Thread : \/ pc'[u] = pc[u]
                          \/ pc[u] \notin OwnedPhases /\ pc'[u] \notin OwnedPhases
    BY <1>1 DEF Finish, MainFirst, OwnedPhases
  <2>3. pc'[t] \notin OwnedPhases
    BY <1>1 DEF Finish, OwnedPhases
  <2> QED
    BY <2>1, <2>2, <2>3 DEF Closing, Carries, KeepsOwners, OwnedPhases
<1>2. CASE Throw(t)
  <2>1. pc'[t] \notin OwnedPhases /\ UNCHANGED fd
    BY <1>2 DEF Throw, OwnedPhases
  <2>2. \A u \in Thread : u # t => pc'[u] = pc[u] /\ cur'[u] = cur[u]
    BY <1>2 DEF Throw
  <2> QED
    BY ONLY <2>1, <2>2, ShapeInv, t \in Thread, pc[t] \notin OwnedPhases, MoveKeeps DEF Thread
<1>3. CASE Block(t)
  <2>1. pc'[t] \notin OwnedPhases /\ UNCHANGED <<fd, cur>>
    BY <1>3 DEF Block, OwnedPhases, locals
  <2>2. \A u \in Thread : u # t => pc'[u] = pc[u]
    BY <1>3 DEF Block
  <2> QED
    BY ONLY <2>1, <2>2, ShapeInv, t \in Thread, pc[t] \notin OwnedPhases, MoveKeeps DEF Thread
<1> QED
  BY <1>1, <1>2, <1>3

\* Where owners, endpoints and the descriptor table stay, so does descriptor ownership.
LEMMA OwnersKept ==
  ASSUME OwnInv, KeepsOwners, UNCHANGED <<endpoint, file>>
  PROVE  EndpointOpen' /\ EndpointOwned' /\ CarriedOwned' /\ FileOwned'
<1>1. EndpointOpen'
  BY DEF KeepsOwners, OwnInv, EndpointOpen
<1>2. EndpointOwned'
  BY DEF KeepsOwners, OwnInv, EndpointOwned
<1>3. CarriedOwned'
  BY DEF KeepsOwners, OwnInv, CarriedOwned
<1>4. FileOwned'
  BY DEF KeepsOwners, OwnInv, FileOwned
<1> QED
  BY <1>1, <1>2, <1>3, <1>4

\* Up to a race one thread at a time is accepting: main, or the one holding the acceptor.
LEMMA NewUnique ==
  ASSUME ShapeInv, OwnInv, NEW t \in Thread, NEW u \in Thread, t # u, pc[t] \in Accepting
  PROVE  pc[u] \notin Accepting
BY ServerThreads, ServerNulls
   DEF ShapeInv, TypeOK, MainFirst, Shape, OwnInv, Exclusive, Holds, Accepting, New, Thread

\* Up to a race no two threads work with one connection.
LEMMA CurUnique ==
  ASSUME ShapeInv, OwnInv, NEW t \in Thread, NEW u \in Thread, t # u, cur[t] \in Conn
  PROVE  cur[t] # cur[u]
<1> SUFFICES ASSUME cur[t] = cur[u]
             PROVE  FALSE
  OBVIOUS
<1>1. \A s \in {t, u} : pc[s] \in New \cup Exchanging
  BY ServerNulls DEF ShapeInv, TypeOK, Phase, Shape, OwnInv, Stages, DataStage, New, Exchanging
<1>2. CASE pc[t] \in New /\ pc[u] \in New
  BY <1>2, NewUnique DEF Accepting
<1>3. CASE pc[t] \in Exchanging /\ pc[u] \in Exchanging
  BY <1>3 DEF ShapeInv, Shape, OwnInv, Exclusive, Holds
<1>4. CASE pc[t] \in New /\ pc[u] \in Exchanging
  BY <1>4 DEF ShapeInv, Shape, OwnInv, Stages, NewStage, Holds
<1>5. CASE pc[t] \in Exchanging /\ pc[u] \in New
  BY <1>5 DEF ShapeInv, Shape, OwnInv, Stages, NewStage, Holds
<1> QED
  BY <1>1, <1>2, <1>3, <1>4, <1>5

\* Nor with one descriptor.
LEMMA EndpointUnique ==
  ASSUME ShapeInv, OwnInv, NEW t \in Thread, NEW u \in Thread, t # u,
         cur[t] \in Conn, cur[u] \in Conn, pc[t] # "zero", pc[u] # "zero",
         endpoint[cur[t]] # 0
  PROVE  endpoint[cur[t]] # endpoint[cur[u]]
<1>1. ~Closing(cur[t]) /\ ~Closing(cur[u])
  BY CurUnique DEF Closing
<1>2. cur[t] # cur[u]
  BY CurUnique
<1> QED
  BY <1>1, <1>2 DEF OwnInv, EndpointOwned

\* Without a race, epoll_wait hands out what nobody holds.
LEMMA ExclusiveStep ==
  ASSUME ShapeInv, ShapeInv', OwnInv, [Next]_vars, ~race'
  PROVE  Exclusive'
<1> USE ServerThreads, ServerNulls DEF ShapeInv, TypeOK, MainFirst, Shape, OwnInv, Exclusive,
    Holds, New, Accepting, Exchanging, Busy, BatchBound, RegOwned, UnusedClean, Unused, Bound,
    Go, Finish, Throw, Block, Thread, locals, objects, kernel, history
<1>1. CASE \E t \in Thread : Get(t)
  BY <1>1 DEF Get
<1>2. CASE \E t \in Thread : GetThrows(t)
  BY <1>2 DEF GetThrows
<1>3. CASE \E t \in Thread : Accept(t)
  BY <1>3 DEF Accept
<1>4. CASE \E t \in Thread : AcceptNothing(t)
  BY <1>4 DEF AcceptNothing
<1>5. CASE \E t \in Thread : AcceptZero(t)
  BY <1>5 DEF AcceptZero
<1>6. CASE \E t \in Thread : AcceptThrows(t)
  BY <1>6 DEF AcceptThrows
<1>7. CASE \E t \in Thread : GiveBack(t)
  BY <1>7 DEF GiveBack
<1>8. CASE \E t \in Thread : Publish(t)
  BY <1>8 DEF Publish
<1>9. CASE \E t \in Thread : SetFd(t)
  BY <1>9 DEF SetFd
<1>10. CASE \E t \in Thread : SetMode(t)
  BY <1>10 DEF SetMode
<1>11. CASE \E t \in Thread : Bind(t)
  BY <1>11 DEF Bind
<1>12. CASE \E t \in Thread : BindThrows(t)
  BY <1>12 DEF BindThrows
<1>13. CASE \E t \in Thread : ReadNew(t)
  BY <1>13 DEF ReadNew, DiscardingRead
<1>14. CASE \E t \in Worker : Harvest(t)
  <2>1. PICK t \in Worker : Harvest(t)
    BY <1>14
  <2> DEFINE found == {reg[f] : f \in ready \cap Fd}
                       \cup (IF backlog # {} THEN ready \cap {Acceptor} ELSE {})
  <2>2. /\ batch' = [batch EXCEPT ![t] = found] /\ UNCHANGED hand /\ pc[t] = "wait"
        /\ \A u \in Worker \ {t} : found \cap Busy(u) = {}
    BY ONLY <2>1, ~race' DEF Harvest, Go
  <2>3. hand[t] = None /\ t \in Thread
    BY <2>2
  <2>4. \A u \in Thread, x \in Conn \cup {Acceptor} : u # t /\ x \in found => ~Holds(u, x)
    BY <2>2
  <2> HIDE DEF found
  <2> QED
    BY <2>2, <2>3, <2>4
<1>15. CASE \E t \in Worker : BatchDone(t)
  BY <1>15 DEF BatchDone
<1>16. CASE \E t \in Worker : CompleteAccept(t)
  BY <1>16 DEF CompleteAccept, Take
<1>17. CASE \E t \in Worker : CompleteConnection(t)
  BY <1>17 DEF CompleteConnection, Take
<1>18. CASE \E t \in Worker : ReadData(t)
  BY <1>18 DEF ReadData
<1>19. CASE \E t \in Worker : ReadNothing(t)
  BY <1>19 DEF ReadNothing
<1>20. CASE \E t \in Worker : ReadEof(t)
  BY <1>20 DEF ReadEof
<1>21. CASE \E t \in Worker : ReadThrows(t)
  BY <1>21 DEF ReadThrows
<1>22. CASE \E t \in Worker : ReadStdin(t)
  BY <1>22 DEF ReadStdin
<1>23. CASE \E t \in Worker : GetData(t)
  BY <1>23 DEF GetData
<1>24. CASE \E t \in Worker : Write(t)
  BY <1>24 DEF Write
<1>25. CASE \E t \in Worker : WriteThrows(t)
  BY <1>25 DEF WriteThrows
<1>26. CASE \E t \in Worker : Reread(t)
  BY <1>26 DEF Reread, DiscardingRead
<1>27. CASE \E t \in Worker : Unbind(t)
  BY <1>27 DEF Unbind
<1>28. CASE \E t \in Worker : UnbindThrows(t)
  BY <1>28 DEF UnbindThrows
<1>29. CASE \E t \in Worker : ResetChecks(t)
  BY <1>29 DEF ResetChecks
<1>30. CASE \E t \in Worker : CloseFd(t)
  BY <1>30 DEF CloseFd
<1>31. CASE \E t \in Worker : ZeroEndpoint(t)
  BY <1>31 DEF ZeroEndpoint
<1>32. CASE \E t \in Worker : ClearMode(t)
  BY <1>32 DEF ClearMode
<1>33. CASE \E t \in Worker : Release(t)
  BY <1>33 DEF Release
<1>34. CASE UNCHANGED serverVars
  BY <1>34 DEF serverVars
<1> QED
  BY <1>1, <1>2, <1>3, <1>4, <1>5, <1>6, <1>7, <1>8, <1>9, <1>10, <1>11, <1>12, <1>13,
      <1>14, <1>15, <1>16, <1>17, <1>18, <1>19, <1>20, <1>21, <1>22, <1>23, <1>24, <1>25, <1>26,
      <1>27, <1>28, <1>29, <1>30, <1>31, <1>32, <1>33, <1>34, QuietSteps DEF Next, ThreadStep,
      WorkerStep

\* What GiveBack and Release put in the available list is in its initial state.
LEMMA UnusedCleanStep ==
  ASSUME ShapeInv, ShapeInv', OwnInv, [Next]_vars, ~race'
  PROVE  UnusedClean'
<1> USE ServerThreads, ServerNulls DEF ShapeInv, TypeOK, MainFirst, Shape, New, Accepting,
    Exchanging, OwnInv, Exclusive, UnusedClean, BatchBound, RegOwned, Stages, NewStage,
    DataStage, Bound, Holds, Unused, Go, Finish, Throw, Block, Thread, locals, objects, kernel,
    history
<1>1. CASE \E t \in Thread : Get(t)
  BY <1>1 DEF Get
<1>2. CASE \E t \in Thread : GetThrows(t)
  BY <1>2, SMTT(40) DEF GetThrows
<1>3. CASE \E t \in Thread : Accept(t)
  BY <1>3 DEF Accept
<1>4. CASE \E t \in Thread : AcceptNothing(t)
  BY <1>4 DEF AcceptNothing
<1>5. CASE \E t \in Thread : AcceptZero(t)
  BY <1>5 DEF AcceptZero
<1>6. CASE \E t \in Thread : AcceptThrows(t)
  BY <1>6 DEF AcceptThrows
<1>7. CASE \E t \in Thread : GiveBack(t)
  <2>1. PICK t \in Thread : GiveBack(t)
    BY <1>7
  <2> DEFINE c == cur[t]
  <2>2. /\ c \in Conn /\ c \in created /\ avail[c] = 0 /\ endpoint[c] = 0 /\ ~dataExchange[c]
        /\ t \in Thread
    BY <2>1, SMTT(40) DEF GiveBack
  <2>3. /\ avail' = [avail EXCEPT ![c] = @ + 1] /\ cur' = [cur EXCEPT ![t] = None]
        /\ UNCHANGED <<endpoint, dataExchange, created>>
    BY <2>1 DEF GiveBack
  <2>4. \A u \in Thread : u # t => cur[u] # c
    BY <2>2, CurUnique
  <2>5. avail'[c] = 1 /\ \A d \in Conn : d # c => avail'[d] = avail[d]
    BY <2>2, <2>3
  <2>6. \A u \in Thread : cur'[u] # c /\ cur'[u] \in {None, cur[u]}
    BY <2>2, <2>3, <2>4
  <2> HIDE DEF c
  <2> QED
    BY ONLY <2>2, <2>3, <2>5, <2>6, UnusedClean, ServerNulls DEF UnusedClean, Unused
<1>8. CASE \E t \in Thread : Publish(t)
  BY <1>8 DEF Publish
<1>9. CASE \E t \in Thread : SetFd(t)
  BY <1>9 DEF SetFd
<1>10. CASE \E t \in Thread : SetMode(t)
  BY <1>10 DEF SetMode
<1>11. CASE \E t \in Thread : Bind(t)
  BY <1>11 DEF Bind
<1>12. CASE \E t \in Thread : BindThrows(t)
  BY <1>12, SMTT(40) DEF BindThrows
<1>13. CASE \E t \in Thread : ReadNew(t)
  BY <1>13, SMTT(40) DEF ReadNew, DiscardingRead
<1>14. CASE \E t \in Worker : Harvest(t)
  BY <1>14 DEF Harvest
<1>15. CASE \E t \in Worker : BatchDone(t)
  BY <1>15 DEF BatchDone
<1>16. CASE \E t \in Worker : CompleteAccept(t)
  BY <1>16 DEF CompleteAccept, Take
<1>17. CASE \E t \in Worker : CompleteConnection(t)
  BY <1>17 DEF CompleteConnection, Take
<1>18. CASE \E t \in Worker : ReadData(t)
  BY <1>18 DEF ReadData
<1>19. CASE \E t \in Worker : ReadNothing(t)
  BY <1>19, SMTT(40) DEF ReadNothing
<1>20. CASE \E t \in Worker : ReadEof(t)
  BY <1>20 DEF ReadEof
<1>21. CASE \E t \in Worker : ReadThrows(t)
  BY <1>21 DEF ReadThrows
<1>22. CASE \E t \in Worker : ReadStdin(t)
  BY <1>22 DEF ReadStdin
<1>23. CASE \E t \in Worker : GetData(t)
  BY <1>23 DEF GetData
<1>24. CASE \E t \in Worker : Write(t)
  BY <1>24 DEF Write
<1>25. CASE \E t \in Worker : WriteThrows(t)
  BY <1>25 DEF WriteThrows
<1>26. CASE \E t \in Worker : Reread(t)
  BY <1>26 DEF Reread, DiscardingRead
<1>27. CASE \E t \in Worker : Unbind(t)
  BY <1>27 DEF Unbind
<1>28. CASE \E t \in Worker : UnbindThrows(t)
  BY <1>28 DEF UnbindThrows
<1>29. CASE \E t \in Worker : ResetChecks(t)
  BY <1>29 DEF ResetChecks
<1>30. CASE \E t \in Worker : CloseFd(t)
  BY <1>30 DEF CloseFd
<1>31. CASE \E t \in Worker : ZeroEndpoint(t)
  BY <1>31 DEF ZeroEndpoint
<1>32. CASE \E t \in Worker : ClearMode(t)
  BY <1>32 DEF ClearMode
<1>33. CASE \E t \in Worker : Release(t)
  <2>1. PICK t \in Worker : Release(t)
    BY <1>33
  <2> DEFINE c == cur[t]
  <2>2. /\ c \in Conn /\ c \in created /\ avail[c] = 0 /\ endpoint[c] = 0 /\ ~dataExchange[c]
        /\ t \in Thread
    <3>1. pc[t] = "release" /\ t \in Thread
      BY ONLY <2>1 DEF Release, Thread
    <3>2. c \in Conn /\ endpoint[c] = 0 /\ ~dataExchange[c]
      BY <3>1
    <3>3. ~Unused(c)
      BY <3>1, <3>2
    <3> QED BY <3>1, <3>2, <3>3
  <2>3. /\ avail' = [avail EXCEPT ![c] = @ + 1] /\ cur' = [cur EXCEPT ![t] = None]
        /\ UNCHANGED <<endpoint, dataExchange, created>>
    BY <2>1 DEF Release
  <2>4. \A u \in Thread : u # t => cur[u] # c
    BY <2>2, CurUnique
  <2>5. avail'[c] = 1 /\ \A d \in Conn : d # c => avail'[d] = avail[d]
    BY <2>2, <2>3
  <2>6. \A u \in Thread : cur'[u] # c /\ cur'[u] \in {None, cur[u]}
    BY <2>2, <2>3, <2>4
  <2> HIDE DEF c
  <2> QED
    BY ONLY <2>2, <2>3, <2>5, <2>6, UnusedClean, ServerNulls DEF UnusedClean, Unused
<1>34. CASE UNCHANGED serverVars
  BY <1>34 DEF serverVars
<1> QED
  BY <1>1, <1>2, <1>3, <1>4, <1>5, <1>6, <1>7, <1>8, <1>9, <1>10, <1>11, <1>12, <1>13,
      <1>14, <1>15, <1>16, <1>17, <1>18, <1>19, <1>20, <1>21, <1>22, <1>23, <1>24, <1>25, <1>26,
      <1>27, <1>28, <1>29, <1>30, <1>31, <1>32, <1>33, <1>34, QuietSteps DEF Next, ThreadStep,
      WorkerStep

\* While a worker has an event of a connection nobody disconnects it.
LEMMA BatchBoundStep ==
  ASSUME ShapeInv, ShapeInv', OwnInv, [Next]_vars, ~race'
  PROVE  BatchBound'
<1> USE ServerThreads, ServerNulls DEF ShapeInv, TypeOK, MainFirst, Shape, New, Accepting,
    Exchanging, OwnInv, Exclusive, UnusedClean, BatchBound, RegOwned, Stages, NewStage,
    DataStage, Bound, Holds, Unused, Go, Finish, Throw, Block, Thread, locals, objects, kernel,
    history
<1>1. CASE \E t \in Thread : Get(t)
  BY <1>1 DEF Get
<1>2. CASE \E t \in Thread : GetThrows(t)
  BY <1>2 DEF GetThrows
<1>3. CASE \E t \in Thread : Accept(t)
  BY <1>3 DEF Accept
<1>4. CASE \E t \in Thread : AcceptNothing(t)
  BY <1>4 DEF AcceptNothing
<1>5. CASE \E t \in Thread : AcceptZero(t)
  BY <1>5 DEF AcceptZero
<1>6. CASE \E t \in Thread : AcceptThrows(t)
  BY <1>6 DEF AcceptThrows
<1>7. CASE \E t \in Thread : GiveBack(t)
  BY <1>7, SMTT(40) DEF GiveBack
<1>8. CASE \E t \in Thread : Publish(t)
  BY <1>8 DEF Publish
<1>9. CASE \E t \in Thread : SetFd(t)
  BY <1>9 DEF SetFd
<1>10. CASE \E t \in Thread : SetMode(t)
  BY <1>10 DEF SetMode
<1>11. CASE \E t \in Thread : Bind(t)
  BY <1>11 DEF Bind
<1>12. CASE \E t \in Thread : BindThrows(t)
  BY <1>12 DEF BindThrows
<1>13. CASE \E t \in Thread : ReadNew(t)
  <2>1. PICK t \in Thread : ReadNew(t)
    BY <1>13
  <2>2. UNCHANGED <<reg, endpoint, dataExchange>> /\ (Finish(t) \/ Throw(t) \/ Block(t))
    BY ONLY <2>1 DEF ReadNew, DiscardingRead, objects, kernel
  <2>3. batch' = batch \/ batch' = [batch EXCEPT ![t] = {}]
    BY ONLY <2>2 DEF Finish, Throw, Block, locals
  <2>4. \A u \in Thread : batch'[u] \subseteq batch[u]
    BY ONLY <2>3, ShapeInv DEF ShapeInv, TypeOK
  <2> QED
    BY ONLY <2>2, <2>4, OwnInv DEF OwnInv, BatchBound, Bound
<1>14. CASE \E t \in Worker : Harvest(t)
  BY <1>14 DEF Harvest
<1>15. CASE \E t \in Worker : BatchDone(t)
  BY <1>15 DEF BatchDone
<1>16. CASE \E t \in Worker : CompleteAccept(t)
  BY <1>16 DEF CompleteAccept, Take
<1>17. CASE \E t \in Worker : CompleteConnection(t)
  BY <1>17 DEF CompleteConnection, Take
<1>18. CASE \E t \in Worker : ReadData(t)
  BY <1>18 DEF ReadData
<1>19. CASE \E t \in Worker : ReadNothing(t)
  BY <1>19, SMTT(40) DEF ReadNothing
<1>20. CASE \E t \in Worker : ReadEof(t)
  BY <1>20 DEF ReadEof
<1>21. CASE \E t \in Worker : ReadThrows(t)
  BY <1>21 DEF ReadThrows
<1>22. CASE \E t \in Worker : ReadStdin(t)
  BY <1>22 DEF ReadStdin
<1>23. CASE \E t \in Worker : GetData(t)
  BY <1>23 DEF GetData
<1>24. CASE \E t \in Worker : Write(t)
  BY <1>24 DEF Write
<1>25. CASE \E t \in Worker : WriteThrows(t)
  BY <1>25, SMTT(40) DEF WriteThrows
<1>26. CASE \E t \in Worker : Reread(t)
  <2>1. PICK t \in Worker : Reread(t)
    BY <1>26
  <2>2. UNCHANGED <<reg, endpoint, dataExchange>> /\ (Finish(t) \/ Throw(t) \/ Block(t))
    BY ONLY <2>1 DEF Reread, DiscardingRead, objects, kernel
  <2>3. batch' = batch \/ batch' = [batch EXCEPT ![t] = {}]
    BY ONLY <2>2 DEF Finish, Throw, Block, locals
  <2>4. \A u \in Thread : batch'[u] \subseteq batch[u]
    BY ONLY <2>3, ShapeInv DEF ShapeInv, TypeOK
  <2> QED
    BY ONLY <2>2, <2>4, OwnInv DEF OwnInv, BatchBound, Bound
<1>27. CASE \E t \in Worker : Unbind(t)
  BY <1>27 DEF Unbind
<1>28. CASE \E t \in Worker : UnbindThrows(t)
  BY <1>28, SMTT(40) DEF UnbindThrows
<1>29. CASE \E t \in Worker : ResetChecks(t)
  BY <1>29 DEF ResetChecks
<1>30. CASE \E t \in Worker : CloseFd(t)
  BY <1>30 DEF CloseFd
<1>31. CASE \E t \in Worker : ZeroEndpoint(t)
  BY <1>31 DEF ZeroEndpoint
<1>32. CASE \E t \in Worker : ClearMode(t)
  BY <1>32 DEF ClearMode
<1>33. CASE \E t \in Worker : Release(t)
  BY <1>33, SMTT(40) DEF Release
<1>34. CASE UNCHANGED serverVars
  BY <1>34 DEF serverVars
<1> QED
  BY <1>1, <1>2, <1>3, <1>4, <1>5, <1>6, <1>7, <1>8, <1>9, <1>10, <1>11, <1>12, <1>13,
      <1>14, <1>15, <1>16, <1>17, <1>18, <1>19, <1>20, <1>21, <1>22, <1>23, <1>24, <1>25, <1>26,
      <1>27, <1>28, <1>29, <1>30, <1>31, <1>32, <1>33, <1>34, QuietSteps DEF Next, ThreadStep,
      WorkerStep

\* StartAsyncIo registers a connection for its own descriptor, and Disconnect takes it
\* out before close().
LEMMA RegOwnedStep ==
  ASSUME ShapeInv, ShapeInv', OwnInv, [Next]_vars, ~race'
  PROVE  RegOwned'
<1> USE ServerThreads, ServerNulls DEF ShapeInv, TypeOK, MainFirst, Shape, New, Accepting,
    Exchanging, OwnInv, Exclusive, UnusedClean, BatchBound, RegOwned, Stages, NewStage,
    DataStage, Bound, Holds, Unused, Go, Finish, Throw, Block, Thread, locals, objects, kernel,
    history
<1>1. CASE \E t \in Thread : Get(t)
  BY <1>1, SMTT(40) DEF Get
<1>2. CASE \E t \in Thread : GetThrows(t)
  BY <1>2 DEF GetThrows
<1>3. CASE \E t \in Thread : Accept(t)
  BY <1>3 DEF Accept
<1>4. CASE \E t \in Thread : AcceptNothing(t)
  BY <1>4 DEF AcceptNothing
<1>5. CASE \E t \in Thread : AcceptZero(t)
  BY <1>5 DEF AcceptZero
<1>6. CASE \E t \in Thread : AcceptThrows(t)
  BY <1>6 DEF AcceptThrows
<1>7. CASE \E t \in Thread : GiveBack(t)
  BY <1>7, SMTT(40) DEF GiveBack
<1>8. CASE \E t \in Thread : Publish(t)
  BY <1>8 DEF Publish
<1>9. CASE \E t \in Thread : SetFd(t)
  BY <1>9 DEF SetFd
<1>10. CASE \E t \in Thread : SetMode(t)
  BY <1>10 DEF SetMode
<1>11. CASE \E t \in Thread : Bind(t)
  BY <1>11 DEF Bind
<1>12. CASE \E t \in Thread : BindThrows(t)
  BY <1>12 DEF BindThrows
<1>13. CASE \E t \in Thread : ReadNew(t)
  BY <1>13 DEF ReadNew, DiscardingRead
<1>14. CASE \E t \in Worker : Harvest(t)
  BY <1>14 DEF Harvest
<1>15. CASE \E t \in Worker : BatchDone(t)
  BY <1>15 DEF BatchDone
<1>16. CASE \E t \in Worker : CompleteAccept(t)
  BY <1>16 DEF CompleteAccept, Take
<1>17. CASE \E t \in Worker : CompleteConnection(t)
  BY <1>17 DEF CompleteConnection, Take
<1>18. CASE \E t \in Worker : ReadData(t)
  BY <1>18 DEF ReadData
<1>19. CASE \E t \in Worker : ReadNothing(t)
  BY <1>19, SMTT(40) DEF ReadNothing
<1>20. CASE \E t \in Worker : ReadEof(t)
  BY <1>20 DEF ReadEof
<1>21. CASE \E t \in Worker : ReadThrows(t)
  BY <1>21 DEF ReadThrows
<1>22. CASE \E t \in Worker : ReadStdin(t)
  BY <1>22 DEF ReadStdin
<1>23. CASE \E t \in Worker : GetData(t)
  BY <1>23 DEF GetData
<1>24. CASE \E t \in Worker : Write(t)
  BY <1>24 DEF Write
<1>25. CASE \E t \in Worker : WriteThrows(t)
  BY <1>25 DEF WriteThrows
<1>26. CASE \E t \in Worker : Reread(t)
  BY <1>26 DEF Reread, DiscardingRead
<1>27. CASE \E t \in Worker : Unbind(t)
  BY <1>27, SMTT(40) DEF Unbind
<1>28. CASE \E t \in Worker : UnbindThrows(t)
  BY <1>28 DEF UnbindThrows
<1>29. CASE \E t \in Worker : ResetChecks(t)
  BY <1>29 DEF ResetChecks
<1>30. CASE \E t \in Worker : CloseFd(t)
  BY <1>30 DEF CloseFd
<1>31. CASE \E t \in Worker : ZeroEndpoint(t)
  BY <1>31 DEF ZeroEndpoint
<1>32. CASE \E t \in Worker : ClearMode(t)
  BY <1>32 DEF ClearMode
<1>33. CASE \E t \in Worker : Release(t)
  BY <1>33, SMTT(40) DEF Release
<1>34. CASE UNCHANGED serverVars
  BY <1>34 DEF serverVars
<1> QED
  BY <1>1, <1>2, <1>3, <1>4, <1>5, <1>6, <1>7, <1>8, <1>9, <1>10, <1>11, <1>12, <1>13,
      <1>14, <1>15, <1>16, <1>17, <1>18, <1>19, <1>20, <1>21, <1>22, <1>23, <1>24, <1>25, <1>26,
      <1>27, <1>28, <1>29, <1>30, <1>31, <1>32, <1>33, <1>34, QuietSteps DEF Next, ThreadStep,
      WorkerStep

\* Each step of accept, exchange and disconnect finds what the step before it left,
\* whatever the other threads did in between.
LEMMA StagesStep ==
  ASSUME ShapeInv, ShapeInv', OwnInv, [Next]_vars, ~race'
  PROVE  Stages'
<1> USE ServerThreads, ServerNulls, ServerBounds DEF ShapeInv, TypeOK, MainFirst, Shape, New,
    Accepting, Exchanging, OwnInv, Exclusive, UnusedClean, BatchBound, RegOwned, Stages,
    NewStage, DataStage, Bound, Holds, Unused, Closing, Carries, Go, Finish, Throw, Block,
    Thread, locals, objects, kernel, history
<1>1. CASE \E t \in Thread : Get(t)
  <2>1. PICK t \in Thread : Get(t)
    BY <1>1
  <2>2. PICK c \in Conn :
          /\ cur' = [cur EXCEPT ![t] = c]
          /\ TakesAvailable(c) \/ MakesNew(c)
    BY ONLY <2>1, GetCases
  <2>a. cur' = [cur EXCEPT ![t] = c]
    BY <2>2 DEF TakesAvailable, MakesNew
  <2>3. /\ pc[t] = "get" /\ pc' = [pc EXCEPT ![t] = "accept"] /\ t \in Thread
        /\ UNCHANGED <<batch, hand, nc, fd, target, m_newConnection, endpoint,
                       dataExchange, file, reg>>
    BY <2>1 DEF Get
  <2>4. Unused(c) /\ c \in Conn
    BY <2>2 DEF TakesAvailable, MakesNew
  <2>5. /\ endpoint[c] = 0 /\ ~dataExchange[c] /\ \A u \in Thread : cur[u] # c
        /\ avail[c] \in {0, 1}
    BY <2>4
  <2>6. \A f \in Fd : reg[f] # c
    BY <2>5
  <2>7. \A u \in Thread : ~Holds(u, c)
    <3> SUFFICES ASSUME NEW u \in Thread, Holds(u, c)
                 PROVE  FALSE
      OBVIOUS
    <3>1. hand[u] = c
      BY <2>5 DEF OwnInv, BatchBound, Bound, Holds
    <3>2. pc[u] \in Phase /\ c # None /\ c # Acceptor
      BY <2>4
    <3> QED
      BY <3>1, <3>2, <2>5 DEF Phase
  <2>8. ~Unused(c)'
    BY <2>2, <2>5 DEF TakesAvailable, MakesNew
  <2>9. \A d \in Conn : d # c => (Unused(d)' => Unused(d))
    BY <2>2 DEF TakesAvailable, MakesNew
  <2>10. NewStage(t)' /\ DataStage(t)'
    <3>1. pc'[t] = "accept" /\ cur'[t] = c
      BY ONLY <2>a, <2>3, ShapeInv DEF ShapeInv, TypeOK
    <3>2. \A u \in Thread : ~Holds(u, c)'
      BY <2>3, <2>7
    <3> QED
      BY ONLY <2>2, <2>3, <2>5, <2>6, <2>8, <3>1, <3>2 DEF NewStage, DataStage, New
  <2>11. \A s \in Thread : s # t => NewStage(s)' /\ DataStage(s)'
    <3> SUFFICES ASSUME NEW s \in Thread, s # t
                 PROVE  NewStage(s)' /\ DataStage(s)'
      OBVIOUS
    <3>1. pc[s] \notin New
      BY <2>3, NewUnique, SMTT(40) DEF Accepting
    <3>2. pc'[s] = pc[s] /\ cur'[s] = cur[s] /\ pc'[s] \notin New
      BY ONLY <2>a, <2>3, <3>1, s \in Thread, s # t, ShapeInv DEF ShapeInv, TypeOK
    <3>3. DataStage(s)'
      BY <2>3, <3>2
    <3> QED
      BY <3>2, <3>3
  <2> QED
    BY <2>10, <2>11, SMTT(40)
<1>2. CASE \E t \in Thread : GetThrows(t)
  BY <1>2, SMTT(40) DEF GetThrows
<1>3. CASE \E t \in Thread : Accept(t)
  BY <1>3, SMTT(40) DEF Accept, FreeFds
<1>4. CASE \E t \in Thread : AcceptNothing(t)
  BY <1>4 DEF AcceptNothing
<1>5. CASE \E t \in Thread : AcceptZero(t)
  BY <1>5 DEF AcceptZero
<1>6. CASE \E t \in Thread : AcceptThrows(t)
  BY <1>6, SMTT(40) DEF AcceptThrows
<1>7. CASE \E t \in Thread : GiveBack(t)
  BY <1>7, SMTT(40) DEF GiveBack
<1>8. CASE \E t \in Thread : Publish(t)
  BY <1>8 DEF Publish
<1>9. CASE \E t \in Thread : SetFd(t)
  BY <1>9 DEF SetFd
<1>10. CASE \E t \in Thread : SetMode(t)
  BY <1>10 DEF SetMode
<1>11. CASE \E t \in Thread : Bind(t)
  <2>1. PICK t \in Thread : Bind(t)
    BY <1>11
  <2> DEFINE c == cur[t]
             e == endpoint[c]
  <2>2. /\ c \in Conn /\ t \in Thread /\ e \in Fd /\ e # 0 /\ pc[t] = "bind" /\ reg[e] = None
    BY <2>1 DEF Bind, OwnInv, FileOwned
  <2>3. /\ reg' = [reg EXCEPT ![e] = c]
        /\ UNCHANGED <<batch, endpoint, dataExchange, file, avail, created, m_newConnection>>
    BY <2>1 DEF Bind
  <2>4. \A s \in Thread : s # t => /\ pc'[s] = pc[s] \/ (pc'[s] = "wait")
                                  /\ cur'[s] = cur[s]
                                  /\ hand'[s] = hand[s]
    BY <2>1 DEF Bind
  <2>5. pc'[t] \in {"pick", "off", "readNew"}
    BY <2>1 DEF Bind
  <2>6. NewStage(t)' /\ DataStage(t)'
    BY <2>5
  <2>7. ASSUME NEW s \in Thread, s # t
        PROVE  NewStage(s)' /\ DataStage(s)'
    <3>1. pc[s] \notin New
      BY <2>2, <2>7, NewUnique DEF Accepting
    <3>2. pc'[s] \notin New
      BY <2>4, <2>7, <3>1
    <3>3. cur[s] \in Conn => c # cur[s]
      BY <2>2, <2>7, CurUnique
    <3>4. cur[s] \in Conn /\ pc[s] # "zero" => endpoint[cur[s]] # e
      BY <2>2, <2>7, EndpointUnique
    <3>5. \A f \in Fd : reg'[f] = IF f = e THEN c ELSE reg[f]
      BY <2>3
    <3> HIDE DEF c, e
    <3>6. pc'[s] \in Exchanging => pc[s] = pc'[s] /\ cur[s] \in Conn /\ endpoint[cur[s]] \in Fd
      BY <2>4, <2>7
    <3>7. DataStage(s) /\ (pc'[s] = "stdin" => pc[s] = "stdin")
      BY <2>4, <2>7
    <3>8. DataStage(s)'
      BY ONLY <2>2, <2>3, <2>4, <2>7, <3>3, <3>4, <3>5, <3>6, <3>7
         DEF DataStage, Bound, Exchanging
    <3> QED
      BY <3>2, <3>8
  <2> QED
    BY <2>6, <2>7
<1>12. CASE \E t \in Thread : BindThrows(t)
  BY <1>12, SMTT(40) DEF BindThrows
<1>13. CASE \E t \in Thread : ReadNew(t)
  BY <1>13 DEF ReadNew, DiscardingRead
<1>14. CASE \E t \in Worker : Harvest(t)
  BY <1>14, SMTT(40) DEF Harvest
<1>15. CASE \E t \in Worker : BatchDone(t)
  BY <1>15 DEF BatchDone
<1>16. CASE \E t \in Worker : CompleteAccept(t)
  BY <1>16, SMTT(40) DEF CompleteAccept, Take
<1>17. CASE \E t \in Worker : CompleteConnection(t)
  BY <1>17, SMTT(40) DEF CompleteConnection, Take
<1>18. CASE \E t \in Worker : ReadData(t)
  BY <1>18, SMTT(40) DEF ReadData
<1>19. CASE \E t \in Worker : ReadNothing(t)
  BY <1>19, SMTT(40) DEF ReadNothing
<1>20. CASE \E t \in Worker : ReadEof(t)
  BY <1>20 DEF ReadEof
<1>21. CASE \E t \in Worker : ReadThrows(t)
  BY <1>21, SMTT(40) DEF ReadThrows
<1>22. CASE \E t \in Worker : ReadStdin(t)
  BY <1>22 DEF ReadStdin
<1>23. CASE \E t \in Worker : GetData(t)
  BY <1>23 DEF GetData
<1>24. CASE \E t \in Worker : Write(t)
  BY <1>24, SMTT(40) DEF Write
<1>25. CASE \E t \in Worker : WriteThrows(t)
  BY <1>25, SMTT(40) DEF WriteThrows
<1>26. CASE \E t \in Worker : Reread(t)
  <2>1. PICK t \in Worker : Reread(t)
    BY <1>26
  <2>2. /\ pc[t] = "reread" /\ (Finish(t) \/ Throw(t) \/ file[endpoint[cur[t]]] = Stdin)
        /\ UNCHANGED <<m_newConnection, endpoint, dataExchange, avail, created, file, reg>>
    BY <2>1 DEF Reread, DiscardingRead
  <2>3. CASE Finish(t)
    BY <2>2, <2>3, SMTT(40)
  <2>4. CASE Throw(t)
    BY <2>2, <2>4, SMTT(40)
  <2>5. file[endpoint[cur[t]]] # Stdin
    BY <2>2
  <2> QED
    BY ONLY <2>2, <2>3, <2>4, <2>5
<1>27. CASE \E t \in Worker : Unbind(t)
  BY <1>27 DEF Unbind
<1>28. CASE \E t \in Worker : UnbindThrows(t)
  BY <1>28, SMTT(40) DEF UnbindThrows
<1>29. CASE \E t \in Worker : ResetChecks(t)
  BY <1>29 DEF ResetChecks
<1>30. CASE \E t \in Worker : CloseFd(t)
  <2>1. PICK t \in Worker : CloseFd(t)
    BY <1>30
  <2> DEFINE c == cur[t]
             e == endpoint[c]
  <2>2. /\ c \in Conn /\ t \in Thread /\ e \in Fd /\ e # 0 /\ pc[t] = "close" /\ reg[e] = None
    BY <2>1 DEF CloseFd, OwnInv, FileOwned
  <2>3. /\ reg' = [reg EXCEPT ![e] = None] /\ file' = [file EXCEPT ![e] = NoPeer]
        /\ pc' = [pc EXCEPT ![t] = "zero"]
        /\ UNCHANGED <<batch, hand, cur, fd, target, m_newConnection, endpoint, dataExchange,
                       avail, created>>
    BY <2>1 DEF CloseFd
  <2>4. UNCHANGED reg
    BY <2>2, <2>3
  <2>5. \A f \in Fd : f # e => file'[f] = file[f]
    BY <2>3
  <2>6. ASSUME NEW s \in Thread, s # t
        PROVE  NewStage(s)' /\ DataStage(s)'
    <3>1. cur[s] \in Conn /\ pc[s] # "zero" => endpoint[cur[s]] # e
      BY ONLY <2>2, <2>6, EndpointUnique, ShapeInv, OwnInv
    <3>2. pc[s] \in {"publish", "setFd"} => fd[s] # e
      <4>1. ~Closing(c)
        BY <2>2, CurUnique
      <4> QED
        BY <2>2, <2>6, <4>1 DEF OwnInv, CarriedOwned, Carries
    <3>3. pc[s] \in {"setMode", "bind"} => fd[s] # e
      BY <3>1
    <3>4. pc[s] \in New => cur[s] \in Conn /\ endpoint[cur[s]] \in Fd /\ fd[s] \in Fd
      OBVIOUS
    <3>5. pc[s] \in Exchanging => cur[s] \in Conn /\ endpoint[cur[s]] \in Fd
      OBVIOUS
    <3>6. NewStage(s) /\ DataStage(s)
      OBVIOUS
    <3> HIDE DEF c, e
    <3>7. NewStage(s)'
      BY ONLY <2>3, <2>4, <2>5, <2>6, <3>1, <3>2, <3>3, <3>4, <3>6
         DEF NewStage, New, Holds, Unused
    <3>8. DataStage(s)'
      BY ONLY <2>3, <2>4, <2>5, <2>6, <3>1, <3>5, <3>6 DEF DataStage, Exchanging, Bound
    <3> QED
      BY <3>7, <3>8
  <2>7. NewStage(t)' /\ DataStage(t)'
    BY <2>2, <2>3, <2>4
  <2> QED
    BY <2>6, <2>7, SMTT(40)
<1>31. CASE \E t \in Worker : ZeroEndpoint(t)
  BY <1>31, SMTT(40) DEF ZeroEndpoint
<1>32. CASE \E t \in Worker : ClearMode(t)
  BY <1>32 DEF ClearMode
<1>33. CASE \E t \in Worker : Release(t)
  BY <1>33, SMTT(40) DEF Release
<1>34. CASE UNCHANGED serverVars
  BY <1>34 DEF serverVars
<1> QED
  BY <1>1, <1>2, <1>3, <1>4, <1>5, <1>6, <1>7, <1>8, <1>9, <1>10, <1>11, <1>12, <1>13,
      <1>14, <1>15, <1>16, <1>17, <1>18, <1>19, <1>20, <1>21, <1>22, <1>23, <1>24, <1>25, <1>26,
      <1>27, <1>28, <1>29, <1>30, <1>31, <1>32, <1>33, <1>34, QuietSteps DEF Next, ThreadStep,
      WorkerStep

\* accept() takes a descriptor nobody has, Set passes it on, close() ends its ownership:
\* an old number in m_endpoint never makes a second owner.
LEMMA OwnersStep ==
  ASSUME ShapeInv, ShapeInv', OwnInv, [Next]_vars, ~race'
  PROVE  EndpointOpen' /\ EndpointOwned' /\ CarriedOwned' /\ FileOwned'
<1> USE ServerThreads, ServerNulls, ServerBounds DEF ShapeInv, TypeOK, MainFirst, Shape, New,
    Accepting, Exchanging, OwnInv, Exclusive, UnusedClean, BatchBound, RegOwned, Stages,
    NewStage, DataStage, Bound, Holds, Unused, EndpointOpen, EndpointOwned, CarriedOwned,
    FileOwned, Closing, Carries, Go, Finish, Throw, Block, Thread, locals, objects, kernel,
    history
<1>1. CASE \E t \in Thread : Get(t)
  <2>1. PICK t \in Thread : Get(t)
    BY <1>1
  <2> t \in Thread
    BY <2>1 DEF Thread
  <2>2. pc[t] \notin OwnedPhases /\ pc'[t] \notin OwnedPhases /\ UNCHANGED fd
    BY <2>1 DEF Get, OwnedPhases
  <2>x. \A u \in Thread : u # t => pc'[u] = pc[u] /\ cur'[u] = cur[u]
    BY <2>1 DEF Get
  <2>3. KeepsOwners
    BY ONLY <2>2, <2>x, MoveKeeps, ShapeInv, t \in Thread
  <2>4. UNCHANGED <<endpoint, file>>
    BY ONLY <2>1 DEF Get, objects, kernel
  <2> QED
    BY ONLY <2>3, <2>4, OwnInv, OwnersKept
<1>2. CASE \E t \in Thread : GetThrows(t)
  <2>1. PICK t \in Thread : GetThrows(t)
    BY <1>2
  <2> t \in Thread
    BY <2>1 DEF Thread
  <2>2. pc[t] \notin OwnedPhases /\ pc[t] # "off" /\ (Finish(t) \/ Throw(t) \/ Block(t))
    BY ONLY <2>1 DEF GetThrows, OwnedPhases
  <2>3. KeepsOwners
    BY ONLY <2>2, <2>1, EndKeeps, ShapeInv, t \in Thread
  <2>4. UNCHANGED <<endpoint, file>>
    BY ONLY <2>1 DEF GetThrows, objects, kernel
  <2> QED
    BY ONLY <2>3, <2>4, OwnInv, OwnersKept
<1>3. CASE \E t \in Thread : Accept(t)
  <2>1. EndpointOpen'
    BY <1>3 DEF Accept, FreeFds
  <2>2. EndpointOwned'
    BY <1>3 DEF Accept, FreeFds
  <2>3. CarriedOwned'
    BY <1>3 DEF Accept, FreeFds
  <2>4. FileOwned'
    BY <1>3 DEF Accept, FreeFds
  <2> QED
    BY <2>1, <2>2, <2>3, <2>4
<1>4. CASE \E t \in Thread : AcceptNothing(t)
  <2>1. PICK t \in Thread : AcceptNothing(t)
    BY <1>4
  <2> t \in Thread
    BY <2>1 DEF Thread
  <2>2. pc[t] \notin OwnedPhases /\ pc'[t] \notin OwnedPhases /\ UNCHANGED fd
    BY <2>1 DEF AcceptNothing, OwnedPhases
  <2>x. \A u \in Thread : u # t => pc'[u] = pc[u] /\ cur'[u] = cur[u]
    BY <2>1 DEF AcceptNothing
  <2>3. KeepsOwners
    BY ONLY <2>2, <2>x, MoveKeeps, ShapeInv, t \in Thread
  <2>4. UNCHANGED <<endpoint, file>>
    BY ONLY <2>1 DEF AcceptNothing, objects, kernel
  <2> QED
    BY ONLY <2>3, <2>4, OwnInv, OwnersKept
<1>5. CASE \E t \in Thread : AcceptZero(t)
  BY <1>5 DEF AcceptZero
<1>6. CASE \E t \in Thread : AcceptThrows(t)
  <2>1. PICK t \in Thread : AcceptThrows(t)
    BY <1>6
  <2> t \in Thread
    BY <2>1 DEF Thread
  <2>2. pc[t] \notin OwnedPhases /\ pc[t] # "off" /\ (Finish(t) \/ Throw(t) \/ Block(t))
    BY ONLY <2>1 DEF AcceptThrows, OwnedPhases
  <2>3. KeepsOwners
    BY ONLY <2>2, <2>1, EndKeeps, ShapeInv, t \in Thread
  <2>4. UNCHANGED <<endpoint, file>>
    BY ONLY <2>1 DEF AcceptThrows, objects, kernel
  <2> QED
    BY ONLY <2>3, <2>4, OwnInv, OwnersKept
<1>7. CASE \E t \in Thread : GiveBack(t)
  <2>1. PICK t \in Thread : GiveBack(t)
    BY <1>7
  <2> t \in Thread
    BY <2>1 DEF Thread
  <2>2. pc[t] \notin OwnedPhases /\ pc[t] # "off" /\ (Finish(t) \/ Throw(t) \/ Block(t))
    BY ONLY <2>1 DEF GiveBack, OwnedPhases
  <2>3. KeepsOwners
    BY ONLY <2>2, <2>1, EndKeeps, ShapeInv, t \in Thread
  <2>4. UNCHANGED <<endpoint, file>>
    BY ONLY <2>1 DEF GiveBack, objects, kernel
  <2> QED
    BY ONLY <2>3, <2>4, OwnInv, OwnersKept
<1>8. CASE \E t \in Thread : Publish(t)
  <2>1. PICK t \in Thread : Publish(t)
    BY <1>8
  <2> t \in Thread
    BY <2>1 DEF Thread
  <2>2. /\ pc[t] = "publish" /\ pc' = [pc EXCEPT ![t] = "setFd"]
        /\ UNCHANGED <<cur, fd, endpoint, file>>
    BY <2>1 DEF Publish
  <2>3. \A c \in Conn : Closing(c)' <=> Closing(c)
    BY <2>2
  <2>4. \A u \in Thread, f \in Fd : Carries(u, f)' <=> Carries(u, f)
    BY <2>2
  <2>5. KeepsOwners
    BY ONLY <2>3, <2>4 DEF KeepsOwners
  <2> QED
    BY ONLY <2>2, <2>5, OwnInv, OwnersKept
<1>9. CASE \E t \in Thread : SetFd(t)
  <2>1. EndpointOpen'
    BY <1>9 DEF SetFd
  <2>2. EndpointOwned'
    BY <1>9 DEF SetFd
  <2>3. CarriedOwned'
    BY <1>9 DEF SetFd
  <2>4. FileOwned'
    <3>1. PICK t \in Thread : SetFd(t)
      BY <1>9
    <3> DEFINE c == cur[t]
    <3>2. /\ c \in Conn /\ endpoint[c] = 0 /\ m_newConnection = c /\ t \in Thread
          /\ fd[t] \in Fd /\ pc[t] = "setFd"
      BY <3>1 DEF SetFd
    <3>3. /\ endpoint' = [endpoint EXCEPT ![c] = fd[t]] /\ pc' = [pc EXCEPT ![t] = "setMode"]
          /\ UNCHANGED <<file, fd, cur>>
      BY <3>1, <3>2 DEF SetFd
    <3>4. \A d \in Conn : Closing(d)' <=> Closing(d)
      BY <3>2, <3>3
    <3>5. ~Closing(c)
      BY <3>2, CurUnique
    <3>6. \A u \in Thread, f \in Fd : u # t /\ Carries(u, f) => Carries(u, f)'
      BY <3>3
    <3>7. \A f \in Fd : Carries(t, f) => f = fd[t]
      OBVIOUS
    <3>8. \A f \in Fd : file[f] \in Peer => f # 0
      BY DEF FileOwned
    <3>9. endpoint'[c] = fd[t] /\ \A d \in Conn : d # c => endpoint'[d] = endpoint[d]
      BY <3>2, <3>3
    <3> HIDE DEF c
    <3> QED
      BY ONLY <3>2, <3>3, <3>4, <3>5, <3>6, <3>7, <3>8, <3>9, FileOwned DEF FileOwned
  <2> QED
    BY <2>1, <2>2, <2>3, <2>4
<1>10. CASE \E t \in Thread : SetMode(t)
  <2>1. PICK t \in Thread : SetMode(t)
    BY <1>10
  <2> t \in Thread
    BY <2>1 DEF Thread
  <2>2. pc[t] \notin OwnedPhases /\ pc'[t] \notin OwnedPhases /\ UNCHANGED fd
    BY <2>1 DEF SetMode, OwnedPhases
  <2>x. \A u \in Thread : u # t => pc'[u] = pc[u] /\ cur'[u] = cur[u]
    BY <2>1 DEF SetMode
  <2>3. KeepsOwners
    BY ONLY <2>2, <2>x, MoveKeeps, ShapeInv, t \in Thread
  <2>4. UNCHANGED <<endpoint, file>>
    BY ONLY <2>1 DEF SetMode, objects, kernel
  <2> QED
    BY ONLY <2>3, <2>4, OwnInv, OwnersKept
<1>11. CASE \E t \in Thread : Bind(t)
  <2>1. PICK t \in Thread : Bind(t)
    BY <1>11
  <2> t \in Thread
    BY <2>1 DEF Thread
  <2>2. pc[t] \notin OwnedPhases /\ pc[t] # "off"
    BY ONLY <2>1 DEF Bind, OwnedPhases
  <2>3. KeepsOwners
    <3>1. CASE Finish(t)
      BY ONLY <2>2, <3>1, EndKeeps, ShapeInv, t \in Thread
    <3>2. CASE ~Finish(t)
      <4>1. Go(t, "bind", "readNew") /\ cur' = [cur EXCEPT ![t] = None] /\ UNCHANGED fd
        BY ONLY <2>1, <3>2 DEF Bind
      <4>2. pc'[t] \notin OwnedPhases
        BY <4>1 DEF OwnedPhases
      <4>3. \A u \in Thread : u # t => pc'[u] = pc[u] /\ cur'[u] = cur[u]
        BY <4>1
      <4> QED
        BY ONLY <2>2, <4>1, <4>2, <4>3, MoveKeeps, ShapeInv, t \in Thread
    <3> QED BY ONLY <3>1, <3>2
  <2>4. UNCHANGED <<endpoint, file>>
    BY ONLY <2>1 DEF Bind, objects, kernel
  <2> QED
    BY ONLY <2>3, <2>4, OwnInv, OwnersKept
<1>12. CASE \E t \in Thread : BindThrows(t)
  <2>1. PICK t \in Thread : BindThrows(t)
    BY <1>12
  <2> t \in Thread
    BY <2>1 DEF Thread
  <2>2. pc[t] \notin OwnedPhases /\ pc[t] # "off" /\ (Finish(t) \/ Throw(t) \/ Block(t))
    BY ONLY <2>1 DEF BindThrows, OwnedPhases
  <2>3. KeepsOwners
    BY ONLY <2>2, <2>1, EndKeeps, ShapeInv, t \in Thread
  <2>4. UNCHANGED <<endpoint, file>>
    BY ONLY <2>1 DEF BindThrows, objects, kernel
  <2> QED
    BY ONLY <2>3, <2>4, OwnInv, OwnersKept
<1>13. CASE \E t \in Thread : ReadNew(t)
  <2>1. PICK t \in Thread : ReadNew(t)
    BY <1>13
  <2> t \in Thread
    BY <2>1 DEF Thread
  <2>2. pc[t] \notin OwnedPhases /\ pc[t] # "off" /\ (Finish(t) \/ Throw(t) \/ Block(t))
    BY ONLY <2>1 DEF ReadNew, DiscardingRead, OwnedPhases
  <2>3. KeepsOwners
    BY ONLY <2>2, <2>1, EndKeeps, ShapeInv, t \in Thread
  <2>4. UNCHANGED <<endpoint, file>>
    BY ONLY <2>1 DEF ReadNew, DiscardingRead, objects, kernel
  <2> QED
    BY ONLY <2>3, <2>4, OwnInv, OwnersKept
<1>14. CASE \E t \in Worker : Harvest(t)
  <2>1. PICK t \in Worker : Harvest(t)
    BY <1>14
  <2> t \in Thread
    BY <2>1 DEF Thread
  <2>2. pc[t] \notin OwnedPhases /\ pc'[t] \notin OwnedPhases /\ UNCHANGED fd
    BY <2>1 DEF Harvest, OwnedPhases
  <2>x. \A u \in Thread : u # t => pc'[u] = pc[u] /\ cur'[u] = cur[u]
    BY <2>1 DEF Harvest
  <2>3. KeepsOwners
    BY ONLY <2>2, <2>x, MoveKeeps, ShapeInv, t \in Thread
  <2>4. UNCHANGED <<endpoint, file>>
    BY ONLY <2>1 DEF Harvest, objects, kernel
  <2> QED
    BY ONLY <2>3, <2>4, OwnInv, OwnersKept
<1>15. CASE \E t \in Worker : BatchDone(t)
  <2>1. PICK t \in Worker : BatchDone(t)
    BY <1>15
  <2> t \in Thread
    BY <2>1 DEF Thread
  <2>2. pc[t] \notin OwnedPhases /\ pc'[t] \notin OwnedPhases /\ UNCHANGED fd
    BY <2>1 DEF BatchDone, OwnedPhases
  <2>x. \A u \in Thread : u # t => pc'[u] = pc[u] /\ cur'[u] = cur[u]
    BY <2>1 DEF BatchDone
  <2>3. KeepsOwners
    BY ONLY <2>2, <2>x, MoveKeeps, ShapeInv, t \in Thread
  <2>4. UNCHANGED <<endpoint, file>>
    BY ONLY <2>1 DEF BatchDone, objects, kernel
  <2> QED
    BY ONLY <2>3, <2>4, OwnInv, OwnersKept
<1>16. CASE \E t \in Worker : CompleteAccept(t)
  <2>1. PICK t \in Worker : CompleteAccept(t)
    BY <1>16
  <2> t \in Thread
    BY <2>1 DEF Thread
  <2>2. pc[t] \notin OwnedPhases /\ pc'[t] \notin OwnedPhases /\ UNCHANGED fd
    BY <2>1 DEF CompleteAccept, OwnedPhases
  <2>x. \A u \in Thread : u # t => pc'[u] = pc[u] /\ cur'[u] = cur[u]
    BY <2>1 DEF CompleteAccept
  <2>3. KeepsOwners
    BY ONLY <2>2, <2>x, MoveKeeps, ShapeInv, t \in Thread
  <2>4. UNCHANGED <<endpoint, file>>
    BY ONLY <2>1 DEF CompleteAccept, objects, kernel
  <2> QED
    BY ONLY <2>3, <2>4, OwnInv, OwnersKept
<1>17. CASE \E t \in Worker : CompleteConnection(t)
  <2>1. PICK t \in Worker : CompleteConnection(t)
    BY <1>17
  <2> t \in Thread
    BY <2>1 DEF Thread
  <2>2. pc[t] \notin OwnedPhases /\ pc'[t] \notin OwnedPhases /\ UNCHANGED fd
    BY <2>1 DEF CompleteConnection, OwnedPhases
  <2>x. \A u \in Thread : u # t => pc'[u] = pc[u] /\ cur'[u] = cur[u]
    BY <2>1 DEF CompleteConnection
  <2>3. KeepsOwners
    BY ONLY <2>2, <2>x, MoveKeeps, ShapeInv, t \in Thread
  <2>4. UNCHANGED <<endpoint, file>>
    BY ONLY <2>1 DEF CompleteConnection, objects, kernel
  <2> QED
    BY ONLY <2>3, <2>4, OwnInv, OwnersKept
<1>18. CASE \E t \in Worker : ReadData(t)
  <2>1. PICK t \in Worker : ReadData(t)
    BY <1>18
  <2> t \in Thread
    BY <2>1 DEF Thread
  <2>2. pc[t] \notin OwnedPhases /\ pc'[t] \notin OwnedPhases /\ UNCHANGED fd
    BY <2>1 DEF ReadData, OwnedPhases
  <2>x. \A u \in Thread : u # t => pc'[u] = pc[u] /\ cur'[u] = cur[u]
    BY <2>1 DEF ReadData
  <2>3. KeepsOwners
    BY ONLY <2>2, <2>x, MoveKeeps, ShapeInv, t \in Thread
  <2>4. UNCHANGED <<endpoint, file>>
    BY ONLY <2>1 DEF ReadData, objects, kernel
  <2> QED
    BY ONLY <2>3, <2>4, OwnInv, OwnersKept
<1>19. CASE \E t \in Worker : ReadNothing(t)
  <2>1. PICK t \in Worker : ReadNothing(t)
    BY <1>19
  <2> t \in Thread
    BY <2>1 DEF Thread
  <2>2. pc[t] \notin OwnedPhases /\ pc[t] # "off" /\ (Finish(t) \/ Throw(t) \/ Block(t))
    BY ONLY <2>1 DEF ReadNothing, OwnedPhases
  <2>3. KeepsOwners
    BY ONLY <2>2, <2>1, EndKeeps, ShapeInv, t \in Thread
  <2>4. UNCHANGED <<endpoint, file>>
    BY ONLY <2>1 DEF ReadNothing, objects, kernel
  <2> QED
    BY ONLY <2>3, <2>4, OwnInv, OwnersKept
<1>20. CASE \E t \in Worker : ReadEof(t)
  <2>1. PICK t \in Worker : ReadEof(t)
    BY <1>20
  <2> t \in Thread
    BY <2>1 DEF Thread
  <2>2. pc[t] \notin OwnedPhases /\ pc'[t] \notin OwnedPhases /\ UNCHANGED fd
    BY <2>1 DEF ReadEof, OwnedPhases
  <2>x. \A u \in Thread : u # t => pc'[u] = pc[u] /\ cur'[u] = cur[u]
    BY <2>1 DEF ReadEof
  <2>3. KeepsOwners
    BY ONLY <2>2, <2>x, MoveKeeps, ShapeInv, t \in Thread
  <2>4. UNCHANGED <<endpoint, file>>
    BY ONLY <2>1 DEF ReadEof, objects, kernel
  <2> QED
    BY ONLY <2>3, <2>4, OwnInv, OwnersKept
<1>21. CASE \E t \in Worker : ReadThrows(t)
  <2>1. PICK t \in Worker : ReadThrows(t)
    BY <1>21
  <2> t \in Thread
    BY <2>1 DEF Thread
  <2>2. pc[t] \notin OwnedPhases /\ pc[t] # "off" /\ (Finish(t) \/ Throw(t) \/ Block(t))
    BY ONLY <2>1 DEF ReadThrows, OwnedPhases
  <2>3. KeepsOwners
    BY ONLY <2>2, <2>1, EndKeeps, ShapeInv, t \in Thread
  <2>4. UNCHANGED <<endpoint, file>>
    BY ONLY <2>1 DEF ReadThrows, objects, kernel
  <2> QED
    BY ONLY <2>3, <2>4, OwnInv, OwnersKept
<1>22. CASE \E t \in Worker : ReadStdin(t)
  <2>1. PICK t \in Worker : ReadStdin(t)
    BY <1>22
  <2> t \in Thread
    BY <2>1 DEF Thread
  <2>2. pc[t] \notin OwnedPhases /\ pc[t] # "off" /\ (Finish(t) \/ Throw(t) \/ Block(t))
    BY ONLY <2>1 DEF ReadStdin, OwnedPhases
  <2>3. KeepsOwners
    BY ONLY <2>2, <2>1, EndKeeps, ShapeInv, t \in Thread
  <2>4. UNCHANGED <<endpoint, file>>
    BY ONLY <2>1 DEF ReadStdin, objects, kernel
  <2> QED
    BY ONLY <2>3, <2>4, OwnInv, OwnersKept
<1>23. CASE \E t \in Worker : GetData(t)
  <2>1. PICK t \in Worker : GetData(t)
    BY <1>23
  <2> t \in Thread
    BY <2>1 DEF Thread
  <2>2. pc[t] \notin OwnedPhases /\ pc'[t] \notin OwnedPhases /\ UNCHANGED fd
    BY <2>1 DEF GetData, OwnedPhases
  <2>x. \A u \in Thread : u # t => pc'[u] = pc[u] /\ cur'[u] = cur[u]
    BY <2>1 DEF GetData
  <2>3. KeepsOwners
    BY ONLY <2>2, <2>x, MoveKeeps, ShapeInv, t \in Thread
  <2>4. UNCHANGED <<endpoint, file>>
    BY ONLY <2>1 DEF GetData, objects, kernel
  <2> QED
    BY ONLY <2>3, <2>4, OwnInv, OwnersKept
<1>24. CASE \E t \in Worker : Write(t)
  <2>1. PICK t \in Worker : Write(t)
    BY <1>24
  <2> t \in Thread
    BY <2>1 DEF Thread
  <2>2. pc[t] \notin OwnedPhases /\ pc'[t] \notin OwnedPhases /\ UNCHANGED fd
    BY <2>1 DEF Write, OwnedPhases
  <2>x. \A u \in Thread : u # t => pc'[u] = pc[u] /\ cur'[u] = cur[u]
    BY <2>1 DEF Write
  <2>3. KeepsOwners
    BY ONLY <2>2, <2>x, MoveKeeps, ShapeInv, t \in Thread
  <2>4. UNCHANGED <<endpoint, file>>
    BY ONLY <2>1 DEF Write, objects, kernel
  <2> QED
    BY ONLY <2>3, <2>4, OwnInv, OwnersKept
<1>25. CASE \E t \in Worker : WriteThrows(t)
  <2>1. PICK t \in Worker : WriteThrows(t)
    BY <1>25
  <2> t \in Thread
    BY <2>1 DEF Thread
  <2>2. pc[t] \notin OwnedPhases /\ pc[t] # "off" /\ (Finish(t) \/ Throw(t) \/ Block(t))
    BY ONLY <2>1 DEF WriteThrows, OwnedPhases
  <2>3. KeepsOwners
    BY ONLY <2>2, <2>1, EndKeeps, ShapeInv, t \in Thread
  <2>4. UNCHANGED <<endpoint, file>>
    BY ONLY <2>1 DEF WriteThrows, objects, kernel
  <2> QED
    BY ONLY <2>3, <2>4, OwnInv, OwnersKept
<1>26. CASE \E t \in Worker : Reread(t)
  <2>1. PICK t \in Worker : Reread(t)
    BY <1>26
  <2> t \in Thread
    BY <2>1 DEF Thread
  <2>2. pc[t] \notin OwnedPhases /\ pc[t] # "off" /\ (Finish(t) \/ Throw(t) \/ Block(t))
    BY ONLY <2>1 DEF Reread, DiscardingRead, OwnedPhases
  <2>3. KeepsOwners
    BY ONLY <2>2, <2>1, EndKeeps, ShapeInv, t \in Thread
  <2>4. UNCHANGED <<endpoint, file>>
    BY ONLY <2>1 DEF Reread, DiscardingRead, objects, kernel
  <2> QED
    BY ONLY <2>3, <2>4, OwnInv, OwnersKept
<1>27. CASE \E t \in Worker : Unbind(t)
  <2>1. PICK t \in Worker : Unbind(t)
    BY <1>27
  <2> t \in Thread
    BY <2>1 DEF Thread
  <2>2. pc[t] \notin OwnedPhases /\ pc'[t] \notin OwnedPhases /\ UNCHANGED fd
    BY <2>1 DEF Unbind, OwnedPhases
  <2>x. \A u \in Thread : u # t => pc'[u] = pc[u] /\ cur'[u] = cur[u]
    BY <2>1 DEF Unbind
  <2>3. KeepsOwners
    BY ONLY <2>2, <2>x, MoveKeeps, ShapeInv, t \in Thread
  <2>4. UNCHANGED <<endpoint, file>>
    BY ONLY <2>1 DEF Unbind, objects, kernel
  <2> QED
    BY ONLY <2>3, <2>4, OwnInv, OwnersKept
<1>28. CASE \E t \in Worker : UnbindThrows(t)
  <2>1. PICK t \in Worker : UnbindThrows(t)
    BY <1>28
  <2> t \in Thread
    BY <2>1 DEF Thread
  <2>2. pc[t] \notin OwnedPhases /\ pc[t] # "off" /\ (Finish(t) \/ Throw(t) \/ Block(t))
    BY ONLY <2>1 DEF UnbindThrows, OwnedPhases
  <2>3. KeepsOwners
    BY ONLY <2>2, <2>1, EndKeeps, ShapeInv, t \in Thread
  <2>4. UNCHANGED <<endpoint, file>>
    BY ONLY <2>1 DEF UnbindThrows, objects, kernel
  <2> QED
    BY ONLY <2>3, <2>4, OwnInv, OwnersKept
<1>29. CASE \E t \in Worker : ResetChecks(t)
  <2>1. PICK t \in Worker : ResetChecks(t)
    BY <1>29
  <2> t \in Thread
    BY <2>1 DEF Thread
  <2>2. pc[t] \notin OwnedPhases /\ pc'[t] \notin OwnedPhases /\ UNCHANGED fd
    BY <2>1 DEF ResetChecks, OwnedPhases
  <2>x. \A u \in Thread : u # t => pc'[u] = pc[u] /\ cur'[u] = cur[u]
    BY <2>1 DEF ResetChecks
  <2>3. KeepsOwners
    BY ONLY <2>2, <2>x, MoveKeeps, ShapeInv, t \in Thread
  <2>4. UNCHANGED <<endpoint, file>>
    BY ONLY <2>1 DEF ResetChecks, objects, kernel
  <2> QED
    BY ONLY <2>3, <2>4, OwnInv, OwnersKept
<1>30. CASE \E t \in Worker : CloseFd(t)
  <2>1. EndpointOpen'
    BY <1>30 DEF CloseFd
  <2>2. EndpointOwned'
    BY <1>30 DEF CloseFd
  <2>3. CarriedOwned'
    BY <1>30 DEF CloseFd
  <2>4. FileOwned'
    BY <1>30, SMTT(40) DEF CloseFd
  <2> QED
    BY <2>1, <2>2, <2>3, <2>4
<1>31. CASE \E t \in Worker : ZeroEndpoint(t)
  <2>1. EndpointOpen'
    BY <1>31 DEF ZeroEndpoint
  <2>2. EndpointOwned'
    BY <1>31 DEF ZeroEndpoint
  <2>3. CarriedOwned'
    BY <1>31 DEF ZeroEndpoint
  <2>4. FileOwned'
    <3>1. PICK t \in Worker : ZeroEndpoint(t)
      BY <1>31
    <3> DEFINE c == cur[t]
    <3>2. /\ c \in Conn /\ t \in Thread /\ Closing(c)
      BY <3>1 DEF ZeroEndpoint
    <3>3. /\ endpoint' = [endpoint EXCEPT ![c] = 0] /\ pc' = [pc EXCEPT ![t] = "clear"]
          /\ UNCHANGED <<file, fd, cur>>
      BY <3>1 DEF ZeroEndpoint
    <3>4. \A d \in Conn : Closing(d)' => Closing(d)
      BY <3>3
    <3>6. \A u \in Thread, f \in Fd : Carries(u, f) => Carries(u, f)'
      BY <3>1, <3>3 DEF ZeroEndpoint
    <3>7. \A d \in Conn : d # c => endpoint'[d] = endpoint[d]
      BY <3>3
    <3> HIDE DEF c
    <3> QED
      BY ONLY <3>2, <3>3, <3>4, <3>6, <3>7, FileOwned DEF FileOwned
  <2> QED
    BY <2>1, <2>2, <2>3, <2>4
<1>32. CASE \E t \in Worker : ClearMode(t)
  <2>1. PICK t \in Worker : ClearMode(t)
    BY <1>32
  <2> t \in Thread
    BY <2>1 DEF Thread
  <2>2. pc[t] \notin OwnedPhases /\ pc'[t] \notin OwnedPhases /\ UNCHANGED fd
    BY <2>1 DEF ClearMode, OwnedPhases
  <2>x. \A u \in Thread : u # t => pc'[u] = pc[u] /\ cur'[u] = cur[u]
    BY <2>1 DEF ClearMode
  <2>3. KeepsOwners
    BY ONLY <2>2, <2>x, MoveKeeps, ShapeInv, t \in Thread
  <2>4. UNCHANGED <<endpoint, file>>
    BY ONLY <2>1 DEF ClearMode, objects, kernel
  <2> QED
    BY ONLY <2>3, <2>4, OwnInv, OwnersKept
<1>33. CASE \E t \in Worker : Release(t)
  <2>1. PICK t \in Worker : Release(t)
    BY <1>33
  <2> t \in Thread
    BY <2>1 DEF Thread
  <2>2. pc[t] \notin OwnedPhases /\ pc[t] # "off" /\ (Finish(t) \/ Throw(t) \/ Block(t))
    BY ONLY <2>1 DEF Release, OwnedPhases
  <2>3. KeepsOwners
    BY ONLY <2>2, <2>1, EndKeeps, ShapeInv, t \in Thread
  <2>4. UNCHANGED <<endpoint, file>>
    BY ONLY <2>1 DEF Release, objects, kernel
  <2> QED
    BY ONLY <2>3, <2>4, OwnInv, OwnersKept
<1>34. CASE UNCHANGED serverVars
  BY <1>34 DEF serverVars
<1> QED
  BY <1>1, <1>2, <1>3, <1>4, <1>5, <1>6, <1>7, <1>8, <1>9, <1>10, <1>11, <1>12, <1>13,
      <1>14, <1>15, <1>16, <1>17, <1>18, <1>19, <1>20, <1>21, <1>22, <1>23, <1>24, <1>25, <1>26,
      <1>27, <1>28, <1>29, <1>30, <1>31, <1>32, <1>33, <1>34, QuietSteps DEF Next, ThreadStep,
      WorkerStep

\* The initial states satisfy the unconditional part.
LEMMA ShapeInit == Init => ShapeInv
<1> SUFFICES ASSUME Init
             PROVE  ShapeInv
  OBVIOUS
<1> USE ServerThreads, ServerPrealloc, ServerBounds DEF Init, Thread, Fd
<1>1. TypeOK
  <2>1. /\ pc \in [Thread -> Phase] /\ batch \in [Thread -> SUBSET (Conn \cup {Acceptor})]
        /\ hand \in [Thread -> Conn \cup {Acceptor, None}]
        /\ cur \in [Thread -> Conn \cup {None}] /\ nc \in [Thread -> Conn \cup {None}]
    BY DEF Phase
  <2>2. /\ fd \in [Thread -> Fd] /\ target \in [Thread -> Conn \cup {None}]
        /\ endpoint \in [Conn -> Fd] /\ dataExchange \in [Conn -> BOOLEAN]
        /\ avail \in [Conn -> Nat] /\ created \in SUBSET Conn
    OBVIOUS
  <2>3. /\ file \in [Fd -> Peer \cup {NoPeer, Stdin}] /\ reg \in [Fd -> Conn \cup {None}]
        /\ ready \in SUBSET (Fd \cup {Acceptor}) /\ backlog \in SUBSET Peer
        /\ sent \in [Peer -> 0 .. MaxMsg]
    OBVIOUS
  <2> QED
    BY <2>1, <2>2, <2>3 DEF TypeOK
<1>2. MainFirst /\ ReadyRegistered
  BY DEF MainFirst, New, ReadyRegistered
<1>3. \A t \in Thread : Shape(t)
  BY DEF Shape, Accepting, New, Exchanging
<1> QED
  BY <1>1, <1>2, <1>3 DEF ShapeInv

\* Every step keeps the unconditional part.
LEMMA ShapeInvStep == ShapeInv /\ [Next]_vars => ShapeInv'
<1> SUFFICES ASSUME ShapeInv, [Next]_vars
             PROVE  ShapeInv'
  OBVIOUS
<1>1. LocalTypes /\ m_newConnection \in Conn \cup {None}
  BY DEF ShapeInv, TypeOK, LocalTypes
<1>2. TypeOK'
  BY TypeStep DEF ShapeInv
<1>3. MainFirst'
  BY <1>1, MainStep DEF ShapeInv
<1>4. \A t \in Thread : Shape(t)'
  BY <1>1, ShapeStep DEF ShapeInv
<1>5. ReadyRegistered'
  BY ReadyStep DEF ShapeInv
<1> QED
  BY <1>2, <1>3, <1>4, <1>5 DEF ShapeInv

\* Whatever the workers do, also after a race: a phase determines which of a thread's
\* variables are set, DoAccept of OnRun ends before the workers start, and the epoll set
\* holds every descriptor that has an event.
THEOREM ShapeCorrect == Spec => []ShapeInv
<1> QED
  BY ShapeInit, ShapeInvStep, PTL DEF Spec

\* The types hold in every reachable state: m_newConnection->Set never follows a null
\* pointer, and every descriptor used is one of the table.
THEOREM TypeCorrect == Spec => []TypeOK
<1>1. ShapeInv => TypeOK
  BY DEF ShapeInv
<1> QED
  BY <1>1, ShapeCorrect, PTL

\* What Spec implies of ownership.
OwnershipInv == ~race => OwnInv

\* At the start nothing is owned.
LEMMA OwnershipInit == Init => OwnershipInv
<1> SUFFICES ASSUME Init
             PROVE  OwnInv
  BY DEF OwnershipInv
<1> USE ServerThreads, ServerNulls, ServerPrealloc, ServerBounds DEF Init, Thread, Fd
<1>1. Exclusive /\ BatchBound /\ RegOwned
  BY DEF Exclusive, Holds, BatchBound, RegOwned
<1>2. UnusedClean
  BY DEF UnusedClean, Unused
<1>3. Stages
  BY DEF Stages, NewStage, DataStage, New
<1>4. EndpointOpen /\ EndpointOwned
  BY DEF EndpointOpen, EndpointOwned
<1>5. CarriedOwned /\ FileOwned
  BY DEF CarriedOwned, Carries, FileOwned
<1> QED
  BY <1>1, <1>2, <1>3, <1>4, <1>5 DEF OwnInv

\* A race is not forgotten.
LEMMA RaceMonotone == race /\ [Next]_vars => race'
<1> SUFFICES ASSUME race, [Next]_vars, ~race'
             PROVE  FALSE
  OBVIOUS
<1> QED
  BY ZenonT(60) DEF Next, ThreadStep, WorkerStep, ClientStep, vars, history, Abort, DiscardingRead,
    Get, GetThrows, Accept, AcceptNothing, AcceptZero, AcceptThrows, GiveBack, Publish, SetFd,
    SetMode, Bind, BindThrows, ReadNew, Harvest, BatchDone, CompleteAccept, CompleteConnection,
    CompleteAsserts, ReadData, ReadNothing, ReadEof, ReadThrows, ReadStdin, GetData,
    GetDataAsserts, Write, WriteThrows, WriteKills, Reread, Unbind, UnbindThrows, ResetChecks,
    CloseFd, ZeroEndpoint, ClearMode, Release, Connect, Send, Close, Reset

\* Every step that is not a race keeps the ownership of connections and descriptors.
LEMMA OwnershipStep == ShapeInv /\ ShapeInv' /\ OwnershipInv /\ [Next]_vars => OwnershipInv'
<1> SUFFICES ASSUME ShapeInv, ShapeInv', OwnershipInv, [Next]_vars, ~race'
             PROVE  OwnInv'
  BY DEF OwnershipInv
<1>1. OwnInv
  BY RaceMonotone DEF OwnershipInv
<1>2. Exclusive' /\ UnusedClean' /\ BatchBound' /\ RegOwned' /\ Stages'
  BY <1>1, ExclusiveStep, UnusedCleanStep, BatchBoundStep, RegOwnedStep, StagesStep
<1>3. EndpointOpen' /\ EndpointOwned' /\ CarriedOwned' /\ FileOwned'
  BY <1>1, OwnersStep
<1> QED
  BY <1>2, <1>3 DEF OwnInv

\* Up to the first race of two workers for one endpoint, connections and descriptors
\* are handed from step to step with one owner at a time: the inductive invariant behind
\* the four theorems that follow.
THEOREM OwnershipCorrect == Spec => []OwnershipInv
<1> QED
  BY OwnershipInit, OwnershipStep, ShapeCorrect, PTL DEF Spec

\* The owner of an open socket.
LEMMA OneOwnerOf ==
  ASSUME ShapeInv, OwnInv, NEW f \in Fd, file[f] \in Peer
  PROVE  \E x : Owners(f) \cup {t \in Thread : Carries(t, f)} = {x}
<1>1. CASE \E t \in Thread : Carries(t, f)
  <2>1. PICK t \in Thread : Carries(t, f)
    BY <1>1
  <2>2. \A u \in Thread : Carries(u, f) => u = t
    BY <2>1, NewUnique DEF Carries, Accepting, New
  <2>3. Owners(f) = {}
    BY <2>1 DEF OwnInv, CarriedOwned, Owners
  <2> QED
    BY <2>1, <2>2, <2>3
<1>2. CASE ~ \E t \in Thread : Carries(t, f)
  <2>1. PICK c \in Conn : endpoint[c] = f /\ ~Closing(c)
    BY <1>2 DEF OwnInv, FileOwned
  <2>2. f # 0
    BY ServerNulls DEF OwnInv, FileOwned
  <2>3. Owners(f) = {c}
    BY <2>1, <2>2 DEF OwnInv, EndpointOwned, Owners
  <2> QED
    BY <1>2, <2>3
<1> QED
  BY <1>1, <1>2

\* For any number of workers, clients, connection objects and descriptors: every accepted
\* socket has exactly one owner (the thread between accept() and Set, or one connection),
\* and is registered in epoll for it or not at all.
THEOREM OneOwnerHolds == Spec => []OneOwner
<1>1. ShapeInv /\ OwnershipInv => OneOwner
  <2> SUFFICES ASSUME ShapeInv, OwnInv, NEW f \in Fd, file[f] \in Peer
               PROVE  /\ Cardinality(Owners(f) \cup {t \in Thread : Carries(t, f)}) = 1
                      /\ reg[f] \in Owners(f) \cup {None}
    BY DEF OneOwner, OwnershipInv
  <2>1. Cardinality(Owners(f) \cup {t \in Thread : Carries(t, f)}) = 1
    BY OneOwnerOf, FS_Singleton
  <2>2. ASSUME reg[f] # None
        PROVE  reg[f] \in Owners(f)
    <3> DEFINE c == reg[f]
    <3>1. c \in Conn
      BY <2>2 DEF ShapeInv, TypeOK
    <3>2. endpoint[c] = f
      BY <3>1 DEF OwnInv, RegOwned
    <3>3. ~Closing(c)
      BY <3>1 DEF Closing, OwnInv, Stages, DataStage
    <3> QED
      BY <3>1, <3>2, <3>3 DEF Owners
  <2> QED
    BY <2>1, <2>2
<1> QED
  BY <1>1, ShapeCorrect, OwnershipCorrect, PTL

\* A connection in the available list is there once, in its initial state, registered
\* nowhere and used by no worker: Get may hand it out without looking.
THEOREM AvailCleanHolds == Spec => []AvailClean
<1>1. ShapeInv /\ OwnershipInv => AvailClean
  <2> SUFFICES ASSUME ShapeInv, OwnInv, NEW c \in Conn, avail[c] > 0
               PROVE  /\ avail[c] = 1
                      /\ endpoint[c] = 0 /\ ~dataExchange[c]
                      /\ \A f \in Fd : reg[f] # c
                      /\ \A t \in Thread : c \notin Busy(t) \cup {cur[t]}
    BY DEF AvailClean, OwnershipInv
  <2>1. /\ avail[c] = 1 /\ endpoint[c] = 0 /\ ~dataExchange[c]
        /\ \A t \in Thread : cur[t] # c
    BY DEF OwnInv, UnusedClean, Unused
  <2>2. \A f \in Fd : reg[f] # c
    BY <2>1 DEF OwnInv, RegOwned
  <2>3. \A t \in Thread : c \notin batch[t]
    BY <2>1 DEF OwnInv, BatchBound, Bound
  <2>4. \A t \in Thread : hand[t] # c
    BY <2>1, ServerNulls DEF ShapeInv, TypeOK, Phase, MainFirst, Shape, OwnInv, Stages, DataStage,
       New, Accepting, Exchanging
  <2> QED
    BY <2>1, <2>2, <2>3, <2>4 DEF Busy
<1> QED
  BY <1>1, ShapeCorrect, OwnershipCorrect, PTL

\* A worker that serves a connection never reads standard input instead: only the read
\* of OnAcceptComplete may find a connection that was released.
THEOREM StdinNeedsAcceptHolds == Spec => []StdinNeedsAccept
<1>1. OwnershipInv => StdinNeedsAccept
  BY DEF OwnershipInv, OwnInv, Stages, DataStage, StdinNeedsAccept
<1> QED
  BY <1>1, OwnershipCorrect, PTL

\* Without a race what waits in a batch or has just been read is in data exchange.
LEMMA AbortStep ==
  ShapeInv /\ OwnershipInv /\ AbortNeedsRace /\ [Next]_vars => AbortNeedsRace'
<1> SUFFICES ASSUME ShapeInv, OwnershipInv, AbortNeedsRace, [Next]_vars, ~race'
             PROVE  aborted' # "assert"
  BY DEF AbortNeedsRace
<1>1. OwnInv /\ aborted # "assert"
  BY RaceMonotone DEF OwnershipInv, AbortNeedsRace
<1>2. ASSUME NEW t \in Worker, CompleteAsserts(t)
      PROVE  FALSE
  BY <1>1, <1>2 DEF CompleteAsserts, OwnInv, BatchBound, Bound, Thread
<1>3. ASSUME NEW t \in Worker, GetDataAsserts(t)
      PROVE  FALSE
  BY <1>1, <1>3 DEF GetDataAsserts, OwnInv, Stages, DataStage, Bound, Thread
<1>4. ASSUME NEW t \in Worker, WriteKills(t)
      PROVE  aborted' = "sigpipe"
  BY <1>4 DEF WriteKills, Abort
<1>5. \/ UNCHANGED aborted
      \/ \E t \in Worker : CompleteAsserts(t) \/ GetDataAsserts(t) \/ WriteKills(t)
  BY SMTT(40) DEF Next, ThreadStep, WorkerStep, ClientStep, vars, DiscardingRead,
    Get, GetThrows, Accept, AcceptNothing, AcceptZero, AcceptThrows, GiveBack, Publish, SetFd,
    SetMode, Bind, BindThrows, ReadNew, Harvest, BatchDone, CompleteAccept, CompleteConnection,
    ReadData, ReadNothing, ReadEof, ReadThrows, ReadStdin, GetData,
    Write, WriteThrows, Reread, Unbind, UnbindThrows, ResetChecks,
    CloseFd, ZeroEndpoint, ClearMode, Release, Connect, Send, Close, Reset
<1> QED
  BY <1>1, <1>2, <1>3, <1>4, <1>5

\* assert(m_dataExchange) in Complete and GetInputData fails only after a race.
THEOREM AbortNeedsRaceHolds == Spec => []AbortNeedsRace
<1>1. Init => AbortNeedsRace
  BY DEF Init, AbortNeedsRace
<1> QED
  BY <1>1, AbortStep, ShapeCorrect, OwnershipCorrect, PTL DEF Spec

=============================================================================
