-------------------------- MODULE AsioServerProofs --------------------------
(***************************************************************************)
(* Theorems about AsioServer, for any threads and clients and any size of  *)
(* the buffers: handlers follow one another in chains, so that a handler   *)
(* has its connection and its buffer to itself without any lock, and the   *)
(* answers a client shows are the lines it typed.                          *)
(***************************************************************************)
EXTENDS AsioServer, FiniteSetTheorems, TLAPS

ThreadsOK ==
  /\ pc \in [Thread -> {"run", "start", "listen", "gone"}]
  /\ conn \in [Thread -> Peer \cup {Nobody}]
  /\ mpc \in {"key", "close", "join", "returned"}
  /\ threw \subseteq Peer

ServerOK ==
  /\ ops \subseteq {AcceptOp} \cup ({"read", "write"} \X Peer)
  /\ buf \in [Peer -> [1 .. BufSize -> Nat]]

ClientOK ==
  /\ cpc \in [Peer -> {"off", "type", "recv", "closed", "reset"}]
  /\ lines \in [Peer -> Nat] /\ len \in [Peer -> Nat]
  /\ shown \in [Peer -> Seq(Nat)]
  /\ waiting \subseteq Peer
  /\ inbox \in [Peer -> Seq(Nat)] /\ back \in [Peer -> Seq(Nat)]
  /\ torn \subseteq Peer /\ short \subseteq Peer

TypeOK == ThreadsOK /\ ServerOK /\ ClientOK

\* Nothing is under way on connection p.
NoOp(p) == <<"read", p>> \notin ops /\ <<"write", p>> \notin ops

\* A client waits, then is in the hands of one thread, then under one operation.
ConnInv ==
  /\ \A t \in Thread : conn[t] # Nobody <=> pc[t] = "start"
  /\ \A t, u \in Thread : conn[t] = conn[u] /\ conn[t] # Nobody => t = u
  /\ \A t \in Thread : conn[t] # Nobody => NoOp(conn[t]) /\ conn[t] \notin waiting
                                           /\ cpc[conn[t]] # "off"
  /\ \A p \in waiting : NoOp(p) /\ cpc[p] # "off"
  /\ \A p \in Peer : cpc[p] = "off" => NoOp(p)
  /\ \A p \in Peer : <<"read", p>> \notin ops \/ <<"write", p>> \notin ops

\* The accept is under way or with one thread, or Start has thrown.
AcceptInv ==
  /\ \A t, u \in Accepting : t = u
  /\ mpc = "key" /\ threw # {} => Accepting = {} /\ AcceptOp \notin ops
  /\ mpc = "key" /\ threw = {} => (AcceptOp \in ops <=> Accepting = {})

\* Where the line a client typed last is: as long as nothing was torn or short it
\* is in one place, at the beginning of a buffer.
Begins(s, p) == len[p] \in 1 .. BufSize /\ \A i \in 1 .. len[p] : s[i] = lines[p]

Arrived(p) ==
  /\ inbox[p] = [i \in 1 .. len[p] |-> lines[p]]
  /\ back[p] = <<>> /\ <<"write", p>> \notin ops
Answering(p) ==
  /\ inbox[p] = <<>> /\ back[p] = <<>>
  /\ <<"write", p>> \in ops /\ Begins(buf[p], p)
Answered(p) ==
  /\ inbox[p] = <<>> /\ <<"write", p>> \notin ops
  /\ Len(back[p]) = BufSize /\ Begins(back[p], p)
Shown(p) ==
  /\ inbox[p] = <<>> /\ back[p] = <<>> /\ <<"write", p>> \notin ops
  /\ shown[p] = [i \in 1 .. (IF lines[p] = 0 THEN 0 ELSE len[p]) |-> lines[p]]

Line(p) ==
  /\ cpc[p] \in {"off", "type"} => Shown(p)
  /\ cpc[p] = "recv" => /\ lines[p] # 0
                        /\ Arrived(p) \/ Answering(p) \/ Answered(p)
LineInv == \A p \in Peer \ (torn \cup short) : Line(p)

IInv == TypeOK /\ ConnInv /\ AcceptInv /\ LineInv

-----------------------------------------------------------------------------
(* The steps that matter. *)

\* What is left of a sequence, and of all of it.
LEMMA RestSeq ==
  ASSUME NEW s \in Seq(Nat), NEW n \in Nat, n <= Len(s)
  PROVE  Rest(s, n) \in Seq(Nat) /\ (n = Len(s) => Rest(s, n) = <<>>)
  BY DEF Rest

\* A connection without a step of its client keeps its line where it is.
Same(q) ==
  /\ cpc'[q] = cpc[q] /\ lines'[q] = lines[q] /\ len'[q] = len[q] /\ shown'[q] = shown[q]
  /\ inbox'[q] = inbox[q] /\ back'[q] = back[q] /\ buf'[q] = buf[q]
  /\ <<"write", q>> \in ops' <=> <<"write", q>> \in ops
  /\ q \in torn => q \in torn'
  /\ q \in short => q \in short'

\* Then it is still true where the line is.
LEMMA LineFrame ==
  ASSUME NEW q \in Peer, Same(q), Line(q)
  PROVE  Line(q)'
  BY DEF Same, Line, Shown, Arrived, Answering, Answered, Begins

\* A client types the next line when the one before has been shown.
LEMMA TypeLineStep ==
  ASSUME TypeOK, NEW p \in Peer, TypeLine(p), Line(p)
  PROVE  Line(p)'
<1>1. PICK n \in Lengths : /\ len' = [len EXCEPT ![p] = n]
                           /\ inbox' = [inbox EXCEPT ![p] = @ \o [i \in 1 .. n |-> lines'[p]]]
  BY DEF TypeLine
<1>2. /\ cpc[p] = "type" /\ cpc'[p] = "recv" /\ n \in Nat
      /\ back' = back /\ ops' = ops /\ lines'[p] \in Nat /\ len'[p] = n
  BY <1>1, AsioBounds DEF TypeLine, TypeOK, ClientOK, server
<1>7. lines'[p] # 0
  BY DEF TypeLine, TypeOK, ClientOK
<1>3. inbox[p] = <<>> /\ back[p] = <<>> /\ <<"write", p>> \notin ops
  BY <1>2 DEF Line, Shown
<1>4. inbox'[p] = <<>> \o [i \in 1 .. n |-> lines'[p]]
  BY <1>1, <1>3 DEF TypeOK, ClientOK
<1>5. [i \in 1 .. n |-> lines'[p]] \in Seq(Nat)
  BY <1>2
<1>6. inbox'[p] = [i \in 1 .. n |-> lines'[p]]
  BY <1>4, <1>5
<1> QED BY <1>2, <1>3, <1>6, <1>7 DEF Line, Arrived

\* The client reads a full buffer and shows the length of its line of it.
LEMMA RecvStep ==
  ASSUME TypeOK, NEW p \in Peer, Recv(p), Line(p)
  PROVE  Line(p)'
<1>1. /\ cpc[p] = "recv" /\ cpc'[p] = "type" /\ Len(back[p]) >= BufSize
      /\ shown'[p] = SubSeq(back[p], 1, Min2(BufSize, len[p]))
      /\ back'[p] = Rest(back[p], BufSize)
      /\ UNCHANGED <<ops, inbox, lines, len>>
  BY DEF Recv, server, TypeOK, ClientOK
<1>2. Answered(p)
  BY <1>1, AsioBounds DEF Line, Arrived, Answering
<1>3. back[p] \in Seq(Nat) /\ BufSize \in Nat
  BY AsioBounds DEF TypeOK, ClientOK
<1>4. back'[p] = <<>>
  BY <1>1, <1>2, <1>3, RestSeq DEF Answered
<1>5. Min2(BufSize, len[p]) = len[p] /\ len[p] \in 1 .. BufSize
  BY <1>2, <1>3 DEF Answered, Begins, Min2
<1>6. shown'[p] = [i \in 1 .. len[p] |-> lines[p]]
  BY <1>1, <1>2, <1>3, <1>5 DEF Answered, Begins
<1> QED BY <1>1, <1>2, <1>4, <1>6 DEF Line, Shown, Answered

\* The line is read at once, to the beginning of the buffer.
LEMMA ReadStep ==
  ASSUME TypeOK, ConnInv, NEW t \in Thread, NEW p \in Peer, ReadComplete(t, p), Line(p),
         p \notin torn'
  PROVE  Line(p)'
<1>1. PICK n \in 1 .. Min2(BufSize, Len(inbox[p])) :
        /\ buf' = [buf EXCEPT ![p] = [i \in 1 .. BufSize |-> IF i <= n THEN inbox[p][i]
                                                                       ELSE @[i]]]
        /\ inbox' = [inbox EXCEPT ![p] = Rest(@, n)]
        /\ torn' = IF n # len[p] THEN torn \cup {p} ELSE torn
  BY DEF ReadComplete
<1>2. /\ <<"read", p>> \in ops /\ <<"write", p>> \in ops'
      /\ UNCHANGED <<cpc, lines, len, shown, back>>
  BY DEF ReadComplete, Completes, Next_, client
<1>3. <<"write", p>> \notin ops
  BY <1>2 DEF ConnInv
<1>4. /\ n = len[p] /\ BufSize \in Nat
      /\ inbox[p] \in Seq(Nat) /\ Len(inbox[p]) \in Nat
      /\ n \in 1 .. BufSize /\ n <= Len(inbox[p])
  BY <1>1, AsioBounds DEF TypeOK, ClientOK, Min2
<1>5. inbox[p] # <<>>
  BY <1>4
<1>6. CASE cpc[p] = "recv"
  <2>1. Arrived(p)
    BY <1>3, <1>5, <1>6 DEF Line, Answering, Answered
  <2>2. Len(inbox[p]) = len[p] /\ \A i \in 1 .. len[p] : inbox[p][i] = lines[p]
    BY <1>4, <2>1 DEF Arrived
  <2>3. inbox'[p] = <<>>
    BY <1>1, <1>4, <2>2, RestSeq DEF TypeOK, ClientOK
  <2>4. buf'[p] = [i \in 1 .. BufSize |-> IF i <= n THEN inbox[p][i] ELSE buf[p][i]]
    BY <1>1 DEF TypeOK, ServerOK
  <2>5. Begins(buf[p], p)'
    BY <1>2, <1>4, <2>2, <2>4 DEF Begins
  <2> QED BY <1>2, <1>6, <2>1, <2>3, <2>5 DEF Line, Answering, Arrived
<1>7. CASE cpc[p] # "recv"
  BY <1>2, <1>5, <1>7 DEF Line, Shown
<1> QED BY <1>6, <1>7

\* The buffer is written at once.
LEMMA WriteStep ==
  ASSUME TypeOK, ConnInv, NEW t \in Thread, NEW p \in Peer, WriteComplete(t, p), Line(p),
         p \notin short'
  PROVE  Line(p)'
<1>1. PICK n \in 1 .. BufSize :
        /\ n = BufSize \/ back[p] # <<>>
        /\ back' = [back EXCEPT ![p] = @ \o SubSeq(buf[p], 1, n)]
        /\ short' = IF n < BufSize THEN short \cup {p} ELSE short
  BY DEF WriteComplete
<1>2. /\ <<"write", p>> \in ops /\ <<"write", p>> \notin ops'
      /\ UNCHANGED <<cpc, lines, len, shown, inbox, buf>>
  BY DEF WriteComplete, Completes, Next_, client
<1>3. n = BufSize /\ BufSize \in Nat \ {0} /\ buf[p] \in [1 .. BufSize -> Nat]
  BY <1>1, AsioBounds DEF TypeOK, ServerOK
<1>4. CASE cpc[p] = "recv"
  <2>1. Answering(p)
    BY <1>2, <1>4 DEF Line, Arrived, Answered
  <2>2. SubSeq(buf[p], 1, BufSize) = buf[p] /\ buf[p] \in Seq(Nat) /\ Len(buf[p]) = BufSize
    BY <1>3
  <2>3. back'[p] = <<>> \o buf[p]
    BY <1>1, <1>3, <2>1, <2>2 DEF Answering, TypeOK, ClientOK
  <2>4. back'[p] = buf[p]
    BY <2>2, <2>3
  <2> QED BY <1>2, <1>4, <2>1, <2>2, <2>4 DEF Line, Answering, Answered, Begins
<1>5. CASE cpc[p] # "recv"
  BY <1>2, <1>5 DEF Line, Shown
<1> QED BY <1>4, <1>5

\* A line goes to the server, through the buffer and back, in one piece.
LEMMA LineStep ==
  ASSUME TypeOK, ConnInv, LineInv, [Next]_vars
  PROVE  LineInv'
<1> SUFFICES ASSUME NEW q \in Peer, q \notin torn', q \notin short'
             PROVE  Line(q)'
  BY DEF LineInv
<1>1. Same(q) => Line(q)'
  BY LineFrame DEF LineInv, Same
<1>2. ASSUME NEW p \in Peer, ClientStep(p)
      PROVE  Line(q)'
  <2>1. torn' = torn /\ short' = short
    BY <1>2 DEF ClientStep, Connect, TypeLine, Recv, Leave
  <2>2. Line(q)
    BY <2>1 DEF LineInv
  <2>3. CASE q # p
    <3>1. Same(q)
      BY <1>2, <2>3 DEF Same, ClientStep, Connect, TypeLine, Recv, Leave, TypeOK, ClientOK,
                        server, network
    <3> QED BY <1>1, <3>1
  <2>4. CASE q = p
    <3>1. CASE Connect(p)
      BY <2>2, <2>4, <3>1 DEF Line, Shown, Connect, server, TypeOK, ClientOK
    <3>2. CASE Leave(p)
      BY <2>4, <3>2 DEF Line, Leave, TypeOK, ClientOK
    <3> QED BY <1>2, <2>2, <2>4, <3>1, <3>2, TypeLineStep, RecvStep DEF ClientStep
  <2> QED BY <2>3, <2>4
<1>3. ASSUME NEW t \in Thread, NEW p \in Peer, Serve(t, p)
      PROVE  Line(q)'
  <2>1. q \notin torn /\ q \notin short
    BY <1>3 DEF Serve, ReadComplete, ReadError, WriteComplete, WriteError
  <2>2. Line(q)
    BY <2>1 DEF LineInv
  <2>3. CASE q # p
    <3>1. Same(q)
      <4>1. CASE ReadComplete(t, p)
        BY <2>1, <2>3, <4>1 DEF Same, ReadComplete, Next_, client, TypeOK, ClientOK,
        ServerOK
      <4>2. CASE WriteComplete(t, p)
        BY <2>1, <2>3, <4>2 DEF Same, WriteComplete, Next_, client, TypeOK, ClientOK
      <4>3. CASE ReadError(t, p) \/ WriteError(t, p)
        BY <2>1, <2>3, <4>3 DEF Same, ReadError, WriteError, client, network
      <4> QED BY <1>3, <4>1, <4>2, <4>3 DEF Serve
    <3> QED BY <1>1, <3>1
  <2>4. CASE q = p
    <3>1. CASE ReadError(t, p)
      <4>1. Same(q)
        BY <2>1, <2>4, <3>1 DEF Same, ReadError, client, network
      <4> QED BY <1>1, <4>1
    <3>2. CASE WriteError(t, p)
      BY <2>4, <3>2 DEF Line, WriteError, client
    <3> QED BY <1>3, <2>2, <2>4, <3>1, <3>2, ReadStep, WriteStep DEF Serve
  <2> QED BY <2>3, <2>4
<1>4. ASSUME NEW t \in Thread, ThreadStep(t)
      PROVE  Line(q)'
  <2>1. Same(q)
    BY <1>4 DEF Same, ThreadStep, AcceptComplete, AcceptError, Start, StartThrows,
                StartListening, RunReturns, AcceptOp, client, network, server
  <2> QED BY <1>1, <2>1
<1>5. CASE Stop \/ CloseAcceptor \/ JoinAll \/ UNCHANGED vars
  <2>1. Same(q)
    BY <1>5 DEF Same, Stop, CloseAcceptor, JoinAll, AcceptOp, vars, client, network, server
  <2> QED BY <1>1, <2>1
<1> QED BY <1>2, <1>3, <1>4, <1>5 DEF Next

-----------------------------------------------------------------------------
(* Every step keeps the invariant: one lemma for each of its parts. *)

\* A thread is where the code has a place.
LEMMA ThreadsStep ==
  ASSUME TypeOK, ConnInv, [Next]_vars
  PROVE  ThreadsOK'
<1> USE AsioNobody, AsioBounds DEF vars, threads, server, client, network, Open, TypeOK,
    ThreadsOK, ServerOK, ClientOK
<1>1. ASSUME NEW p \in Peer, Connect(p)
     PROVE  ThreadsOK'
  BY <1>1 DEF Connect
<1>2. ASSUME NEW p \in Peer, TypeLine(p)
     PROVE  ThreadsOK'
  BY <1>2 DEF TypeLine
<1>3. ASSUME NEW p \in Peer, Recv(p)
     PROVE  ThreadsOK'
  BY <1>3 DEF Recv
<1>4. ASSUME NEW p \in Peer, Leave(p)
     PROVE  ThreadsOK'
  BY <1>4 DEF Leave
<1>5. ASSUME NEW t \in Thread, AcceptComplete(t)
     PROVE  ThreadsOK'
  BY <1>5 DEF AcceptComplete, Idle
<1>6. ASSUME NEW t \in Thread, AcceptError(t)
     PROVE  ThreadsOK'
  BY <1>6 DEF AcceptError, Idle
<1>7. ASSUME NEW t \in Thread, Start(t)
     PROVE  ThreadsOK'
  BY <1>7 DEF Start
<1>8. ASSUME NEW t \in Thread, StartThrows(t)
     PROVE  ThreadsOK'
  <2>1. conn[t] \in Peer
    BY <1>8 DEF StartThrows, ConnInv
  <2> QED BY <1>8, <2>1 DEF StartThrows
<1>9. ASSUME NEW t \in Thread, StartListening(t) \/ RunReturns(t)
     PROVE  ThreadsOK'
  BY <1>9 DEF StartListening, RunReturns
<1>10. ASSUME NEW t \in Thread, NEW p \in Peer, ReadComplete(t, p)
     PROVE  ThreadsOK'
  BY <1>10 DEF ReadComplete, Completes, Next_, Idle
<1>11. ASSUME NEW t \in Thread, NEW p \in Peer, ReadError(t, p) \/ WriteError(t, p)
     PROVE  ThreadsOK'
  BY <1>11 DEF ReadError, Completes, Idle, WriteError
<1>12. ASSUME NEW t \in Thread, NEW p \in Peer, WriteComplete(t, p)
     PROVE  ThreadsOK'
  BY <1>12 DEF WriteComplete, Completes, Next_, Idle
<1>13. CASE Stop \/ CloseAcceptor \/ JoinAll \/ UNCHANGED vars
  BY <1>13 DEF Stop, CloseAcceptor, JoinAll
<1> QED BY <1>1, <1>2, <1>3, <1>4, <1>5, <1>6, <1>7, <1>8, <1>9, <1>10, <1>11, <1>12,
    <1>13 DEF Next, ThreadStep, Serve, ClientStep

\* Operations are on connections of clients, and buffers keep their size.
LEMMA ServerTypeStep ==
  ASSUME TypeOK, ConnInv, [Next]_vars
  PROVE  ServerOK'
<1> USE AsioNobody, AsioBounds DEF vars, threads, server, client, network, Open, TypeOK,
    ThreadsOK, ServerOK, ClientOK, AcceptOp, ConnInv
<1>1. ASSUME NEW p \in Peer, Connect(p)
     PROVE  ServerOK'
  BY <1>1 DEF Connect
<1>2. ASSUME NEW p \in Peer, TypeLine(p)
     PROVE  ServerOK'
  BY <1>2 DEF TypeLine
<1>3. ASSUME NEW p \in Peer, Recv(p)
     PROVE  ServerOK'
  BY <1>3 DEF Recv
<1>4. ASSUME NEW p \in Peer, Leave(p)
     PROVE  ServerOK'
  BY <1>4 DEF Leave
<1>5. ASSUME NEW t \in Thread, AcceptComplete(t)
     PROVE  ServerOK'
  BY <1>5 DEF AcceptComplete, Idle
<1>6. ASSUME NEW t \in Thread, AcceptError(t)
     PROVE  ServerOK'
  BY <1>6 DEF AcceptError, Idle
<1>7. ASSUME NEW t \in Thread, Start(t)
     PROVE  ServerOK'
  BY <1>7 DEF Start
<1>8. ASSUME NEW t \in Thread, StartThrows(t)
     PROVE  ServerOK'
  BY <1>8 DEF StartThrows
<1>9. ASSUME NEW t \in Thread, StartListening(t) \/ RunReturns(t)
     PROVE  ServerOK'
  BY <1>9 DEF StartListening, RunReturns
<1>10. ASSUME NEW t \in Thread, NEW p \in Peer, ReadComplete(t, p)
     PROVE  ServerOK'
  <2>1. PICK n \in 1 .. Min2(BufSize, Len(inbox[p])) :
          buf' = [buf EXCEPT ![p] =
                    [i \in 1 .. BufSize |-> IF i <= n THEN inbox[p][i] ELSE @[i]]]
    BY <1>10 DEF ReadComplete
  <2>2. [i \in 1 .. BufSize |-> IF i <= n THEN inbox[p][i] ELSE buf[p][i]]
          \in [1 .. BufSize -> Nat]
    BY DEF Min2
  <2>3. buf' \in [Peer -> [1 .. BufSize -> Nat]]
    BY <2>1, <2>2
  <2>4. ops' \subseteq {AcceptOp} \cup ({"read", "write"} \X Peer)
    BY <1>10 DEF ReadComplete, Next_
  <2> QED BY <2>3, <2>4
<1>11. ASSUME NEW t \in Thread, NEW p \in Peer, ReadError(t, p) \/ WriteError(t, p)
     PROVE  ServerOK'
  BY <1>11 DEF ReadError, Completes, Idle, WriteError
<1>12. ASSUME NEW t \in Thread, NEW p \in Peer, WriteComplete(t, p)
     PROVE  ServerOK'
  <2>1. buf' = buf /\ ops' = (ops \ {<<"write", p>>}) \cup {<<"read", p>>}
    BY <1>12 DEF WriteComplete, Next_
  <2> QED BY <2>1
<1>13. CASE Stop \/ CloseAcceptor \/ JoinAll \/ UNCHANGED vars
  BY <1>13 DEF Stop, CloseAcceptor, JoinAll
<1> QED BY <1>1, <1>2, <1>3, <1>4, <1>5, <1>6, <1>7, <1>8, <1>9, <1>10, <1>11, <1>12,
    <1>13 DEF Next, ThreadStep, Serve, ClientStep

\* What travels between a client and its connection are sequences of bytes.
LEMMA ClientTypeStep ==
  ASSUME TypeOK, [Next]_vars
  PROVE  ClientOK'
<1> USE AsioNobody, AsioBounds DEF vars, threads, server, client, network, Open, TypeOK,
    ThreadsOK, ServerOK, ClientOK
<1>1. ASSUME NEW p \in Peer, Connect(p)
     PROVE  ClientOK'
  BY <1>1 DEF Connect
<1>2. ASSUME NEW p \in Peer, TypeLine(p)
     PROVE  ClientOK'
  BY <1>2 DEF TypeLine
<1>3. ASSUME NEW p \in Peer, Recv(p)
     PROVE  ClientOK'
  <2>1. /\ back' = [back EXCEPT ![p] = Rest(@, BufSize)]
        /\ shown' = [shown EXCEPT ![p] = SubSeq(back[p], 1, Min2(BufSize, len[p]))]
        /\ BufSize <= Len(back[p]) /\ BufSize \in Nat /\ back[p] \in Seq(Nat)
        /\ len[p] \in Nat
    BY <1>3 DEF Recv
  <2>2. Rest(back[p], BufSize) \in Seq(Nat)
    BY <2>1, RestSeq
  <2>3. SubSeq(back[p], 1, Min2(BufSize, len[p])) \in Seq(Nat)
    BY <2>1 DEF Min2
  <2>4. cpc' = [cpc EXCEPT ![p] = "type"]
        /\ UNCHANGED <<lines, len, waiting, inbox, torn, short>>
    BY <1>3 DEF Recv
  <2> QED BY <2>1, <2>2, <2>3, <2>4
<1>4. ASSUME NEW p \in Peer, Leave(p)
     PROVE  ClientOK'
  BY <1>4 DEF Leave
<1>5. ASSUME NEW t \in Thread, AcceptComplete(t)
     PROVE  ClientOK'
  BY <1>5 DEF AcceptComplete, Idle
<1>6. ASSUME NEW t \in Thread, AcceptError(t)
     PROVE  ClientOK'
  BY <1>6 DEF AcceptError, Idle
<1>7. ASSUME NEW t \in Thread, Start(t)
     PROVE  ClientOK'
  BY <1>7 DEF Start
<1>8. ASSUME NEW t \in Thread, StartThrows(t)
     PROVE  ClientOK'
  BY <1>8 DEF StartThrows
<1>9. ASSUME NEW t \in Thread, StartListening(t) \/ RunReturns(t)
     PROVE  ClientOK'
  BY <1>9 DEF StartListening, RunReturns
<1>10. ASSUME NEW t \in Thread, NEW p \in Peer, ReadComplete(t, p)
     PROVE  ClientOK'
  <2>1. PICK n \in 1 .. Min2(BufSize, Len(inbox[p])) :
          inbox' = [inbox EXCEPT ![p] = Rest(@, n)]
    BY <1>10 DEF ReadComplete
  <2>2. inbox[p] \in Seq(Nat) /\ n \in Nat /\ n <= Len(inbox[p])
    BY DEF Min2
  <2>3. inbox' \in [Peer -> Seq(Nat)]
    BY <2>1, <2>2, RestSeq
  <2>4. UNCHANGED <<cpc, lines, len, shown, waiting, back, short>> /\ torn' \subseteq Peer
    BY <1>10 DEF ReadComplete
  <2> QED BY <2>3, <2>4
<1>11. ASSUME NEW t \in Thread, NEW p \in Peer, ReadError(t, p) \/ WriteError(t, p)
     PROVE  ClientOK'
  BY <1>11 DEF ReadError, Completes, Idle, WriteError
<1>12. ASSUME NEW t \in Thread, NEW p \in Peer, WriteComplete(t, p)
     PROVE  ClientOK'
  BY <1>12 DEF WriteComplete, Completes, Next_, Idle
<1>13. CASE Stop \/ CloseAcceptor \/ JoinAll \/ UNCHANGED vars
  BY <1>13 DEF Stop, CloseAcceptor, JoinAll
<1> QED BY <1>1, <1>2, <1>3, <1>4, <1>5, <1>6, <1>7, <1>8, <1>9, <1>10, <1>11, <1>12,
    <1>13 DEF Next, ThreadStep, Serve, ClientStep

\* An operation is started by the handler of the one before, or by the thread
\* that accepted the connection.
LEMMA ConnStep ==
  ASSUME TypeOK, ConnInv, [Next]_vars
  PROVE  ConnInv'
<1> USE AsioNobody, AsioBounds DEF vars, threads, server, client, network, Open, TypeOK,
    ThreadsOK, ServerOK, ClientOK, ConnInv, AcceptOp, NoOp
<1>1. ASSUME NEW p \in Peer, Connect(p)
     PROVE  ConnInv'
  BY <1>1 DEF Connect
<1>2. ASSUME NEW p \in Peer, TypeLine(p)
     PROVE  ConnInv'
  BY <1>2 DEF TypeLine
<1>3. ASSUME NEW p \in Peer, Recv(p)
     PROVE  ConnInv'
  BY <1>3 DEF Recv
<1>4. ASSUME NEW p \in Peer, Leave(p)
     PROVE  ConnInv'
  BY <1>4 DEF Leave
<1>5. ASSUME NEW t \in Thread, AcceptComplete(t)
     PROVE  ConnInv'
  <2>1. PICK p \in waiting : waiting' = waiting \ {p} /\ conn' = [conn EXCEPT ![t] = p]
    BY <1>5 DEF AcceptComplete
  <2>2. /\ p \in Peer /\ p # Nobody /\ NoOp(p) /\ cpc[p] # "off" /\ cpc' = cpc
        /\ pc[t] = "run" /\ pc' = [pc EXCEPT ![t] = "start"]
        /\ \A u \in Thread : conn[u] # p
        /\ ops' = ops \ {AcceptOp}
    BY <1>5, <2>1 DEF AcceptComplete, Idle
  <2> QED BY <2>1, <2>2
<1>6. ASSUME NEW t \in Thread, AcceptError(t)
     PROVE  ConnInv'
  BY <1>6 DEF AcceptError, Idle
<1>7. ASSUME NEW t \in Thread, Start(t)
     PROVE  ConnInv'
  BY <1>7 DEF Start
<1>8. ASSUME NEW t \in Thread, StartThrows(t)
     PROVE  ConnInv'
  BY <1>8 DEF StartThrows
<1>9. ASSUME NEW t \in Thread, StartListening(t) \/ RunReturns(t)
     PROVE  ConnInv'
  BY <1>9 DEF StartListening, RunReturns
<1>10. ASSUME NEW t \in Thread, NEW p \in Peer, ReadComplete(t, p)
     PROVE  ConnInv'
  BY <1>10 DEF ReadComplete, Completes, Next_, Idle
<1>11. ASSUME NEW t \in Thread, NEW p \in Peer, ReadError(t, p) \/ WriteError(t, p)
     PROVE  ConnInv'
  BY <1>11 DEF ReadError, Completes, Idle, WriteError
<1>12. ASSUME NEW t \in Thread, NEW p \in Peer, WriteComplete(t, p)
     PROVE  ConnInv'
  BY <1>12 DEF WriteComplete, Completes, Next_, Idle
<1>13. CASE Stop \/ CloseAcceptor \/ JoinAll \/ UNCHANGED vars
  BY <1>13 DEF Stop, CloseAcceptor, JoinAll
<1> QED BY <1>1, <1>2, <1>3, <1>4, <1>5, <1>6, <1>7, <1>8, <1>9, <1>10, <1>11, <1>12,
    <1>13 DEF Next, ThreadStep, Serve, ClientStep

\* An accept is started by the thread that has completed the one before.
LEMMA AcceptStep ==
  ASSUME TypeOK, AcceptInv, [Next]_vars
  PROVE  AcceptInv'
<1> USE AsioNobody, AsioBounds DEF vars, threads, server, client, network, Open, TypeOK,
    ThreadsOK, ServerOK, ClientOK, AcceptInv, AcceptOp, Accepting
<1>1. ASSUME NEW p \in Peer, Connect(p)
     PROVE  AcceptInv'
  BY <1>1 DEF Connect
<1>2. ASSUME NEW p \in Peer, TypeLine(p)
     PROVE  AcceptInv'
  BY <1>2 DEF TypeLine
<1>3. ASSUME NEW p \in Peer, Recv(p)
     PROVE  AcceptInv'
  BY <1>3 DEF Recv
<1>4. ASSUME NEW p \in Peer, Leave(p)
     PROVE  AcceptInv'
  BY <1>4 DEF Leave
<1>5. ASSUME NEW t \in Thread, AcceptComplete(t)
     PROVE  AcceptInv'
  BY <1>5 DEF AcceptComplete, Idle
<1>6. ASSUME NEW t \in Thread, AcceptError(t)
     PROVE  AcceptInv'
  BY <1>6 DEF AcceptError, Idle
<1>7. ASSUME NEW t \in Thread, Start(t)
     PROVE  AcceptInv'
  BY <1>7 DEF Start
<1>8. ASSUME NEW t \in Thread, StartThrows(t)
     PROVE  AcceptInv'
  BY <1>8 DEF StartThrows
<1>9. ASSUME NEW t \in Thread, StartListening(t)
     PROVE  AcceptInv'
  <2>1. /\ pc[t] = "listen" /\ pc' = [pc EXCEPT ![t] = "run"] /\ mpc' = mpc
        /\ threw' = threw /\ ops' = ops \cup {AcceptOp}
    BY <1>9 DEF StartListening
  <2>2. t \in Accepting /\ \A u \in Accepting : u = t
    BY <2>1
  <2>3. Accepting' = {}
    BY <2>1, <2>2
  <2> QED BY <2>1, <2>2, <2>3
<1>10. ASSUME NEW t \in Thread, RunReturns(t)
     PROVE  AcceptInv'
  BY <1>10 DEF RunReturns
<1>11. ASSUME NEW t \in Thread, NEW p \in Peer, ReadComplete(t, p)
     PROVE  AcceptInv'
  BY <1>11 DEF ReadComplete, Completes, Next_, Idle
<1>12. ASSUME NEW t \in Thread, NEW p \in Peer, ReadError(t, p) \/ WriteError(t, p)
     PROVE  AcceptInv'
  BY <1>12 DEF ReadError, Completes, Idle, WriteError
<1>13. ASSUME NEW t \in Thread, NEW p \in Peer, WriteComplete(t, p)
     PROVE  AcceptInv'
  BY <1>13 DEF WriteComplete, Completes, Next_, Idle
<1>14. CASE Stop \/ CloseAcceptor \/ JoinAll \/ UNCHANGED vars
  BY <1>14 DEF Stop, CloseAcceptor, JoinAll
<1> QED BY <1>1, <1>2, <1>3, <1>4, <1>5, <1>6, <1>7, <1>8, <1>9, <1>10, <1>11, <1>12,
    <1>13, <1>14 DEF Next, ThreadStep, Serve, ClientStep

-----------------------------------------------------------------------------
(* The theorems. *)

\* After OnRun the first accept is under way and nothing else is.
LEMMA InitIInv == Init => IInv
<1> SUFFICES ASSUME Init
             PROVE  IInv
  OBVIOUS
<1> USE AsioNobody, AsioBounds DEF Init
<1>1. TypeOK
  BY DEF TypeOK, ThreadsOK, ServerOK, ClientOK
<1>2. ConnInv /\ AcceptInv
  BY DEF ConnInv, AcceptInv, Accepting, NoOp, AcceptOp
<1>3. LineInv
  BY DEF LineInv, Line, Shown, AcceptOp
<1> QED BY <1>1, <1>2, <1>3 DEF IInv

\* Every step keeps all the parts of the invariant.
LEMMA NextIInv == IInv /\ [Next]_vars => IInv'
<1> SUFFICES ASSUME IInv, [Next]_vars
             PROVE  IInv'
  OBVIOUS
<1> USE DEF IInv
<1>1. TypeOK'
  BY ThreadsStep, ServerTypeStep, ClientTypeStep DEF TypeOK
<1>2. ConnInv' /\ AcceptInv' /\ LineInv'
  BY ConnStep, AcceptStep, LineStep
<1> QED BY <1>1, <1>2

\* The invariant holds in every behaviour of AsioServer and its clients.
THEOREM Invariance == Spec => []IInv
  BY InitIInv, NextIInv, PTL DEF Spec

\* Every variable has its type.
THEOREM TypeCorrect == Spec => []TypeOK
<1>1. IInv => TypeOK
  BY DEF IInv
<1> QED BY Invariance, <1>1, PTL

\* A set without two different elements has at most one.
LEMMA AtMostOne ==
  ASSUME NEW S, \A x, y \in S : x = y
  PROVE  /\ S # {} => Cardinality(S) = 1
         /\ S = {} => Cardinality(S) = 0
<1>1. CASE S = {}
  BY <1>1, FS_EmptySet
<1>2. CASE S # {}
  <2>1. PICK x \in S : S = {x}
    BY <1>2
  <2> QED BY <2>1, FS_Singleton
<1> QED BY <1>1, <1>2

\* OneChain: no connection is under two operations; while the server runs there
\* is one accept, under way or with one thread, until Start throws: then none.
THEOREM OneChainHolds == Spec => []OneChain
<1>1. IInv => OneChain
  <2> SUFFICES ASSUME IInv
               PROVE  OneChain
    OBVIOUS
  <2>1. ASSUME NEW p \in Peer
        PROVE  Cardinality(OpsOf(p)) <= 1
    <3>1. \A x, y \in OpsOf(p) : x = y
      BY AsioNobody DEF IInv, TypeOK, ServerOK, ConnInv, OpsOf, AcceptOp
    <3> QED BY <3>1, AtMostOne
  <2>2. ASSUME mpc = "key"
        PROVE  Cardinality(OpsOf(Nobody)) + Cardinality(Accepting) =
                 (IF threw = {} THEN 1 ELSE 0)
    <3>1. /\ \A x, y \in OpsOf(Nobody) : x = y
          /\ OpsOf(Nobody) # {} <=> AcceptOp \in ops
      BY AsioNobody DEF IInv, TypeOK, ServerOK, OpsOf, AcceptOp
    <3>2. /\ AcceptOp \in ops => Cardinality(OpsOf(Nobody)) = 1
          /\ AcceptOp \notin ops => Cardinality(OpsOf(Nobody)) = 0
      BY <3>1, AtMostOne
    <3>3. \A x, y \in Accepting : x = y
      BY DEF IInv, AcceptInv
    <3>4. /\ Accepting # {} => Cardinality(Accepting) = 1
          /\ Accepting = {} => Cardinality(Accepting) = 0
      BY <3>3, AtMostOne
    <3>5. /\ threw # {} => Accepting = {} /\ AcceptOp \notin ops
          /\ threw = {} => (AcceptOp \in ops <=> Accepting = {})
      BY <2>2 DEF IInv, AcceptInv
    <3> QED BY <3>2, <3>4, <3>5
  <2> QED BY <2>1, <2>2 DEF OneChain
<1> QED BY Invariance, <1>1, PTL

\* AnswerIsTyped: a client shows the line it typed, as long as each of its lines
\* was read at once and each buffer written at once.
THEOREM AnswerIsTypedHolds == Spec => []AnswerIsTyped
<1>1. IInv => AnswerIsTyped
  BY DEF IInv, LineInv, Line, Shown, AnswerIsTyped
<1> QED BY Invariance, <1>1, PTL

=============================================================================
