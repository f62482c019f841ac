---------------------------- MODULE DataExchange ----------------------------
(***************************************************************************)
(* What becomes of the bytes: a SystemClient types lines, a connection of  *)
(* LinuxServer echoes them.  One connection object serves clients one      *)
(* after the other and keeps its buffer in between.  One worker at a time  *)
(* is in its handler (the races of several are LinuxServer's), so nothing  *)
(* but a step of the handler, of the client or of the network comes        *)
(* between two others.  An exception ends the worker it is thrown in; the  *)
(* next edge is another one's.                                             *)
(*                                                                         *)
(* A byte is a number of its own, 0 is the NUL character and a cleared     *)
(* place of the buffer.  The network delivers what was sent in portions of *)
(* any size, and each portion is an edge for epoll.  m_writeBuf is left    *)
(* out: Write copies the data to it just before write() takes it.          *)
(***************************************************************************)
EXTENDS Naturals, SequencesExt

CONSTANTS
  BufSize,   \* MAX_BUF_SIZE and the client's BUF_SIZE, 1024 in the code
  Clients,   \* bound: clients, one after the other
  Lines,     \* bound: lines a client types
  Lengths,   \* bound: how long a line can be
  Workers,   \* threads of the pool
  Nuls       \* bound: clients that may type a NUL

ASSUME ExchangeBounds == BufSize \in Nat \ {0} /\ Clients \in Nat /\ Lines \in Nat
ASSUME ExchangeWorkers == Workers \in Nat \ {0}
ASSUME ExchangeLengths == Lengths \subseteq Nat /\ Nuls \subseteq 1 .. Clients

VARIABLES
  \* the client
  cpc,       \* "type", "recv", "closed" (released by the server), "off"
  id,        \* which client this is
  lines,     \* lines it has typed
  input,     \* the last of them
  typed,     \* all its bytes
  shown,     \* dataReceived
  \* the network
  net,       \* to the server, not delivered
  inbox,     \* delivered, not read
  event,     \* an edge for epoll_wait
  fin, rst,  \* "no", "due" (on its way), "in" (arrived)
  back,      \* to the client, not received
  \* the connection object and its worker
  pc,
  workers,   \* that no exception has ended
  rbuf,      \* m_readBuf
  res, data, \* of OnDataExchangeComplete
  killed,    \* the process has been ended by SIGPIPE
  \* history
  echo,      \* all that was written to this client
  torn,      \* a line did not come and go in one piece
  swallowed, \* a read whose result is discarded took data
  left,      \* an exception came between reading data and clearing m_readBuf
  cut        \* data was cut short: by a NUL, or by a full socket buffer

client == <<cpc, id, lines, input, typed, shown>>
network == <<net, inbox, event, fin, rst, back>>
worker == <<pc, workers, rbuf, res, data, killed>>
history == <<echo, torn, swallowed, left, cut>>
vars == <<client, network, worker, history>>

\* The number of the first byte a client types.
Base(c) == 100 * c

Init ==
  /\ cpc = "off" /\ id = 0 /\ lines = 0 /\ input = <<>> /\ typed = <<>> /\ shown = <<>>
  /\ net = <<>> /\ inbox = <<>> /\ event = FALSE /\ fin = "no" /\ rst = "no" /\ back = <<>>
  /\ pc = "wait" /\ rbuf = [i \in 1 .. BufSize |-> 0] /\ res = 0 /\ data = <<>>
  /\ workers = Workers /\ killed = FALSE
  /\ echo = <<>> /\ torn = FALSE /\ swallowed = FALSE /\ left = FALSE /\ cut = FALSE

\* Behaviours are followed as long as a property below says something of them:
\* what excuses the server does not go away.
Runs == ~killed /\ ~(torn /\ (swallowed \/ left))

Takes(s, n) == SubSeq(s, n + 1, Len(s))

-----------------------------------------------------------------------------
(* SystemClient *)

\* Accepted with the connection object another client has left.  A socket is
\* writable at once: the first edge.
Connect ==
  /\ Runs
  /\ cpc = "off" /\ id < Clients
  /\ cpc' = "type" /\ id' = id + 1
  /\ event' = TRUE
  /\ UNCHANGED <<lines, input, typed, shown, net, inbox, fin, rst, back, worker, history>>

\* getline, send: a line of n bytes, byte z of it a NUL.
TypeLine ==
  /\ Runs
  /\ cpc = "type" /\ lines < Lines
  /\ \E n \in Lengths :
     \E z \in 0 .. (IF id \in Nuls THEN n ELSE 0) :
       /\ input' = [i \in 1 .. n |-> IF i = z THEN 0 ELSE Base(id) + Len(typed) + i]
       /\ typed' = typed \o input'
       /\ net' = net \o input'
  /\ lines' = lines + 1
  /\ cpc' = "recv"
  /\ UNCHANGED <<id, shown, inbox, event, fin, rst, back, worker, history>>

\* Mutant: everything received is shown.
RecvAll ==
  /\ Runs
  /\ cpc = "recv" /\ cpc' = "type"
  /\ \E n \in 1 .. Len(back) :
       /\ n <= BufSize
       /\ shown' = SubSeq(back, 1, n)
       /\ back' = Takes(back, n)
       /\ torn' = (torn \/ n # Len(back) \/ n < Len(input))
  /\ UNCHANGED <<id, lines, input, typed, net, inbox, event, fin, rst, worker, echo, swallowed, left, cut>>

\* recv, which waits for data: also when nothing was sent because the line is
\* empty.  min(res, input.length()) bytes are shown.
Recv ==
  /\ Runs
  /\ cpc = "recv" /\ cpc' = "type"
  /\ \E n \in 1 .. Len(back) :
       /\ n <= BufSize
       /\ shown' = SubSeq(back, 1, IF n < Len(input) THEN n ELSE Len(input))
       /\ back' = Takes(back, n)
       /\ torn' = (torn \/ n # Len(back) \/ n < Len(input))
  /\ UNCHANGED <<id, lines, input, typed, net, inbox, event, fin, rst, worker, echo, swallowed, left, cut>>

\* A signal: OnStop, wherever OnRun is.  Closing a socket with unread data
\* resets the connection.
Interrupt ==
  /\ Runs
  /\ cpc \in {"type", "recv"} /\ cpc' = "closed"
  /\ IF back = <<>> THEN fin' = "due" /\ UNCHANGED rst ELSE rst' = "due" /\ UNCHANGED fin
  /\ back' = <<>>
  /\ UNCHANGED <<id, lines, input, typed, shown, net, inbox, event, worker, history>>

-----------------------------------------------------------------------------
(* The network *)

Deliver ==
  /\ Runs
  /\ \E n \in 1 .. Len(net) :
       /\ inbox' = inbox \o SubSeq(net, 1, n)
       /\ net' = Takes(net, n)
  /\ event' = TRUE
  /\ UNCHANGED <<client, fin, rst, back, worker, history>>

DeliverFin ==
  /\ Runs
  /\ net = <<>>
  /\ fin = "due" /\ fin' = "in"
  /\ event' = TRUE
  /\ UNCHANGED <<client, net, inbox, rst, back, worker, history>>

DeliverRst ==
  /\ Runs
  /\ net = <<>> /\ fin # "due"
  /\ rst = "due" /\ rst' = "in"
  /\ event' = TRUE
  /\ UNCHANGED <<client, net, inbox, fin, back, worker, history>>

-----------------------------------------------------------------------------
(* ConnectionImpl::Complete and OnDataExchangeComplete *)

Overwrite(buf, s) == [i \in 1 .. BufSize |-> IF i <= Len(s) THEN s[i] ELSE buf[i]]

\* Up to the first zero.
GetInputData(buf) ==
  SubSeq(buf, 1, Max({n \in 0 .. BufSize : \A i \in 1 .. n : buf[i] # 0}))

Go(from, to) == Runs /\ workers > 0 /\ pc = from /\ pc' = to

\* What a read takes from the socket.
Portion == SubSeq(inbox, 1, IF Len(inbox) < BufSize THEN Len(inbox) ELSE BufSize)

ReadPortion ==
  /\ inbox # <<>>
  /\ rbuf' = Overwrite(rbuf, Portion)
  /\ inbox' = Takes(inbox, Len(Portion))
  /\ torn' = (torn \/ Len(Portion) # Len(input))

NothingToRead == inbox = <<>> /\ fin # "in" /\ rst # "in"
AtEof == inbox = <<>> /\ fin = "in"
IsReset == inbox = <<>> /\ fin # "in" /\ rst = "in"

\* epoll_wait
Harvest ==
  /\ Go("wait", "read")
  /\ event /\ event' = FALSE
  /\ UNCHANGED <<client, net, inbox, fin, rst, back, workers, rbuf, res, data, killed, history>>

\* ReadAsync and GetInputData
ReadData ==
  /\ Go("read", "write")
  /\ ReadPortion
  /\ res' = Len(Portion)
  /\ data' = GetInputData(rbuf')
  /\ cut' = (cut \/ Len(data') < res')
  /\ UNCHANGED <<client, net, event, fin, rst, back, workers, killed, echo, swallowed, left>>

\* EAGAIN
ReadNothing ==
  /\ Go("read", "wait")
  /\ NothingToRead
  /\ UNCHANGED <<client, network, workers, rbuf, res, data, killed, history>>

\* Mutant: end of file is not told from data.
ReadEofAnswers ==
  /\ Go("read", "write")
  /\ AtEof
  /\ res' = 0 /\ data' = GetInputData(rbuf)
  /\ UNCHANGED <<client, network, workers, rbuf, killed, history>>

\* Disconnect and m_cnMgr.Release; the buffer is kept.
ReadEof ==
  /\ Go("read", "wait")
  /\ AtEof
  /\ cpc' = "off" /\ lines' = 0
  /\ input' = <<>> /\ typed' = <<>> /\ shown' = <<>> /\ echo' = <<>>
  /\ event' = FALSE /\ fin' = "no" /\ rst' = "no"
  /\ UNCHANGED <<id, net, inbox, back, workers, rbuf, res, data, killed, torn, swallowed, left, cut>>

\* The exception ends Run, and with it the worker.
Throw ==
  /\ workers' = workers - 1
  /\ res' = 0 /\ data' = <<>>
  /\ UNCHANGED <<client, net, inbox, event, rst, back, rbuf, killed, echo, torn, swallowed, cut>>

\* A reset is reported once, as ECONNRESET; then it is an end of file to read and
\* EPIPE to write.
Reported == fin' = "in"

ReadThrows == Go("read", "wait") /\ IsReset /\ Reported /\ Throw /\ UNCHANGED left

\* WriteAsync; from a client that has closed the answer to it is a reset.
Write ==
  /\ Go("write", "reread")
  /\ rst # "in"
  /\ \E n \in 0 .. Len(data) :
       /\ n = Len(data) \/ (n > 0 /\ back # <<>>)    \* all, or what the socket has room for
       /\ echo' = echo \o SubSeq(data, 1, n)
       /\ cut' = (cut \/ n < Len(data))
       /\ IF cpc = "closed"
          THEN rst' = (IF n > 0 THEN "due" ELSE rst) /\ UNCHANGED back
          ELSE back' = back \o SubSeq(data, 1, n) /\ UNCHANGED rst
  /\ UNCHANGED <<client, net, inbox, event, fin, workers, rbuf, res, data, killed, torn, swallowed, left>>

\* ECONNRESET, and EAGAIN when the socket has no room at all.  Clear is left out.
WriteThrows ==
  /\ Go("write", "wait")
  /\ \/ rst = "in" /\ fin # "in" /\ Reported
     \/ data # <<>> /\ back # <<>> /\ UNCHANGED fin
  /\ Throw
  /\ left' = TRUE

\* EPIPE: nothing in the program handles SIGPIPE.
WriteKills ==
  /\ Go("write", "write")
  /\ rst = "in" /\ fin = "in"
  /\ killed' = TRUE
  /\ UNCHANGED <<client, network, workers, rbuf, res, data, history>>

\* A read whose result nobody looks at.
DiscardingRead(from, to) ==
  /\ Go(from, to)
  /\ \/ ReadPortion /\ swallowed' = TRUE
     \/ ~IsReset /\ inbox = <<>> /\ UNCHANGED <<rbuf, inbox, torn, swallowed>>
  /\ UNCHANGED <<client, net, event, fin, rst, back, workers, res, data, killed, echo, left, cut>>

DiscardingThrows(from) == Go(from, "wait") /\ IsReset /\ Reported /\ Throw

\* Mutant: an edge that has come since epoll_wait is dropped.
RereadDrops ==
  /\ Go("reread", "clear")
  /\ event' = FALSE
  /\ UNCHANGED <<client, net, inbox, fin, rst, back, workers, rbuf, res, data, killed, history>>

\* "Get ready to read next data portion."
Reread ==
  \/ DiscardingRead("reread", "clear")
  \/ DiscardingThrows("reread") /\ left' = TRUE

\* OnAcceptComplete, when the next client comes: it reads the connection that
\* was accepted before.
OtherAccepted ==
  /\ cpc # "off"
  /\ \/ DiscardingRead("wait", "wait")
     \/ DiscardingThrows("wait") /\ UNCHANGED left

\* Mutant: one byte too few.
ClearShort ==
  /\ Go("clear", "wait")
  /\ rbuf' = [i \in 1 .. BufSize |-> IF i < res THEN 0 ELSE rbuf[i]]
  /\ res' = 0 /\ data' = <<>>
  /\ UNCHANGED <<client, network, workers, killed, history>>

\* ClearBuffer(m_readBuf, dataSize)
Clear ==
  /\ Go("clear", "wait")
  /\ rbuf' = [i \in 1 .. BufSize |-> IF i <= res THEN 0 ELSE rbuf[i]]
  /\ res' = 0 /\ data' = <<>>
  /\ UNCHANGED <<client, network, workers, killed, history>>

-----------------------------------------------------------------------------
Handler ==
  \/ Harvest \/ ReadData \/ ReadNothing \/ ReadEof \/ ReadThrows
  \/ Write \/ WriteThrows \/ WriteKills \/ Reread \/ Clear

Next ==
  \/ Connect \/ TypeLine \/ Recv \/ Interrupt
  \/ Deliver \/ DeliverFin \/ DeliverRst
  \/ Handler \/ OtherAccepted

Spec == Init /\ [][Next]_vars

\* The worker runs, the network delivers, recv returns when there is data; a user
\* need not type, and another client need not come.
FairSpec == Spec /\ WF_vars(Handler) /\ WF_vars(Deliver) /\ WF_vars(Recv)

-----------------------------------------------------------------------------
(* Properties *)

Chars(s) == {s[i] : i \in DOMAIN s} \ {0}

\* A client is sent back the bytes it typed, in order and none left out, unless
\* they were cut short; and bytes of another client only after a discarded read,
\* or an exception that came before Clear, left them in m_readBuf.
EchoIsOwn ==
  ~swallowed /\ ~left =>
    /\ Chars(echo) \subseteq Chars(typed)
    /\ ~cut => IsPrefix(echo, typed)

\* The client shows a line as it was typed, or the beginning of it, as long as
\* lines travel in one piece: bytes left in m_readBuf may be sent along with it,
\* the client cuts them off.
ShownIsTyped == ~torn /\ cpc = "type" => IsPrefix(shown, input)

\* A SIGPIPE needs two answers to a client that has closed: a line that was read
\* in several portions.  One answer to it, whatever it closes, is harmless.
KilledNeedsTorn == killed => torn

\* Bytes the client typed and has not got back.
Owed == Len(echo) - Len(back) < Len(typed)

\* A client that waits in recv and is owed something gets an answer, as long as
\* there is a worker, unless the data was swallowed or cut, or an exception came
\* before the answer.  (A client that is owed nothing, because it sent an empty
\* line, waits forever.)
ClientIsAnswered ==
  cpc = "recv" /\ Owed ~>
    cpc # "recv" \/ swallowed \/ cut \/ left \/ killed \/ workers = 0

=============================================================================
