# A TLA+ model of the TCPv6 client/server demo

The repository is a TCP (IPv6) echo server and client in C++, with a Boost.Asio and a
"native" implementation for Windows and Linux. The centre of this directory is the native
Linux server: its own threads, its own epoll loop, its own pool of connection objects and its
own shutdown protocol. Around it are the server over a Windows completion port, the
Boost.Asio server with its client, the bytes between the native client and the server, and
the single-instance guard of all of them. Paths below are relative to the repository root.

## 1. Inventory

| component | state it keeps | operations | talks to |
|---|---|---|---|
| `SystemServer` / `AppLogic` (`include/Server/Server.h`, `include/Common/AppLogic.h`) | pool, IO manager, connection manager, acceptor, list of exceptions | `Run`/`OnRun` (first `DoAccept`, start the pool, wait for a key), `Stop`/`OnStop` (by the destructor and by a signal handler), `DoAccept`, `AsyncWorkCallback` | owns all the rest |
| `ThreadPool` (`src/Common/System/ThreadPool.cpp`) | `m_threads` | `Start` (pthread_create and push_back), `Stop` (join each, clear) | its threads call `AsyncWorkCallback` |
| `IoManager` (`src/Common/System/IoManager.cpp`) | epoll set, `m_threadCount`, the `Exiter`'s eventfd | `Bind`, `Unbind`, `Run`, `Stop` | `Complete` of endpoints |
| `Acceptor` / `AcceptorImpl` (`Endpoint.h`, `Endpoint.cpp`) | listening socket, `m_newConnection`, `m_peerAddr` | `AcceptAsync`, `Complete` | `Connection::Set`, `StartAsyncIo`, `OnAcceptComplete` |
| `Connection` / `ConnectionImpl` | `m_endpoint`, `m_dataExchange`, `m_readBuf`, `m_writeBuf` | `Set`, `ReadAsync`, `WriteAsync`, `GetInputData`, `Complete`, `Disconnect` | `OnDataExchangeComplete`, `StopAsyncIo` |
| `ConnectionManager` (`Endpoint.h:569`) | active list, available list, mutex | constructor, `Get`, `Release`, destruction | `CreateConnection` |
| `LinuxServer` (`src/Server/Server.cpp:187`) | none of its own | `OnAcceptComplete`, `OnDataExchangeComplete` | runs on the workers |
| `LinuxTerminationLogic` | the callback | signal handler calling `AppLogic::Stop` on whatever thread was interrupted | `OnStop` |
| `SingleInstance` (`include/Common/System/SingleInstance.h`) | lock file or named mutex | constructor, destructor | other processes |
| `Exceptioning` | list of exceptions, mutex | `Append`, `Occurred`, `Show` | |
| `CWinSockServer`, `CIoManager`, `CThreadPool`, `CAcceptorImpl`, `CConnectionImpl` (Windows) | completion port, `m_curState`, `m_readBuf`, `m_writeBuf`, `m_newConnection` | `Run`, `Stop`; `Accept`, `Read`, `Write`, `Disconnect`, `Reset`, `Complete`; `OnAcceptComplete`, `OnReadComplete`, `OnWriteComplete`, `OnDisconnectComplete` | the kernel, which works on posted operations and their buffers |
| `AsioServer` (`Server.h:11`) | `m_data` of each connection, acceptor, threads | `StartListening`, `OnAccept`, `Start`, `OnReadComplete`, `OnWriteComplete`, `OnStop` | `io_service` |
| `SystemClient`, `AsioClient` | socket, `m_data` | `OnRun` (type, send, receive, show), `OnStop` | the servers |

Hard behaviours, and what correctness means:

* **Connection objects** are shared by all workers and reused. Correct: an object has one
  holder, is in one list once (so is deleted once), is reused before a new one is made, and an
  exception loses only the object at hand and leaves the mutex free.
* **Stopping** is one token in an eventfd that each worker takes out, puts back and leaves
  by. Correct: the token is never lost, never multiplied, and ends every worker; the count
  of threads is exact, so a `Stop` without workers returns at once.
* **Life cycle**: the destructor, signal handlers and failures of the first steps may all
  run `OnStop`. Correct: it always completes, and the server is destroyed after its workers.
* **Requests**: sockets are edge triggered and not one-shot, so events of one socket may go
  to several workers; descriptors and objects are reused. Correct: a socket has one owner,
  an available object is clean, a worker waits for nothing but events, an edge is never lost,
  the descriptor of a client that closed is closed.
* **Bytes**: a connection object and its buffer serve one client after the other, a line may
  come in portions, a read may take data nobody looks at. Correct: a client gets its own bytes
  back, in order, shows what was typed, and is not left waiting for what it is owed.
* **Completion port**: a connection writes down what it expects after it has posted it, and
  zeroes a buffer after the callback. Correct: one operation at a time, the expected one; what
  is sent is the client's; who closed, and nobody else, is disconnected; every thread ends.
* **Asio**: handlers of one connection are safe only because one follows the other, and
  accepting goes on only because each accept starts the next. Correct: no chain forks, and none
  ends but where the code gives it up.
* **Instances**: processes start, exit and are killed in any order. Correct: one runs, and a
  leftover stops nobody.

`PROJECT.json` lists the hazards at their lines.

## 2. Modules

| module | models | kind |
|---|---|---|
| `ConnectionPool` | what the connection manager promises: each object absent, free, held by one thread, live or lost | abstract specification |
| `ConnectionManager` | `Get`, `Release`, the scoped lock, `bad_alloc`, the callers in `DoAccept` and `OnDataExchangeComplete`, destruction | component; refines `ConnectionPool` |
| `ConnectionManagerProofs` | | proofs |
| `IoManager` | `Run`, `Exiter::Signal`, `Stop` | component |
| `IoManagerProofs` | | proofs |
| `ServerLifecycle` | `RUN_APP`, `OnRun`, `ThreadPool`, `OnStop` on the main thread and in signal handlers | composition: extends `IoManager` |
| `ServerLifecycleProofs` |  | proofs |
| `LinuxServer` | the handlers on the workers: accept, set, bind, read, write, disconnect, with the descriptor table and epoll's ready list | component |
| `LinuxServerProofs` |  | proofs |
| `DataExchange` | the contents of `m_readBuf`, the client's lines and answers, TCP's portions | composition of client, network and connection |
| `DataExchangeProofs` |  | proofs |
| `SingleInstance` | both implementations, several processes, files and locks | component |
| `SingleInstanceProofs` | | proofs |
| `WinSockServer` | the Windows server's handlers, the kernel's completions, `Stop` and the join | component |
| `WinSockServerProofs` |  | proofs |
| `AsioServer` | `AsioServer`, its threads, and `AsioClient` | composition of server and client |
| `AsioServerProofs` |  | proofs |
| `MCLinuxServer` | small sets and symmetry for the safety run of `LinuxServer` | model-checking module |

### ConnectionManager

One action per access to shared state. `active` and `avail` are the two lists as bags (how
often an entry is listed matters, its place does not). A thread's program counter names the
point inside `Get` (`entry`, `create`, `pop`, `add`, `getUnlock`), `Release` (`release`,
`remove`, `addBack`, `releaseUnlock`) or the unwinding of an exception (`unwind`, `dead`).
`live` are the objects whose socket is in the epoll set. Assumed of the callers: one worker
at a time releases a connection; `LinuxServer` shows where the code does not keep that.

### IoManager

The ready list is the number of IO events in it and whether the exit event is in it;
`Harvest` is `epoll_wait`, which takes all of it (`MAX_ENDPOINTS` is 65535). A worker
completes its batch in any order. An IO event's `Complete` may throw, which ends the worker
and forgets its batch (`CompleteThrows`). `ReadToken`, `WriteToken` and `Leave` are
`Signal(false)` and the `fetch_sub` after it, `StopReturns`, `StopGoesOn` and `StopSignals`
are `Stop`.

### ServerLifecycle

`mpc` is where the main thread is in `RUN_APP`; `hpc[s]` says whether thread `s` is inside
`OnStop` and in which half of it. A thread inside a signal handler does not run its own code
(`Running`). `pthread_join` returns at once for the caller itself (EDEADLK) and for a thread
somebody else is joining (EINVAL); the code ignores both results.

### LinuxServer

Get and Release are single actions here, the worker count and the exit event are left out
(they are `IoManager` and `ServerLifecycle`). Everything else of the handlers is one action
per access to something another thread can see: `CompleteAccept` reads `m_newConnection`,
`Accept` is the system call, `Publish` writes `m_newConnection`, `SetFd` reads it again and
writes `m_endpoint`, `SetMode` writes `m_dataExchange`, `Bind` is `epoll_ctl`; `Unbind`,
`ResetChecks`, `CloseFd`, `ZeroEndpoint` and `ClearMode` are `Disconnect`. A system call on a
descriptor acts on whatever the descriptor is open on at that moment: descriptor 0 is
standard input until somebody closes it, `accept` returns the lowest free one.

Data is one bit per client, "unread data waits in the socket"; what the reads leave in
`m_readBuf` is `DataExchange`'s. `race` is a history variable: it becomes true when a worker takes an event of
an endpoint that another worker still has an event of or is completing. Nothing in the code
excludes that, and what follows it is reported as a finding; the safety properties say that
everything else is sound, that is, that this is the only way to go wrong. They would all
hold unconditionally if the sockets were registered with EPOLLONESHOT, or if there were one
worker.

Epoll is external and modelled as the code uses it. Recent Linux kernels refuse
`EPOLLEXCLUSIVE` together with `EPOLLRDHUP` (IoManager.cpp:125) with EINVAL; the model is
about a kernel on which `Bind` succeeds, as the authors assume.

A reset is reported once, by ECONNRESET to the call that meets it first, and is an end of
file from then on (`Reported`); a write after that, as one to a client that has closed and
reset its side, raises SIGPIPE and ends the process (`WriteKills`). A write for which the socket
has no room gives EAGAIN, which is thrown like the rest (`WriteThrows`).

### DataExchange

A byte is a number that names its client and its place, 0 is NUL and a cleared place. The
workers, one at a time, serve one connection object for clients that come one after the other;
races are `LinuxServer`'s. An exception ends only the worker it is thrown in (`Throw` counts
`workers` down): the next edge of the connection is another one's, who meets the buffer as it
was left. `Deliver` cuts what was sent into portions, each of which is an edge.
`ReadData` overwrites the beginning of the buffer and takes the data up to the first zero,
`Write` may write less than all when earlier answers have not been received, `Reread` is the
read whose result is ignored and `OtherAccepted` the one `OnAcceptComplete` makes on the
connection accepted before; `Clear` clears as many bytes as the *first* read took. The history
variables say what went wrong so far: `torn` (a line did not travel in one piece), `swallowed`
(an ignored read took data), `left` (an exception in `WriteAsync` or in the second `ReadAsync`
skipped `ClearBuffer`), `cut` (a NUL or a short write). Behaviours in which `torn` and one of
`swallowed` and `left` are true are cut: none of the properties promises anything any more.
`m_writeBuf` is left out: `Write` copies into it just before the system call takes it.

### SingleInstance

A file is an inode, `name` is the one the path leads to; on Windows it stands for the mutex
object, which lives while somebody has a handle. The processes start, run, exit and may be
killed anywhere. `open(O_CREAT)` without a mode gives a new file an arbitrary one, so a later
`open` may fail for ever (`OpenFails`); a process whose descriptor is 0 leaves the file behind.
`flock` may fail for want of memory, which the code reports like a running instance (`FlockError`).
On Windows any NULL from `OpenMutex` is taken for "no instance" (`OpenMutexDenied`) and the result
of `CreateMutex` is not looked at (`CreateMutexFails`); `unchecked` are the processes that went on so.
`window` is a history variable: somebody acted between two steps that only exclude others
together (close and remove; OpenMutex and CreateMutex).

### WinSockServer

`posted` are the operations the kernel works on, `port` the packets. `Take...` is
`GetQueuedCompletionStatus` with the callback up to the operation it posts, `Switch` and
`SwitchData` the assignment to `m_curState` after it, `Zero` the clearing of the buffer of
the state the connection is in by then. Data is whose it is: `rbuf` are the clients whose bytes
are before the first zero of `m_readBuf`, `rest` those whose bytes may be behind it, `wbuf`
those in `m_writeBuf`. A portion covers the beginning of what was there (`Plain`) or brings a
zero of its own (`WithNul`, `nuls`); one that begins with a zero is answered with no bytes, whose
completion is taken for a close. `Zero` clears as many bytes as the operation that completed
transferred: after a write the beginning of `m_readBuf`, not what is behind a zero in it
(`ZeroRead`), and, if the kernel was faster, the portion just received (`wipedRead`); after a
read the beginning of `m_writeBuf`, perhaps while it waits to be sent (`ZeroWrite`,
`wipedWrite`). The kernel may complete a posted
operation on another thread at once; a thread that takes up a connection another has not
finished with is an `overlap`, and behaviours are followed up to the first. An operation on a
connection that was reset fails when it is posted, or in the queue; both end the thread.

### AsioServer

The handlers of one connection follow one another, so each is one step; `OnAccept` is two,
because other handlers run in between. `Start` throws out of the handler when the client has
reset: the thread ends and `StartListening` is never reached. The server writes back all of
`m_data`, the client reads a full buffer. A connection serves one client and is named after
it. Clients are followed until `Stop`.

## 3. Runs

| run | bounds | checks |
|---|---|---|
| `ConnectionManager` | 3 threads, 4 objects, 1 preallocated | types; `InOneList`, `ExclusiveHandout`, `PopHasEntry`, `LossNeedsException`, `ReuseBound`; `LockIsFreed`; refinement `ImplementsPool` |
| `IoManager` | 3 workers, 2 callers of `Stop`, 3 IO events, 1 exception | types; `TokenAlive`, `TokensConserved`, `CountIsExact`, `OneStopNoFailure`; `StopEndsAll` |
| `ServerLifecycle` | 2 workers, 2 signals on main, 2 IO events, 1 exception | `DestroyedAfterWorkers`, `ClearedWhenInactive`; `StopCompletes` |
| `ServerLifecycleSignal` | 1 signal on a worker | violates `ClearedWhenInactive`: a worker joins itself and clears the list |
| `LinuxServerSafety` | 2 workers and main, 3 clients of which one sends 1 portion of data, 2 objects, 2 descriptors besides 0, symmetry of workers and of silent clients, also past the first race | `OneOwner`, `AvailClean`, `AbortNeedsRace`, `StdinNeedsAccept` |
| `LinuxServerLive` | 2 workers and main, 2 clients that send, one of which may reset, up to the first race (`AfterRace = FALSE`) | `DataIsRead`, `FinIsServed`, `LoneClientAccepted` |
| `LinuxServerAssert` | 1 client | violates `NoAssertFails` |
| `DataExchange` | 2 workers, buffer of 2 bytes, 2 clients of 2 lines, lines of 0 to 3 bytes, a NUL anywhere | `EchoIsOwn`, `ShownIsTyped`, `KilledNeedsTorn`; `ClientIsAnswered` |
| `SingleInstance` | 4 processes, 4 files, both systems | `OneInstance`; `RefusedMeansRunning` |
| `SingleInstanceTwo` | 3 processes on Linux | violates `OnlyOneInstance` |
| `WinSockServer` | 2 threads, 3 clients that come in order, 2 portions or resets between them, zero bytes from the first, 2 connections of which 1 preallocated | `OneOperation`, `AssertNeedsOverlap`, `DisconnectNeedsClose`, `EchoIntact`; `ClosedIsReleased`, `StopReturns` |
| `AsioServer` | 2 threads, 2 clients of which one types two lines, buffer of 2 bytes, lines of 0, 1 or 3 bytes | `OneChain`, `AnswerIsTyped`; `AsioClientIsAnswered` |

Why the bounds are enough: three threads are the least with one in the critical section and
two that compete for it; four objects let every thread hold one while another is free. Three
workers let the token pass twice, with one worker gone by an exception; two `Stop` calls are
what the destructor and a signal make. Two workers suffice for every pairwise interleaving of
handlers; two descriptors and two or three clients let an object and a descriptor be reused
while another client is served, and three let descriptor 0 come back from `accept`. Memory
and descriptors may run out at any call (`GetThrows`, `AcceptThrows`), not only at the bounds. The real pool has 2n+1 >= 3 threads.
A line of three bytes over a buffer of two is one that does not fit, of two one without a zero
behind it, of one the ordinary case and of none the line that sends nothing; two clients let
the second find what the first left in the buffer. In `SingleInstance` three processes are the
least for the violation (one exits, one gets its lock, one its name), four let another one be
killed or refused beside them. In `DataExchange` two workers let one be ended by an exception and the other go on with the
connection. In `WinSockServer` two connections of which one is made on demand let one be reused
while the other is served, and the third client is the first to get a connection that has
served another; `InOrder` gives a packet to the first of the waiting threads, which differ in
nothing. `MaxIo`, `MaxThrow`, `MaxSignals`, `MaxMsg`, `MaxFd`, `AfterRace`, `Senders`, `Resets`,
`Clients`, `Lines`, `Lengths`, `Workers`, `Nuls`, `File`, `Acts`, `InOrder`, `Talkers` are the bounds; each is a named guard of an action or the set an input is chosen from.

`CHECK_DEADLOCK FALSE` in the cfgs: all these systems may stop (workers ended, no client).

**Findings**, each shown by a run: (1) a signal handled by a worker clears the thread list
while workers run; the destructor then joins nobody. (2) Two workers on one connection:
`assert(m_dataExchange)` fails. (3) A start during an exit runs beside the next one, because
the lock is freed before the name is removed.

The passing runs name more of them, as the excuses of their properties; each is a state the
run reaches:

* `tokenDropped` (`IoManager`): an event that throws ahead of the exit event in one batch
  discards the exit event; the other workers wait for ever and `Stop` hangs in the join.
* `OtherAccepted` (`DataExchange`), `ReadNew` (`LinuxServer`): `OnAcceptComplete` reads the
  connection accepted the time before, not the new one; if that has been released its
  descriptor is 0 and the worker blocks on standard input (`stdin`), which nothing else makes
  it do before a race (`StdinNeedsAccept`).
* `swallowed` (`DataExchange`), `skipped` (`LinuxServer`): the second `ReadAsync` discards the
  data or the end of file it gets; the client is not answered, or its connection not released.
  The data stays in `m_readBuf` and may go to the next client of the connection.
* `left` (`DataExchange`): an exception in the write or in the second read leaves `m_readBuf` as
  it is, for the next client of the connection.
* `WriteKills`: two answers to a client that has closed end the server by SIGPIPE.
* `overlap` (`WinSockServer`): a completion before `SwitchTo`, or a reuse before `Reset`, fails
  the assertion. `wipedRead`, `nuls`: a message zeroed in the buffer, or one that begins with a
  zero byte, is answered with nothing, whose completion the server takes for a close; and what
  is behind a zero in `m_readBuf` stays for the next client. `wipedWrite`: an answer is zeroed
  before the kernel has sent it.
* `unchecked` (`SingleInstance`): a Windows instance started although `OpenMutex` or
  `CreateMutex` had failed.
* `threw` (`AsioServer`): one client that resets before `Start` ends accepting for good.
* Two clients that share the backlog: the second waits until a third connects
  (`LoneClientAccepted` promises only the first).

**Fairness.** Weak fairness for each thread's own steps: the operating system schedules
runnable threads, and no step of a call waits for anything else once enabled. A mutex is not
assumed fair: `LockIsFreed` needs only that the holder goes on. Clients, signals, the key and
callers of `Stop` have no fairness. `StopEndsAll` and `StopCompletes` name the one excuse
(`tokenDropped`), `DataIsRead`, `FinIsServed` and `LoneClientAccepted` theirs (`Broken`: a race,
a failed assertion, SIGPIPE, a worker ended by an exception or blocked on standard input).
Elsewhere the network delivers and the kernel completes what was posted (weak fairness), a
`recv` that has data returns, and users and new clients owe nothing. In `AsioServer` a ready
handler of a connection has strong fairness over all threads: `io_service` keeps one queue in
order, so a handler is taken after finitely many others although threads are busy in between.

## 4. Proofs

Each `...Proofs` module proves for every value of the constants what the runs check on small
ones: any number of threads, connections, clients, workers and processes, buffers of any size.
The invariants were model-checked before they were proved. Every such module has one
inductive invariant (`LinuxServerProofs` two, one on top of the other), the conjunction of named parts, `Init => IInv`, one lemma or one
case per action for the step, and the theorems follow from it.

*ConnectionManager.* The inductive invariant `IInv` adds to the properties: the owner of the
mutex is the one thread inside a critical section (`LockInv`), a thread has an object exactly
in the phases between choosing it and giving it up (`HandInv`), only created objects are
anywhere (`CreatedInv`), at `add` and `addBack` the object is not active, at `create` the
available list is empty, a live object is not available (`PhaseInv`). Without `LockInv` and `PhaseInv` neither `InOneList` nor
`ExclusiveHandout` is inductive. From it: `TypeOK`, `InOneList`, `ExclusiveHandout`,
`PopHasEntry`, and the refinement of `ConnectionPool`: every step maps to a
step of the pool or to a stutter. `LossNeedsException` and `ReuseBound` compare cardinalities
and follow one step at a time: a step adds an object to the lost ones only together
with its thread to those ended by an exception; an object is made only where `PhaseInv` says
that the available list is empty, so that all objects count for `peak`. Assumptions: objects
and threads are finitely many, the preallocated objects are among the objects, the null values
are no threads and no objects.

*IoManager.* The inductive invariant adds that a worker about to write the token back holds a
positive value, that an exit event in a batch belongs to a worker that is completing its
batch, and that with one signal at most one place (ready list, a batch, a worker about to
write) has the exit event. From it: `IoTypeOK`, `TokenAlive`, `CountIsExact` and
`OneStopNoFailure`. Assumption: the set of workers is finite.

*ServerLifecycle.* Each step of the life cycle is a step of `IoManager`, leaves its state
alone, or is one of two that `IoManager` alone does not make (`OnStop` returns from
`IoManager::Stop`, the destructor's last `Signal`); so the invariant of `IoManager` holds of the whole, and
with it `TokenAlive` and `CountIsExact`. `DestroyedAfterWorkers` and `ClearedWhenInactive`
need to know in addition that every active worker is in `m_threads` or in the local of
`Start` (`KnownInv`), that the threads the join loop has passed have ended (`JoinInv`), and that
nobody is active once the destructor's `OnStop` is through (`EndInv`). These two are proved
under a hypothesis, `SignalTargets \subseteq {Main}`: `OnStop` runs on the main thread, which
is where the kernel delivers a signal sent to the process as long as that thread does not block
it. The hypothesis cannot be dropped: `pthread_join` returns at once for the
caller itself and for a thread that is being joined, and the run `ServerLifecycleSignal` shows
`ClearedWhenInactive` violated by a signal on a worker. Types, `TokenAlive` and
`CountIsExact` are proved without it.

*DataExchange.* `CloseInv` says that nothing of a client is left when the next one comes, except
what `m_readBuf` keeps. `LineInv`, for as long as no line was torn: the last line is in one
place, untouched between the client and the worker, in the worker's `data`, or on its way
back, and a client that was answered after it closed has nothing more on its way. From it
`KilledNeedsTorn` and `ShownIsTyped`. `BufferInv`: before a read `m_readBuf` is clear, after it
beyond the bytes just read, so that `GetInputData` returns a part of this read
(`DataIsPortion`); this as long as nothing was `swallowed` or `left`. `OwnInv` and `OrderInv`:
under the same condition all bytes on their way are the
client's, and unless some were cut, what it typed is what was echoed, what the worker holds,
the inbox and the network, in this order; from them `EchoIsOwn`. That a maximum of the places
before the first zero exists is proved by counting them (`InputData`), without induction.
Assumptions: the buffer is not empty, lengths are natural numbers.

*LinuxServer.* Two invariants. `ShapeInv` holds always: types; what the phase of a thread says
of its own variables (`Shape`); `DoAccept` of `OnRun` is over before a worker runs
(`MainFirst`); what is on the ready list is in the epoll set (`ReadyRegistered`). `OwnInv` holds
up to the first race: an endpoint is held by one thread, once (`Exclusive`); an unused object is
in its initial state (`UnusedClean`); a connection in a batch or in data exchange is registered
for its own descriptor (`BatchBound`, `RegOwned`); the object of a thread between `Get` and
`epoll_ctl` is known to that thread only and set up to the point the phase says (`NewStage`), one
in `OnDataExchangeComplete` or `Disconnect` is torn down to that point (`DataStage`); a
descriptor in `m_endpoint` is open and in no other object, except between `close()` and
`m_endpoint = 0`, when it may already belong to the next client (`EndpointOpen`,
`EndpointOwned`, `CarriedOwned`); no open socket is without owner and descriptor 0 is never
closed (`FileOwned`). None of the properties is inductive by itself: that two connections do not
meet in one descriptor needs that the worker in `close()` is the only one with its object, which
needs that events are handed out once, which needs that the epoll set names owners only, which
needs `OneOwner`. From them: `TypeOK`, `OneOwner`, `AvailClean`, `StdinNeedsAccept`,
`AbortNeedsRace`, for any number of workers, clients, objects and descriptors. The two were checked by TLC
on the instance of `LinuxServerSafety`, also with a client that resets. Assumptions: main is no
worker, the preallocated objects are objects, the null values, the acceptor and the descriptors
differ, there is a descriptor besides 0.

*WinSockServer.* Up to the first overlap: each connection and the acceptor has one operation or
one packet at most (`JobInv`) and is in one hand at most (`HandInv`); what is under way on a
connection in a hand is determined by where the thread is (`Stage`), on one in no hand by its
state, and an available one is idle (`ConnInv`); who is at the other end (`PeerInv`);
`m_readBuf` begins with a zero when a connection begins to read, answers with no bytes,
disconnects or serves nobody (`EmptyInv`), and the bytes in it are the client's or of clients
that sent a zero or had data zeroed (`BytesInv`); what an ended read, a write of no bytes and a
disconnect are evidence of, and whose data waits to be sent (`DataInv`). `OneOperation` is not inductive without `Stage`: between
posting an operation and `SwitchTo` state and operation differ. From it: `TypeOK`,
`OneOperation`, `AssertNeedsOverlap`, `DisconnectNeedsClose`, `EchoIntact`. Assumptions: threads
are finitely many, at least one connection is preallocated, the null values differ.

*AsioServer.* A client is waiting, then with one thread, then under one operation
(`ConnInv`); the accept is under way or with one thread unless `Start` has thrown
(`AcceptInv`); and a line that was not torn is unread, in `m_data` at the start of an answer, or
in the answer (`LineInv`). From it: `TypeOK`, `OneChain`, `AnswerIsTyped`. Assumption: the null
value is no client.

*SingleInstance.* The inductive invariant says when a process has something open (`HeldInv`: only
a Windows process whose `CreateMutex` failed runs with nothing),
that the lock of a file is exactly the running process's (`LockInv`), and that what is open has
the name, a mutex as long as it is open (`NameInv`, on Linux unless `window`). Without the last
two `OneInstance` is not inductive: a lock says nothing about a file the name does not lead to.
From it: `OneInstance` and `RefusedMeansRunning`, for any number of processes and files.
Assumptions: the null value is no process and no file, the systems are Linux and Windows.

Only model-checked: the liveness properties (fairness and ENABLED are out of the prover's
reach), and `TokensConserved`, a sum over the workers written as a fold, about which nothing can be
proved without induction over sets.

## 5. Not modelled

* The list of exceptions (`Show` iterates without the mutex): nothing depends on it, and what
  the race does is undefined.
* A signal handler on one thread while another is in `OnStop` of the Asio server or of the
  client (a double `freeaddrinfo`); a signal inside a critical section of `ConnectionManager`.
* `WaitForMultipleObjects` beyond 64 handles; `CThreadPool::Start` with a failing
  `_beginthreadex`; what a Windows server does after an overlap.
* `bad_alloc` in `AsioServer::StartListening`, which like `threw` ends accepting.
* The inside of Boost.Asio: `m_acceptor.close()` against `async_accept`, and the cycle of shared
  pointers a connection keeps to itself (a leak).
* A client that goes on after a failed call; option parsing; system error texts; `m_peerAddr`
  and `GetPeerInfo` (printing only, except that it can throw); the names made of the binary's.

## 6. Plan

1. `ServerLifecycle` with the connection manager's mutex and handlers on several threads.
