------------------------------ MODULE IoManager ------------------------------
(***************************************************************************)
(* The Linux IoManager: the workers' epoll loop (Run), the eventfd that    *)
(* ends it (Exiter) and Stop.  Stop puts one token into the eventfd; the   *)
(* worker that gets the exit event takes the token out, puts it back for   *)
(* the next worker and leaves, so one token ends every worker in turn.     *)
(*                                                                         *)
(* The kernel's ready list is abstracted to the number of IO events in it  *)
(* and whether the exit event is in it.  epoll_wait takes all of it (the   *)
(* array has room for 65535 events) and a worker then completes the events *)
(* of its batch in any order: the order in a batch is the order of         *)
(* arrival, which nothing fixes.                                           *)
(***************************************************************************)
EXTENDS Integers, FiniteSets, FiniteSetsExt

CONSTANTS
  Worker,     \* the threads of the pool
  Stopper,    \* who may call Stop: the main thread, a signal handler
  MaxIo,      \* bound: IO events that arrive during a behaviour
  MaxThrow    \* bound: Complete calls of IO events that throw

ASSUME IoWorkers == IsFiniteSet(Worker)
ASSUME IoBounds == MaxIo \in Nat /\ MaxThrow \in Nat

VARIABLES
  counter,      \* value of the eventfd
  readyExit,    \* the exit event is in the ready list
  readyIo,      \* number of IO events in the ready list
  batchExit,    \* the exit event is in the events array of this worker
  batchIo,      \* IO events in the events array of this worker
  wpc,          \* where each worker is
  val,          \* Signal's local val
  m_threadCount,
  spc,          \* where each caller of Stop is
  arrived,      \* history: IO events so far (bounded by MaxIo)
  thrown,       \* history: IO events whose Complete threw (bounded by MaxThrow)
  signals,      \* history: Signal(true) calls so far
  tokenDropped  \* history: an exception discarded a batch with the exit event

kernel == <<counter, readyExit, readyIo>>
batches == <<batchExit, batchIo>>
history == <<arrived, thrown, signals, tokenDropped>>
ioVars == <<kernel, batches, wpc, val, m_threadCount, spc, history>>

\* new: not in Run yet; failed and again: ended by an exception of an IO event
\* and of eventfd_read (EAGAIN); exited: left Run by the exit event.
WorkerPhase == {"new", "wait", "batch", "write", "count", "exited", "failed", "again"}
Gone == {"exited", "failed", "again"}

StopPhase == {"none", "check", "signal", "returned"}

\* mutant: built for one thread less than the pool starts
IoInitOneLess ==
  /\ counter = 0 /\ readyExit = FALSE /\ readyIo = 0
  /\ batchExit = [w \in Worker |-> FALSE] /\ batchIo = [w \in Worker |-> 0]
  /\ wpc = [w \in Worker |-> "new"] /\ val = [w \in Worker |-> 0]
  /\ m_threadCount = Cardinality(Worker) - 1
  /\ spc = [s \in Stopper |-> "none"]
  /\ arrived = 0 /\ thrown = 0 /\ signals = 0 /\ tokenDropped = FALSE

IoInit ==
  /\ counter = 0
  /\ readyExit = FALSE
  /\ readyIo = 0
  /\ batchExit = [w \in Worker |-> FALSE]
  /\ batchIo = [w \in Worker |-> 0]
  /\ wpc = [w \in Worker |-> "new"]
  /\ val = [w \in Worker |-> 0]
  /\ m_threadCount = Cardinality(Worker)
  /\ spc = [s \in Stopper |-> "none"]
  /\ arrived = 0
  /\ thrown = 0
  /\ signals = 0
  /\ tokenDropped = FALSE

Go(w, from, to) == wpc[w] = from /\ wpc' = [wpc EXCEPT ![w] = to]

-----------------------------------------------------------------------------
(* The kernel: some socket becomes ready; the exit event is reported on the *)
(* edge of a write to the eventfd.                                          *)

Arrive ==
  /\ arrived < MaxIo
  /\ arrived' = arrived + 1
  /\ readyIo' = readyIo + 1
  /\ UNCHANGED <<counter, readyExit, batches, wpc, val, m_threadCount, spc,
                 thrown, signals, tokenDropped>>

WriteEventfd(n) == counter' = counter + n /\ readyExit' = TRUE

-----------------------------------------------------------------------------
(* Run *)

\* The thread function calls Run.
Enter(w) ==
  /\ Go(w, "new", "wait")
  /\ UNCHANGED <<kernel, batches, val, m_threadCount, spc, history>>

\* mutant: the eventfd is registered without EPOLLET
HarvestLevel(w) ==
  /\ Go(w, "wait", "batch")
  /\ readyIo > 0 \/ (readyExit /\ counter > 0)
  /\ batchIo' = [batchIo EXCEPT ![w] = readyIo]
  /\ batchExit' = [batchExit EXCEPT ![w] = readyExit /\ counter > 0]
  /\ readyIo' = 0
  /\ UNCHANGED <<counter, readyExit, val, m_threadCount, spc, history>>

\* epoll_wait returns; an exit event whose eventfd has been read meanwhile is
\* not reported.
Harvest(w) ==
  /\ Go(w, "wait", "batch")
  /\ readyIo > 0 \/ (readyExit /\ counter > 0)
  /\ batchIo' = [batchIo EXCEPT ![w] = readyIo]
  /\ batchExit' = [batchExit EXCEPT ![w] = readyExit /\ counter > 0]
  /\ readyIo' = 0
  /\ readyExit' = FALSE
  /\ UNCHANGED <<counter, val, m_threadCount, spc, history>>

\* Complete of a connection or of the acceptor returns true.
CompleteIo(w) ==
  /\ wpc[w] = "batch"
  /\ batchIo[w] > 0
  /\ batchIo' = [batchIo EXCEPT ![w] = @ - 1]
  /\ UNCHANGED <<kernel, batchExit, wpc, val, m_threadCount, spc, history>>

\* mutant: the worker is also counted off when an exception ends it
ThrowCounts(w) ==
  /\ Go(w, "batch", "failed")
  /\ batchIo[w] > 0
  /\ thrown < MaxThrow
  /\ thrown' = thrown + 1
  /\ tokenDropped' = (tokenDropped \/ batchExit[w])
  /\ batchIo' = [batchIo EXCEPT ![w] = 0]
  /\ batchExit' = [batchExit EXCEPT ![w] = FALSE]
  /\ m_threadCount' = m_threadCount - 1
  /\ UNCHANGED <<kernel, val, spc, arrived, signals>>

\* Complete throws (read, write, accept or epoll_ctl failed): the exception
\* leaves Run with the rest of the batch, and m_threadCount keeps counting w.
CompleteThrows(w) ==
  /\ Go(w, "batch", "failed")
  /\ batchIo[w] > 0
  /\ thrown < MaxThrow
  /\ thrown' = thrown + 1
  /\ tokenDropped' = (tokenDropped \/ batchExit[w])
  /\ batchIo' = [batchIo EXCEPT ![w] = 0]
  /\ batchExit' = [batchExit EXCEPT ![w] = FALSE]
  /\ UNCHANGED <<kernel, val, m_threadCount, spc, arrived, signals>>

\* The batch is done: back to epoll_wait.
Again(w) ==
  /\ Go(w, "batch", "wait")
  /\ batchIo[w] = 0
  /\ ~batchExit[w]
  /\ UNCHANGED <<kernel, batches, val, m_threadCount, spc, history>>

\* Exiter::Complete, Signal(false): eventfd_read takes the whole counter.
ReadToken(w) ==
  /\ Go(w, "batch", "write")
  /\ batchExit[w]
  /\ counter > 0
  /\ val' = [val EXCEPT ![w] = counter]
  /\ counter' = 0
  /\ batchIo' = [batchIo EXCEPT ![w] = 0]
  /\ batchExit' = [batchExit EXCEPT ![w] = FALSE]
  /\ UNCHANGED <<readyExit, readyIo, m_threadCount, spc, history>>

\* eventfd_read finds the counter at zero (EAGAIN) and Signal throws.
ReadNothing(w) ==
  /\ Go(w, "batch", "again")
  /\ batchExit[w]
  /\ counter = 0
  /\ batchIo' = [batchIo EXCEPT ![w] = 0]
  /\ batchExit' = [batchExit EXCEPT ![w] = FALSE]
  /\ UNCHANGED <<kernel, val, m_threadCount, spc, history>>

\* mutant: the value read is not written back
KeepToken(w) ==
  /\ Go(w, "write", "count")
  /\ val' = [val EXCEPT ![w] = 0]
  /\ UNCHANGED <<kernel, batches, m_threadCount, spc, history>>

\* mutant: one is written back, whatever was read
WriteOne(w) ==
  /\ Go(w, "write", "count")
  /\ WriteEventfd(1)
  /\ val' = [val EXCEPT ![w] = 0]
  /\ UNCHANGED <<readyIo, batches, m_threadCount, spc, history>>

\* eventfd_write(val) wakes up the next thread.
WriteToken(w) ==
  /\ Go(w, "write", "count")
  /\ WriteEventfd(val[w])
  /\ val' = [val EXCEPT ![w] = 0]
  /\ UNCHANGED <<readyIo, batches, m_threadCount, spc, history>>

\* fetch_sub and return.
Leave(w) ==
  /\ Go(w, "count", "exited")
  /\ m_threadCount' = m_threadCount - 1
  /\ UNCHANGED <<kernel, batches, val, spc, history>>

-----------------------------------------------------------------------------
(* Stop *)

\* compare_exchange_strong(expected = 0): nothing to stop.
StopReturns(s) ==
  /\ spc[s] = "check"
  /\ m_threadCount = 0
  /\ spc' = [spc EXCEPT ![s] = "returned"]
  /\ UNCHANGED <<kernel, batches, wpc, val, m_threadCount, history>>

StopGoesOn(s) ==
  /\ spc[s] = "check"
  /\ m_threadCount # 0
  /\ spc' = [spc EXCEPT ![s] = "signal"]
  /\ UNCHANGED <<kernel, batches, wpc, val, m_threadCount, history>>

\* Signal(true)
StopSignals(s) ==
  /\ spc[s] = "signal"
  /\ spc' = [spc EXCEPT ![s] = "returned"]
  /\ WriteEventfd(1)
  /\ signals' = signals + 1
  /\ UNCHANGED <<readyIo, batches, wpc, val, m_threadCount, arrived, thrown, tokenDropped>>

CallStop(s) ==
  /\ spc[s] = "none"
  /\ spc' = [spc EXCEPT ![s] = "check"]
  /\ UNCHANGED <<kernel, batches, wpc, val, m_threadCount, history>>

-----------------------------------------------------------------------------
RunStep(w) ==
  \/ Harvest(w) \/ CompleteIo(w) \/ CompleteThrows(w) \/ Again(w)
  \/ ReadToken(w) \/ ReadNothing(w) \/ WriteToken(w) \/ Leave(w)

StopStep(s) == StopReturns(s) \/ StopGoesOn(s) \/ StopSignals(s)

IoNext ==
  \/ Arrive
  \/ \E w \in Worker : Enter(w) \/ RunStep(w)
  \/ \E s \in Stopper : CallStop(s) \/ StopStep(s)

IoSpec == IoInit /\ [][IoNext]_ioVars

\* Threads are scheduled; nothing obliges a socket to become ready or anybody
\* to call Stop.
IoFairness ==
  /\ \A w \in Worker : WF_ioVars(Enter(w)) /\ WF_ioVars(RunStep(w))
  /\ \A s \in Stopper : WF_ioVars(StopStep(s))

IoFairSpec == IoSpec /\ IoFairness

-----------------------------------------------------------------------------
(* Correctness. *)

\* Every variable has its type.
IoTypeOK ==
  /\ counter \in Nat
  /\ readyExit \in BOOLEAN
  /\ readyIo \in Nat
  /\ batchExit \in [Worker -> BOOLEAN]
  /\ batchIo \in [Worker -> Nat]
  /\ wpc \in [Worker -> WorkerPhase]
  /\ val \in [Worker -> Nat]
  /\ m_threadCount \in Nat
  /\ spc \in [Stopper -> StopPhase]
  /\ arrived \in Nat
  /\ thrown \in Nat
  /\ signals \in Nat
  /\ tokenDropped \in BOOLEAN

\* Once Stop has signalled, the exit token is never lost: it is in the eventfd
\* or in the hands of the worker about to write it back, and while it is in the
\* eventfd some epoll_wait will report it or some worker has the event at hand.
\* The one exception is an IO event that throws ahead of the exit event in the
\* same batch.
TokenAlive ==
  /\ signals > 0 => counter > 0 \/ \E w \in Worker : wpc[w] = "write"
  /\ counter > 0 => \/ readyExit
                    \/ \E w \in Worker : batchExit[w]
                    \/ tokenDropped

\* Tokens are neither made nor destroyed by the workers that pass them on, so
\* the counter never exceeds the number of Stop calls.
TokensConserved ==
  counter + MapThenSumSet(LAMBDA w : val[w], Worker) = signals

\* m_threadCount is zero, and Stop returns without a signal, exactly when every
\* worker has left Run by the exit event.
CountIsExact ==
  m_threadCount = Cardinality({w \in Worker : wpc[w] # "exited"})

\* One Stop call never makes a worker fail: as long as Signal(true) ran once,
\* no worker finds the eventfd empty after it was given the exit event.
OneStopNoFailure ==
  signals <= 1 => \A w \in Worker : wpc[w] # "again"

\* After one Signal(true) every worker leaves its loop, unless an exception
\* discarded the exit event with the rest of a batch.
StopEndsAll ==
  signals > 0 ~> (tokenDropped \/ \A w \in Worker : wpc[w] \in Gone)

=============================================================================
