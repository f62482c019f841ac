------------------------ MODULE ServerLifecycleProofs ------------------------
(***************************************************************************)
(* Theorems about ServerLifecycle, for any number of workers: what         *)
(* IoManagerProofs shows of IoManager holds through the whole life of the  *)
(* server, also for the Stop of its destructor; and the server outlives    *)
(* its workers, as long as only the main thread runs OnStop.               *)
(***************************************************************************)
EXTENDS ServerLifecycle, IoManagerProofs

\* A worker that has been started and has not ended.
Active(w) == wpc[w] \notin Gone \cup {"new"}

\* Where main is between pthread_create and push_back.
ThInv == th # NoThread <=> mpc = "push"

\* OnStop finds each active worker in m_threads.
KnownInv == \A w \in Worker : Active(w) =>
              w = th \/ \E i \in 1 .. Len(m_threads) : m_threads[i] = w

\* The threads the join loop has passed have ended.
JoinInv == hpc[Main] = "join" =>
             \A i \in 1 .. Len(m_threads) : i < at[Main] => wpc[m_threads[i]] \in Gone

\* Once the destructor's OnStop has returned nobody is active.
EndInv == mpc = "destroyed" \/ (mpc = "stopping" /\ hpc[Main] = "none") =>
            \A w \in Worker : ~Active(w)

LifeInv == LifeTypeOK /\ ThInv /\ KnownInv /\ JoinInv /\ EndInv

-----------------------------------------------------------------------------
(* IoManager in its place. *)

\* The steps of the server in terms of those of IoManager: besides them, OnStop
\* returns from IoManager::Stop, and ~IoManager stops once more.
Returns == spc' \in [Stopper -> StopPhase]
             /\ UNCHANGED <<kernel, batches, wpc, val, m_threadCount, history>>

\* What ~IoManager does when a worker was left by an exception.
LastSignal ==
  /\ WriteEventfd(1) /\ signals' = signals + 1
  /\ UNCHANGED <<readyIo, batches, wpc, val, m_threadCount, spc, arrived, thrown,
                 tokenDropped>>

\* Each step of the server is one of IoManager, or leaves it alone, or is one of
\* those two.
LEMMA LifeSteps ==
  ASSUME IoTypeOK, [Next]_vars
  PROVE  [IoNext]_ioVars \/ Returns \/ LastSignal
<1>1. CASE MainStep
  <2>1. ASSUME NEW w \in Worker, CreateThread(w)
        PROVE  IoNext
    BY <2>1 DEF CreateThread, IoNext
  <2>2. CASE Destructor
    BY <2>2, LifeThreads DEF Destructor, IoNext
  <2>3. CASE Destroy
    BY <2>3 DEF Destroy, LastSignal
  <2>4. CASE FirstAccept \/ OnRunThrows \/ PushThread \/ Show
    BY <2>4 DEF FirstAccept, OnRunThrows, PushThread, Show
  <2> QED BY <1>1, <2>1, <2>2, <2>3, <2>4 DEF MainStep
<1>2. CASE KeyPressed \/ KernelEvent \/ UNCHANGED vars
  BY <1>2 DEF KeyPressed, KernelEvent, IoNext, vars
<1>3. ASSUME NEW w \in Worker, WorkerRuns(w)
      PROVE  [IoNext]_ioVars
  BY <1>3 DEF WorkerRuns, IoNext
<1>4. ASSUME NEW s \in Stopper, Signal(s) \/ OnStop(s)
      PROVE  [IoNext]_ioVars \/ Returns
  BY <1>4 DEF Signal, OnStop, IoStop, StartJoining, JoinNext, ClearThreads, IoNext, Returns,
              IoTypeOK, StopPhase
<1> QED BY <1>1, <1>2, <1>3, <1>4 DEF Next


\* Stop returning to OnStop touches nothing the workers see.
LEMMA ReturnsKeepsIo ==
  ASSUME IInv, Returns
  PROVE  IInv'
<1> USE DEF IInv, Returns, kernel, batches, history
<1>1. IoTypeOK'
  BY DEF IoTypeOK
<1>2. TokenInv'
  BY DEF TokenInv, HolderHasToken, BatchInLoop, NoTokenYet, OneCarrier, TokenAlive,
         OneStopNoFailure
<1>3. CountIsExact'
  BY CountKept
<1> QED BY <1>1, <1>2, <1>3 DEF TokenInv

\* The destructor's signal is a token like any other.
LEMMA LastSignalKeepsIo ==
  ASSUME IInv, LastSignal
  PROVE  IInv'
<1> USE DEF IInv, LastSignal, WriteEventfd, batches
<1>1. IoTypeOK'
  BY DEF IoTypeOK
<1>2. TokenInv'
  BY DEF TokenInv, HolderHasToken, BatchInLoop, NoTokenYet, OneCarrier, TokenAlive,
         OneStopNoFailure, IoTypeOK
<1>3. CountIsExact'
  BY CountKept
<1> QED BY <1>1, <1>2, <1>3 DEF TokenInv

\* IoManager keeps its promises wherever the server is in its life.
LEMMA IoStepInLife == IInv /\ [Next]_vars => IInv'
  BY LifeSteps, NextIInv, ReturnsKeepsIo, LastSignalKeepsIo DEF IInv

\* In the whole life of the server: the exit token stays alive, m_threadCount is
\* exact, one Stop is clean.
THEOREM IoInvariantInLife == Spec => []IInv
<1>1. Init => IInv
  BY InitIInv DEF Init
<1> QED BY <1>1, IoStepInLife, PTL DEF Spec

\* TokenAlive, of IoManager inside the server.
THEOREM TokenStaysAliveInLife == Spec => []TokenAlive
<1>1. IInv => TokenAlive
  BY DEF IInv
<1> QED BY IoInvariantInLife, <1>1, PTL

\* CountIsExact, of IoManager inside the server: the destructor of IoManager
\* signals exactly when a worker was ended by an exception.
THEOREM ThreadCountExactInLife == Spec => []CountIsExact
<1>1. IInv => CountIsExact
  BY DEF IInv
<1> QED BY IoInvariantInLife, <1>1, PTL

-----------------------------------------------------------------------------
(* The threads and their end. *)

\* A worker becomes active when it is created and never again once it has ended.
LEMMA WorkerEnds ==
  ASSUME IoTypeOK, NEW w \in Worker, RunStep(w)
  PROVE  \A u \in Worker : /\ wpc[u] \in Gone => wpc'[u] \in Gone
                           /\ Active(u)' => Active(u)
  BY DEF RunStep, Harvest, CompleteIo, CompleteThrows, Again, ReadToken, ReadNothing,
         WriteToken, Leave, Go, Active, Gone, IoTypeOK, WorkerPhase

\* Every variable keeps its type.
LEMMA LifeTypeStep ==
  ASSUME IInv, LifeTypeOK, ThInv, [Next]_vars
  PROVE  LifeTypeOK'
<1>1. IoTypeOK'
  BY IoStepInLife DEF IInv
<1> USE LifeThreads DEF LifeTypeOK, MainPhase, MainGo, stops
<1>2. CASE MainStep
  <2>1. ASSUME NEW w \in Worker, CreateThread(w)
        PROVE  LifeTypeOK'
    BY <1>1, <2>1 DEF CreateThread
  <2>2. CASE Destructor
    BY <1>1, <2>2 DEF Destructor
  <2>3. CASE PushThread
    <3>1. th \in Worker /\ m_threads' = Append(m_threads, th)
      BY <2>3 DEF PushThread, ThInv
    <3> QED BY <1>1, <2>3, <3>1 DEF PushThread
  <2>4. CASE FirstAccept \/ OnRunThrows \/ Show \/ Destroy
    BY <1>1, <2>4 DEF FirstAccept, OnRunThrows, Show, Destroy
  <2> QED BY <1>2, <2>1, <2>2, <2>3, <2>4 DEF MainStep
<1>3. CASE KeyPressed \/ KernelEvent \/ UNCHANGED vars
  BY <1>1, <1>3 DEF KeyPressed, KernelEvent, vars, lifeVars
<1>4. ASSUME NEW w \in Worker, WorkerRuns(w)
      PROVE  LifeTypeOK'
  BY <1>1, <1>4 DEF WorkerRuns
<1>5. ASSUME NEW s \in Stopper, Signal(s)
      PROVE  LifeTypeOK'
  BY <1>1, <1>5 DEF Signal
<1>6. ASSUME NEW s \in Stopper, OnStop(s)
      PROVE  LifeTypeOK'
  <2>1. CASE ClearThreads(s)
    BY <1>1, <2>1 DEF ClearThreads
  <2>2. CASE JoinNext(s)
    BY <1>1, <2>2 DEF JoinNext
  <2>3. CASE IoStop(s) \/ StartJoining(s)
    BY <1>1, <2>3 DEF IoStop, StartJoining, lifeVars
  <2> QED BY <1>6, <2>1, <2>2, <2>3 DEF OnStop
<1> QED BY <1>2, <1>3, <1>4, <1>5, <1>6 DEF Next

\* Only main creates threads, and only while nobody is between its two steps.
LEMMA ThStep ==
  ASSUME LifeTypeOK, ThInv, [Next]_vars
  PROVE  ThInv'
<1> USE LifeThreads DEF LifeTypeOK, ThInv, MainGo, stops
<1>1. CASE MainStep
  BY <1>1 DEF MainStep, FirstAccept, OnRunThrows, PushThread, Show, Destructor, Destroy,
              CreateThread
<1>2. CASE KeyPressed \/ KernelEvent \/ UNCHANGED vars
  BY <1>2 DEF KeyPressed, KernelEvent, vars, lifeVars
<1>3. ASSUME NEW w \in Worker, WorkerRuns(w)
      PROVE  ThInv'
  BY <1>3 DEF WorkerRuns
<1>4. ASSUME NEW s \in Stopper, Signal(s) \/ OnStop(s)
      PROVE  ThInv'
  BY <1>4 DEF Signal, OnStop, IoStop, StartJoining, JoinNext, ClearThreads, lifeVars
<1> QED BY <1>1, <1>2, <1>3, <1>4 DEF Next

\* An active worker is in m_threads, or main is about to put it there; the list
\* is cleared when those in it have ended.
LEMMA KnownStep ==
  ASSUME LifeInv, SignalTargets \subseteq {Main}, [Next]_vars
  PROVE  KnownInv'
<1> USE LifeThreads DEF LifeInv, LifeTypeOK, KnownInv, MainGo, stops, ioVars
<1>1. ASSUME NEW w \in Worker, CreateThread(w)
      PROVE  KnownInv'
  BY <1>1 DEF CreateThread, Enter, Go, Active, ThInv, IoTypeOK
<1>2. CASE PushThread
  <2>1. /\ th \in Worker /\ m_threads' = Append(m_threads, th) /\ wpc' = wpc
    BY <1>2 DEF PushThread, ThInv
  <2>2. /\ Len(m_threads') = Len(m_threads) + 1 /\ m_threads'[Len(m_threads) + 1] = th
        /\ \A i \in 1 .. Len(m_threads) : m_threads'[i] = m_threads[i]
    BY <2>1
  <2> SUFFICES ASSUME NEW w \in Worker, Active(w)
               PROVE  \E i \in 1 .. Len(m_threads') : m_threads'[i] = w
    BY <2>1 DEF Active
  <2>3. CASE w = th
    BY <2>2, <2>3
  <2>4. CASE w # th
    <3>1. PICK i \in 1 .. Len(m_threads) : m_threads[i] = w
      BY <2>4
    <3> QED BY <2>2, <3>1
  <2> QED BY <2>3, <2>4
<1>3. CASE FirstAccept \/ OnRunThrows \/ Show \/ Destructor \/ Destroy \/ KeyPressed
             \/ KernelEvent \/ UNCHANGED vars
  BY <1>3 DEF FirstAccept, OnRunThrows, Show, Destructor, Destroy, KeyPressed, KernelEvent,
              CallStop, Arrive, vars, lifeVars, Active
<1>4. ASSUME NEW w \in Worker, WorkerRuns(w)
      PROVE  KnownInv'
  BY <1>4, WorkerEnds DEF WorkerRuns
<1>5. ASSUME NEW s \in Stopper, ClearThreads(s)
      PROVE  KnownInv'
  <2>1. s = Main /\ hpc[Main] = "join" /\ at[Main] > Len(m_threads)
        /\ th' = th /\ wpc' = wpc
    BY <1>5 DEF ClearThreads
  <2>2. \A i \in 1 .. Len(m_threads) : wpc[m_threads[i]] \in Gone
    BY <2>1 DEF JoinInv
  <2> QED BY <2>1, <2>2 DEF Active
<1>6. ASSUME NEW s \in Stopper, Signal(s) \/ IoStop(s) \/ StartJoining(s) \/ JoinNext(s)
      PROVE  KnownInv'
  BY <1>6 DEF Signal, IoStop, StopStep, StopReturns, StopGoesOn, StopSignals, StartJoining,
              JoinNext, CallStop, lifeVars, Active
<1> QED BY <1>1, <1>2, <1>3, <1>4, <1>5, <1>6 DEF Next, MainStep, OnStop

\* With nobody else in OnStop, pthread_join returns only when the thread has ended.
LEMMA JoinStep ==
  ASSUME LifeInv, SignalTargets \subseteq {Main}, [Next]_vars
  PROVE  JoinInv'
<1> USE LifeThreads DEF LifeInv, LifeTypeOK, JoinInv, MainGo, stops, ioVars
<1>1. CASE MainStep
  BY <1>1 DEF MainStep, FirstAccept, OnRunThrows, PushThread, Show, Destructor, Destroy,
              CreateThread
<1>2. CASE KeyPressed \/ KernelEvent \/ UNCHANGED vars
  BY <1>2 DEF KeyPressed, KernelEvent, Arrive, vars, lifeVars
<1>3. ASSUME NEW w \in Worker, WorkerRuns(w)
      PROVE  JoinInv'
  BY <1>3, WorkerEnds DEF WorkerRuns
<1>4. ASSUME NEW s \in Stopper, JoinNext(s)
      PROVE  JoinInv'
  <2>1. /\ s = Main /\ at' = [at EXCEPT ![Main] = @ + 1]
        /\ UNCHANGED <<hpc, m_threads, wpc>>
        /\ hpc[Main] = "join"
    BY <1>4 DEF JoinNext
  <2>2. at[Main] \in 1 .. Len(m_threads) => wpc[m_threads[at[Main]]] \in Gone
    BY <1>4, <2>1 DEF JoinNext, Joined
  <2> QED BY <2>1, <2>2
<1>5. ASSUME NEW s \in Stopper, Signal(s) \/ IoStop(s) \/ StartJoining(s) \/ ClearThreads(s)
      PROVE  JoinInv'
  BY <1>5 DEF Signal, IoStop, StopStep, StopReturns, StopGoesOn, StopSignals, StartJoining,
              ClearThreads, CallStop, lifeVars
<1> QED BY <1>1, <1>2, <1>3, <1>4, <1>5 DEF Next, OnStop

\* The destructor goes on when OnStop has joined every thread there is.
LEMMA EndStep ==
  ASSUME LifeInv, SignalTargets \subseteq {Main}, [Next]_vars
  PROVE  EndInv'
<1> USE LifeThreads DEF LifeInv, LifeTypeOK, EndInv, MainGo, stops, ioVars
<1>1. CASE MainStep
  BY <1>1 DEF MainStep, FirstAccept, OnRunThrows, PushThread, Show, Destructor, Destroy,
              CreateThread, Active
<1>2. CASE KeyPressed \/ KernelEvent \/ UNCHANGED vars
  BY <1>2 DEF KeyPressed, KernelEvent, Arrive, vars, lifeVars, Active
<1>3. ASSUME NEW w \in Worker, WorkerRuns(w)
      PROVE  EndInv'
  BY <1>3, WorkerEnds DEF WorkerRuns
<1>4. ASSUME NEW s \in Stopper, ClearThreads(s), Alive
      PROVE  EndInv'
  <2>1. s = Main /\ hpc[Main] = "join" /\ at[Main] > Len(m_threads)
        /\ mpc' = mpc /\ wpc' = wpc /\ mpc # "destroyed"
    BY <1>4 DEF ClearThreads, Alive
  <2>2. \A i \in 1 .. Len(m_threads) : wpc[m_threads[i]] \in Gone
    BY <2>1 DEF JoinInv
  <2>3. mpc = "stopping" => \A w \in Worker : ~Active(w)
    BY <2>2 DEF KnownInv, ThInv, Active
  <2> QED BY <2>1, <2>3 DEF Active
<1>5. ASSUME NEW s \in Stopper, Signal(s) \/ IoStop(s) \/ StartJoining(s) \/ JoinNext(s),
             Alive
      PROVE  EndInv'
  BY <1>5 DEF Signal, IoStop, StopStep, StopReturns, StopGoesOn, StopSignals, StartJoining,
              JoinNext, CallStop, lifeVars, Active, Alive
<1> QED BY <1>1, <1>2, <1>3, <1>4, <1>5 DEF Next, OnStop, Signal

\* Before DoAccept there is no thread.
LEMMA LifeInit == Init => LifeInv
<1> SUFFICES ASSUME Init
             PROVE  LifeInv
  OBVIOUS
<1>1. IoTypeOK
  BY InitIInv DEF Init, IInv
<1>2. LifeTypeOK
  BY <1>1, LifeThreads DEF LifeTypeOK, Init, MainPhase
<1>3. ThInv /\ KnownInv /\ JoinInv /\ EndInv
  BY LifeThreads DEF ThInv, KnownInv, JoinInv, EndInv, Init, IoInit, Active
<1> QED BY <1>2, <1>3 DEF LifeInv

\* Every variable has its type, whoever runs OnStop.
THEOREM LifeTypeCorrect == Spec => []LifeTypeOK
<1> DEFINE Inv == IInv /\ LifeTypeOK /\ ThInv
<1>1. Init => Inv
  BY InitIInv, LifeInit DEF LifeInv, Init
<1>2. Inv /\ [Next]_vars => Inv'
  BY IoStepInLife, LifeTypeStep, ThStep
<1>3. Inv => LifeTypeOK
  OBVIOUS
<1> QED BY <1>1, <1>2, <1>3, PTL DEF Spec

\* The kernel gives a signal to the main thread as long as that one does not block
\* it: then only main runs OnStop, and all the parts of LifeInv are kept.
LEMMA LifeInvariance ==
  ASSUME SignalTargets \subseteq {Main}
  PROVE  Spec => [](IInv /\ LifeInv)
<1>1. Init => IInv /\ LifeInv
  BY InitIInv, LifeInit DEF Init
<1>2. IInv /\ LifeInv /\ [Next]_vars => (IInv /\ LifeInv)'
  <2> SUFFICES ASSUME IInv, LifeInv, [Next]_vars
               PROVE  IInv' /\ LifeInv'
    OBVIOUS
  <2>1. IInv'
    BY IoStepInLife
  <2>2. LifeTypeOK' /\ ThInv'
    BY LifeTypeStep, ThStep DEF LifeInv
  <2>3. KnownInv' /\ JoinInv' /\ EndInv'
    BY KnownStep, JoinStep, EndStep
  <2> QED BY <2>1, <2>2, <2>3 DEF LifeInv
<1> QED BY <1>1, <1>2, PTL DEF Spec

\* DestroyedAfterWorkers: with OnStop on the main thread only, the server object
\* goes when no worker can touch it, also after exceptions of main or of workers.
THEOREM DestroyedAfterWorkersHolds ==
  ASSUME SignalTargets \subseteq {Main}
  PROVE  Spec => []DestroyedAfterWorkers
<1>1. LifeInv => DestroyedAfterWorkers
  BY DEF LifeInv, EndInv, Active, DestroyedAfterWorkers
<1> QED BY LifeInvariance, <1>1, PTL

\* ClearedWhenInactive: with OnStop on the main thread only, m_threads is cleared
\* when each thread in it has ended, as its comment says.
THEOREM ClearedWhenInactiveHolds ==
  ASSUME SignalTargets \subseteq {Main}
  PROVE  Spec => ClearedWhenInactive
<1> DEFINE Done == m_threads' = <<>> => \A i \in DOMAIN m_threads : wpc[m_threads[i]] \in Gone
<1>1. LifeInv /\ [Next]_vars => [Done]_vars
  <2> SUFFICES ASSUME LifeInv, [Next]_vars, m_threads' = <<>>,
                      NEW i \in DOMAIN m_threads
               PROVE  wpc[m_threads[i]] \in Gone
    OBVIOUS
  <2> USE LifeThreads DEF LifeInv, LifeTypeOK
  <2>1. m_threads' # m_threads /\ i \in 1 .. Len(m_threads)
    OBVIOUS
  <2>2. CASE PushThread
    <3>1. th \in Worker /\ m_threads' = Append(m_threads, th)
      BY <2>2 DEF PushThread, ThInv, MainGo
    <3>2. Len(m_threads') = Len(m_threads) + 1
      BY <3>1
    <3> QED BY <3>2
  <2>3. ASSUME NEW s \in Stopper, ClearThreads(s)
        PROVE  wpc[m_threads[i]] \in Gone
    <3>1. hpc[Main] = "join" /\ at[Main] > Len(m_threads)
      BY <2>3 DEF ClearThreads
    <3> QED BY <2>1, <3>1 DEF JoinInv
  <2>4. \/ PushThread
        \/ \E s \in Stopper : ClearThreads(s)
    BY <2>1 DEF Next, MainStep, FirstAccept, OnRunThrows, Show, Destructor, Destroy,
                CreateThread, KeyPressed, KernelEvent, WorkerRuns, Signal, OnStop, IoStop,
                StartJoining, JoinNext, vars, lifeVars
  <2> QED BY <2>2, <2>3, <2>4
<1> QED BY LifeInvariance, <1>1, PTL DEF Spec, ClearedWhenInactive

=============================================================================
