--------------------------- MODULE ServerLifecycle ---------------------------
(***************************************************************************)
(* The life of SystemServer on Linux: AppLogic::Run on the main thread     *)
(* (DoAccept, ThreadPool::Start, wait for a key), the workers of IoManager *)
(* and OnStop, which the destructor calls on the main thread and the       *)
(* signal handler of LinuxTerminationLogic on whatever thread the kernel   *)
(* chose.  A thread is stopped in its tracks while it runs the handler.    *)
(*                                                                         *)
(* Bounds: at most MaxSignals signals.  None is delivered to a thread that *)
(* is already inside OnStop, nor after the server object is gone.          *)
(***************************************************************************)
EXTENDS IoManager, Sequences

CONSTANTS
  Main,           \* the main thread
  NoThread,       \* no thread
  SignalTargets,  \* threads a signal may be delivered to
  MaxSignals,     \* bound: signals delivered
  MainMayThrow    \* may DoAccept or pthread_create fail on the main thread

ASSUME LifeThreads ==
  /\ Main \notin Worker
  /\ NoThread \notin Worker \cup {Main}
  /\ SignalTargets \subseteq Worker \cup {Main}
  /\ Stopper = SignalTargets \cup {Main}
ASSUME LifeBounds == MaxSignals \in Nat /\ MainMayThrow \in BOOLEAN

VARIABLES
  mpc,        \* where main is in RUN_APP
  th,         \* the pthread_t Start has just created
  m_threads,  \* the threads of the pool, in order of creation
  hpc,        \* where each thread is in OnStop: not in it, in IoManager::Stop,
              \* or in ThreadPool::Stop
  at,         \* position of the join loop of ThreadPool::Stop
  sigs        \* history: signals delivered (bounded by MaxSignals)

lifeVars == <<mpc, th, m_threads, hpc, at, sigs>>
stops == <<hpc, at, sigs>>
vars == <<ioVars, lifeVars>>

MainPhase == {"doAccept", "start", "push", "key", "show", "dtor", "stopping", "destroyed"}

Init ==
  /\ IoInit
  /\ mpc = "doAccept"
  /\ th = NoThread
  /\ m_threads = <<>>
  /\ hpc = [s \in Stopper |-> "none"]
  /\ at = [s \in Stopper |-> 1]
  /\ sigs = 0

\* Thread t runs its own code: it is not inside a signal handler.
Running(t) == t \in Stopper => hpc[t] = "none"

\* The process ends with the server object, wherever its threads are.
Alive == mpc # "destroyed"

MainGo(from, to) == mpc = from /\ mpc' = to /\ hpc[Main] = "none"

-----------------------------------------------------------------------------
(* OnRun, Run and the end of RUN_APP on the main thread. *)

FirstAccept ==
  /\ MainGo("doAccept", "start")
  /\ UNCHANGED <<ioVars, th, m_threads, stops>>

\* An exception leaves OnRun; the catch of Run appends it and goes on.
OnRunThrows ==
  /\ MainMayThrow
  /\ MainGo("doAccept", "show") \/ MainGo("start", "show")
  /\ UNCHANGED <<ioVars, th, m_threads, stops>>

\* ThreadPool::Start: pthread_create, then push_back.
CreateThread(w) ==
  /\ MainGo("start", "push")
  /\ Enter(w)
  /\ th' = w
  /\ UNCHANGED <<m_threads, stops>>

PushThread ==
  /\ MainGo("push", IF \A w \in Worker : wpc[w] # "new"
                    THEN "key" ELSE "start")
  /\ m_threads' = Append(m_threads, th)
  /\ th' = NoThread
  /\ UNCHANGED <<ioVars, stops>>

KeyPressed ==
  /\ MainGo("key", "show")
  /\ UNCHANGED <<ioVars, th, m_threads, stops>>

\* Run: if an exception occurred, Show prints those there are.  What is printed
\* changes nothing here.
Show ==
  /\ MainGo("show", "dtor")
  /\ UNCHANGED <<ioVars, th, m_threads, stops>>

\* mutant: OnStop joins the threads before it stops the IO manager
DestructorJoinsFirst ==
  /\ MainGo("dtor", "stopping")
  /\ hpc' = [hpc EXCEPT ![Main] = "join"]
  /\ at' = [at EXCEPT ![Main] = 1]
  /\ UNCHANGED <<ioVars, th, m_threads, sigs>>

\* The scoped pointer deletes the server: ~SystemServer calls Stop.
Destructor ==
  /\ MainGo("dtor", "stopping")
  /\ CallStop(Main)
  /\ hpc' = [hpc EXCEPT ![Main] = "io"]
  /\ UNCHANGED <<th, m_threads, at, sigs>>

\* The rest of ~SystemServer: acceptor, connections, and ~IoManager, which calls
\* IoManager::Stop once more; main returns and the process ends.
Destroy ==
  /\ mpc = "stopping"
  /\ hpc[Main] = "none"
  /\ mpc' = "destroyed"
  /\ IF m_threadCount = 0 THEN UNCHANGED ioVars
     ELSE /\ WriteEventfd(1)
          /\ signals' = signals + 1
          /\ UNCHANGED <<readyIo, batches, wpc, val, m_threadCount, spc,
                         arrived, thrown, tokenDropped>>
  /\ UNCHANGED <<th, m_threads, stops>>

-----------------------------------------------------------------------------
(* The workers: IoManager's Run, and the catch of AsyncWorkCallback. *)

WorkerRuns(w) ==
  /\ Alive /\ Running(w)
  /\ RunStep(w)
  /\ UNCHANGED <<mpc, th, m_threads, stops>>

KernelEvent ==
  /\ Alive
  /\ Arrive
  /\ UNCHANGED lifeVars

-----------------------------------------------------------------------------
(* OnStop on thread s: m_ioMgr.Stop(), then m_threadPool.Stop(). *)

\* The handler calls AppLogic::Stop, which calls OnStop.
Signal(s) ==
  /\ Alive
  /\ s \in SignalTargets
  /\ sigs < MaxSignals
  /\ hpc[s] = "none"
  /\ IF s = Main THEN mpc # "stopping" ELSE wpc[s] \notin Gone \cup {"new"}
  /\ sigs' = sigs + 1
  /\ CallStop(s)
  /\ hpc' = [hpc EXCEPT ![s] = "io"]
  /\ UNCHANGED <<mpc, th, m_threads, at>>

IoStop(s) ==
  /\ hpc[s] = "io"
  /\ StopStep(s)
  /\ UNCHANGED lifeVars

StartJoining(s) ==
  /\ hpc[s] = "io"
  /\ spc[s] = "returned"
  /\ spc' = [spc EXCEPT ![s] = "none"]
  /\ hpc' = [hpc EXCEPT ![s] = "join"]
  /\ at' = [at EXCEPT ![s] = 1]
  /\ UNCHANGED <<kernel, batches, wpc, val, m_threadCount, history,
                 mpc, th, m_threads, sigs>>

\* mutant: the threads are not joined
JoinNone(s) ==
  /\ hpc[s] = "join"
  /\ at[s] <= Len(m_threads)
  /\ at' = [at EXCEPT ![s] = Len(m_threads) + 1]
  /\ UNCHANGED <<ioVars, mpc, th, m_threads, hpc, sigs>>

\* pthread_join waits for the thread to end.  It fails at once for the calling
\* thread itself (EDEADLK) and for one another thread is joining (EINVAL).
Joined(s) == m_threads[at[s]]
JoinNext(s) ==
  /\ hpc[s] = "join"
  /\ at[s] <= Len(m_threads)
  /\ \/ wpc[Joined(s)] \in Gone
     \/ Joined(s) = s
     \/ \E u \in Stopper \ {s} : /\ hpc[u] = "join"
                                 /\ at[u] <= Len(m_threads)
                                 /\ Joined(u) = Joined(s)
  /\ at' = [at EXCEPT ![s] = @ + 1]
  /\ UNCHANGED <<ioVars, mpc, th, m_threads, hpc, sigs>>

\* m_threads.clear(), and OnStop returns.
ClearThreads(s) ==
  /\ hpc[s] = "join"
  /\ at[s] > Len(m_threads)
  /\ m_threads' = <<>>
  /\ hpc' = [hpc EXCEPT ![s] = "none"]
  /\ UNCHANGED <<ioVars, mpc, th, at, sigs>>

OnStop(s) == Alive /\ (IoStop(s) \/ StartJoining(s) \/ JoinNext(s) \/ ClearThreads(s))

-----------------------------------------------------------------------------
MainStep ==
  \/ FirstAccept \/ OnRunThrows \/ PushThread \/ Show \/ Destructor \/ Destroy
  \/ \E w \in Worker : CreateThread(w)

Next ==
  \/ MainStep \/ KeyPressed \/ KernelEvent
  \/ \E w \in Worker : WorkerRuns(w)
  \/ \E s \in Stopper : Signal(s) \/ OnStop(s)

Spec == Init /\ [][Next]_vars

\* Threads are scheduled while the process lives; the key, the signals and the
\* sockets are the environment's.
Fairness ==
  /\ WF_vars(MainStep)
  /\ \A w \in Worker : WF_vars(WorkerRuns(w))
  /\ \A s \in Stopper : WF_vars(OnStop(s))

FairSpec == Spec /\ Fairness

-----------------------------------------------------------------------------
(* Correctness. *)

\* Every variable has its type.
LifeTypeOK ==
  /\ IoTypeOK
  /\ mpc \in MainPhase
  /\ th \in Worker \cup {NoThread}
  /\ m_threads \in Seq(Worker)
  /\ hpc \in [Stopper -> {"none", "io", "join"}]
  /\ at \in [Stopper -> Nat]
  /\ sigs \in Nat

\* The comment in ThreadPool::Stop: the list of threads is cleared since there
\* is no more active thread.
ClearedWhenInactive ==
  [][m_threads' = <<>> => \A i \in DOMAIN m_threads : wpc[m_threads[i]] \in Gone]_vars

\* The server object is destroyed only when no worker can touch it any more.
DestroyedAfterWorkers ==
  mpc = "destroyed" => \A w \in Worker : wpc[w] \in Gone \cup {"new"}

\* OnStop ends on whatever thread it runs, unless the exit event was lost with
\* the batch of a worker that threw.
StopCompletes ==
  \A s \in Stopper : hpc[s] # "none" ~> (hpc[s] = "none" \/ tokenDropped)

=============================================================================
