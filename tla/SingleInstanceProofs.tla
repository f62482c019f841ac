------------------------ MODULE SingleInstanceProofs ------------------------
(***************************************************************************)
(* Theorems about SingleInstance, for any processes and files: who holds a *)
(* file, who has its lock and where the name leads are tied together, as   *)
(* long as nobody acts in the gap of somebody else's two steps.            *)
(***************************************************************************)
EXTENDS SingleInstance, TLAPS

\* Where a process has the file or the mutex open.
Holding == IF Linux THEN {"opened", "running"} ELSE {"refusing", "running"}

\* Only a process on Windows can run with nothing: the one whose CreateMutex failed.
HeldInv ==
  \A p \in Process :
    /\ held[p] # None => pc[p] \in Holding
    /\ pc[p] \in Holding /\ held[p] = None => Windows /\ pc[p] = "running" /\ p \in unchecked
    /\ pc[p] = "closed" => Linux

\* The lock of a file: of the process that runs with it, and of nobody else.
LockInv ==
  Linux => \A f \in File, p \in Process :
             locked[f] = p <=> pc[p] = "running" /\ held[p] = f

\* What is open has the name; a mutex has its name as long as it is open.
NameInv ==
  /\ Windows \/ ~window => \A p \in Process : held[p] # None => held[p] = name
  /\ Windows /\ name # None => \E p \in Process : held[p] = name

IInv == TypeOK /\ HeldInv /\ LockInv /\ NameInv /\ OneInstance

\* Nothing is open or locked when nothing has been started.
LEMMA InitIInv == Init => IInv
  BY InstanceNone, InstanceSystems
  DEF Init, IInv, TypeOK, HeldInv, LockInv, NameInv, OneInstance,
      Holding, Linux, Windows

-----------------------------------------------------------------------------
(* Every step keeps the invariant: one lemma for each of its parts. *)

\* What a process can do.
ProcessStep(p) ==
  \/ Open(p) \/ OpenFails(p) \/ Flock(p) \/ FlockFails(p) \/ FlockError(p)
  \/ Close(p) \/ Remove(p) \/ Die(p)
  \/ OpenMutexNone(p) \/ OpenMutexDenied(p) \/ OpenMutex(p)
  \/ CreateMutex(p) \/ CreateMutexFails(p) \/ CloseHandle(p)

\* Files come from the bound, processes from those there are.
LEMMA TypeStep ==
  ASSUME TypeOK, NEW p \in Process, ProcessStep(p)
  PROVE  TypeOK'
<1>1. CASE Open(p) \/ CreateMutex(p)
  BY <1>1 DEF TypeOK, Open, CreateMutex, Make, Go
<1>2. CASE OpenFails(p) \/ OpenMutexNone(p) \/ OpenMutex(p) \/ FlockFails(p) \/ CloseHandle(p)
  BY <1>2 DEF TypeOK, OpenFails, OpenMutexNone, OpenMutex, FlockFails, CloseHandle, Go, Done
<1>3. CASE Flock(p) \/ FlockError(p) \/ OpenMutexDenied(p) \/ CreateMutexFails(p)
  BY <1>3 DEF TypeOK, Flock, FlockError, OpenMutexDenied, CreateMutexFails, Go, Done
<1>4. CASE Close(p) \/ Die(p) \/ Remove(p)
  BY <1>4 DEF TypeOK, Close, Die, Remove, Unlock, Go, Done
<1> QED BY <1>1, <1>2, <1>3, <1>4 DEF ProcessStep

\* A process has something open exactly between the step that opens it and the
\* one that closes it.
LEMMA HeldStep ==
  ASSUME TypeOK, HeldInv, NEW p \in Process, ProcessStep(p)
  PROVE  HeldInv'
<1> USE InstanceNone DEF TypeOK, HeldInv, Holding, Linux, Windows, Go
<1>1. CASE Open(p) \/ CreateMutex(p)
  BY <1>1 DEF Open, CreateMutex, Make
<1>2. CASE OpenFails(p) \/ OpenMutexNone(p) \/ OpenMutex(p) \/ Flock(p)
  BY <1>2 DEF OpenFails, OpenMutexNone, OpenMutex, Flock
<1>3. CASE FlockFails(p) \/ FlockError(p) \/ Close(p) \/ Remove(p) \/ Die(p) \/ CloseHandle(p)
  BY <1>3 DEF FlockFails, FlockError, Close, Remove, Die, CloseHandle
<1>4. CASE OpenMutexDenied(p) \/ CreateMutexFails(p)
  \* unchecked says who may run with nothing
  BY <1>4 DEF OpenMutexDenied, CreateMutexFails
<1> QED BY <1>1, <1>2, <1>3, <1>4 DEF ProcessStep

\* flock and close move the lock with the process that runs.
LEMMA LockStep ==
  ASSUME TypeOK, HeldInv, LockInv, NEW p \in Process, ProcessStep(p)
  PROVE  LockInv'
<1> USE InstanceNone DEF TypeOK, HeldInv, LockInv, Holding, Linux, Windows, Go
<1>1. CASE Open(p) \/ OpenFails(p) \/ FlockFails(p) \/ FlockError(p) \/ Remove(p)
  BY <1>1 DEF Open, Make, OpenFails, FlockFails, FlockError, Remove
<1>2. CASE Flock(p)
  \* the lock was free, so it was nobody's
  BY <1>2 DEF Flock
<1>3. CASE Close(p) \/ Die(p)
  BY <1>3 DEF Close, Die, Unlock
<1>4. CASE \/ OpenMutexNone(p) \/ OpenMutexDenied(p) \/ OpenMutex(p)
           \/ CreateMutex(p) \/ CreateMutexFails(p) \/ CloseHandle(p)
  BY <1>4 DEF OpenMutexNone, OpenMutexDenied, OpenMutex, CreateMutex, CreateMutexFails,
              CloseHandle
<1> QED BY <1>1, <1>2, <1>3, <1>4 DEF ProcessStep

\* Outside the gaps, what is open is what the next start finds.
LEMMA NameStep ==
  ASSUME TypeOK, HeldInv, NameInv, NEW p \in Process, ProcessStep(p)
  PROVE  NameInv'
<1> USE InstanceNone, InstanceSystems
    DEF TypeOK, HeldInv, NameInv, Holding, Linux, Windows, Go
<1>1. CASE Open(p) \/ CreateMutex(p)
  \* a new file, and a new name, only when there is none: then nothing is open
  BY <1>1 DEF Open, CreateMutex, Make
<1>2. CASE Remove(p)
  \* what was open has lost its name, and window says so
  BY <1>2 DEF Remove
<1>3. CASE CloseHandle(p)
  BY <1>3 DEF CloseHandle
<1>4. CASE \/ OpenFails(p) \/ Flock(p) \/ FlockFails(p) \/ FlockError(p) \/ Close(p) \/ Die(p)
           \/ OpenMutexNone(p) \/ OpenMutexDenied(p) \/ OpenMutex(p) \/ CreateMutexFails(p)
  BY <1>4 DEF OpenFails, Flock, FlockFails, FlockError, Close, Die,
              OpenMutexNone, OpenMutexDenied, OpenMutex, CreateMutexFails
<1> QED BY <1>1, <1>2, <1>3, <1>4 DEF ProcessStep

\* A second process begins to run in three ways: the first two are not open to it
\* while what runs has the name, the third is remembered.
LEMMA InstanceStep ==
  ASSUME IInv, NEW p \in Process, ProcessStep(p)
  PROVE  OneInstance'
<1> USE DEF IInv, TypeOK, OneInstance, Go
<1>1. CASE Flock(p)
  <2>1. \A q \in Process : pc[q] = "running" => window
    BY <1>1, InstanceNone DEF Flock, HeldInv, LockInv, NameInv, Holding, Linux, Windows
  <2> QED BY <1>1, <2>1 DEF Flock
<1>2. CASE CreateMutex(p)
  <2>1. \A q \in Process : pc[q] = "running" => name # None \/ q \in unchecked
    BY <1>2 DEF CreateMutex, HeldInv, NameInv, Holding, Linux, Windows
  <2> QED BY <1>2, <2>1 DEF CreateMutex
<1>3. CASE Open(p) \/ OpenFails(p) \/ FlockFails(p) \/ FlockError(p)
           \/ Close(p) \/ Remove(p) \/ Die(p)
  BY <1>3 DEF Open, OpenFails, FlockFails, FlockError, Close, Remove, Die
<1>4. CASE OpenMutexNone(p) \/ OpenMutex(p) \/ CloseHandle(p)
  BY <1>4 DEF OpenMutexNone, OpenMutex, CloseHandle
<1>5. CASE OpenMutexDenied(p) \/ CreateMutexFails(p)
  BY <1>5 DEF OpenMutexDenied, CreateMutexFails
<1> QED BY <1>1, <1>2, <1>3, <1>4, <1>5 DEF ProcessStep

\* The invariant is inductive.
LEMMA NextIInv == IInv /\ [Next]_vars => IInv'
<1> SUFFICES ASSUME IInv, [Next]_vars PROVE IInv'
  OBVIOUS
<1>1. ASSUME NEW p \in Process, ProcessStep(p) PROVE IInv'
  BY <1>1, TypeStep, HeldStep, LockStep, NameStep, InstanceStep DEF IInv
<1>2. CASE UNCHANGED vars
  BY <1>2 DEF vars, IInv, TypeOK, HeldInv, LockInv, NameInv, OneInstance,
              Holding, Linux, Windows
<1> QED BY <1>1, <1>2 DEF Next, ProcessStep

\* From nothing started to any number of starts and exits.
THEOREM Invariance == Spec => []IInv
  BY InitIInv, NextIInv, PTL DEF Spec

-----------------------------------------------------------------------------
\* The states of processes, files and locks stay what TypeOK says, in both
\* implementations.
THEOREM TypeCorrect == Spec => []TypeOK
<1>1. IInv => TypeOK
  BY DEF IInv
<1> QED BY <1>1, Invariance, PTL

\* Any number of starts, exits and crashes: two processes run at a time only after
\* somebody acted between close and remove, or OpenMutex and CreateMutex, or when
\* one of these two went on after a failure of OpenMutex or CreateMutex.
THEOREM InstanceUnique == Spec => []OneInstance
<1>1. IInv => OneInstance
  BY DEF IInv
<1> QED BY <1>1, Invariance, PTL

\* Nobody is refused because of what a process that has ended left behind: there
\* is a holder of the lock, or of a handle.
THEOREM RefusalIsJust == Spec => RefusedMeansRunning
<1> DEFINE Just ==
      \A p \in Process :
        pc[p] \in {"new", "opened"} /\ pc'[p] \in {"refused", "refusing"} =>
          \E q \in Process \ {p} : pc[q] \in {"running", "refusing"}
<1>1. ASSUME IInv, [Next]_vars PROVE [Just]_vars
  <2>1. ASSUME NEW r \in Process, ProcessStep(r) PROVE Just
    <3> SUFFICES ASSUME NEW p \in Process,
                        pc[p] \in {"new", "opened"}, pc'[p] \in {"refused", "refusing"}
                 PROVE  \E q \in Process \ {p} : pc[q] \in {"running", "refusing"}
      OBVIOUS
    <3>1. r = p /\ (FlockFails(p) \/ OpenMutex(p))
      BY <1>1, <2>1
      DEF IInv, TypeOK, ProcessStep, Go, Open, OpenFails, Flock, FlockFails, FlockError,
          Close, Remove, Die, OpenMutexNone, OpenMutexDenied, OpenMutex, CreateMutex,
          CreateMutexFails, CloseHandle
    <3>2. CASE FlockFails(p)
      <4>1. PICK q \in Process : locked[held[p]] = q
        BY <1>1, <3>2, InstanceNone
        DEF IInv, TypeOK, HeldInv, Holding, FlockFails, Go, Linux, Windows
      <4>2. pc[q] = "running" /\ pc[p] = "opened" /\ held[p] \in File
        BY <1>1, <3>2, <4>1, InstanceNone
        DEF IInv, TypeOK, HeldInv, LockInv, Holding, FlockFails, Go, Linux, Windows
      <4> QED BY <4>2
    <3>3. CASE OpenMutex(p)
      <4>1. PICK q \in Process : held[q] = name
        BY <1>1, <3>3 DEF IInv, NameInv, OpenMutex
      <4> QED BY <1>1, <3>3, <4>1
              DEF IInv, HeldInv, Holding, OpenMutex, Go, Linux, Windows
    <3> QED BY <3>1, <3>2, <3>3
  <2> QED BY <1>1, <2>1 DEF Next, ProcessStep
<1> QED BY <1>1, Invariance, PTL DEF Spec, RefusedMeansRunning

=============================================================================
