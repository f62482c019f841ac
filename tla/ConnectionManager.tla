-------------------------- MODULE ConnectionManager --------------------------
(***************************************************************************)
(* The template ConnectionManager of include/Common/System/Endpoint.h as   *)
(* the threads of SystemServer use it: Get and Release step by step under  *)
(* one mutex taken by a scoped locker, the exceptions that can leave them, *)
(* and the two lists purged when the server object is destroyed.           *)
(*                                                                         *)
(* The lists are bags: the code asks a list for "some" entry (the front of *)
(* a std::list, begin() of an unordered_set), whether it is empty, and to  *)
(* remove every copy of an entry; how often an entry is in a list matters, *)
(* its place does not.                                                     *)
(*                                                                         *)
(* Contract of the callers, assumed here and examined in LinuxServer: one  *)
(* worker at a time releases a connection.                                 *)
(***************************************************************************)
EXTENDS Naturals, FiniteSets

CONSTANTS
  Thread,     \* main (the first DoAccept) and the workers
  Conn,       \* every connection object memory has room for
  Prealloc,   \* the DEFAULT_CONNECTION_COUNT objects of the constructor
  NoThread,   \* the mutex is free
  NoConn      \* a null IConnection*

ASSUME ManagerFinite == IsFiniteSet(Conn) /\ IsFiniteSet(Thread)
ASSUME ManagerPrealloc == Prealloc \subseteq Conn
\* Threads are not the words ConnectionPool uses for objects no thread holds.
ASSUME ManagerThreads == Thread \cap {"absent", "free", "live", "lost"} = {}
ASSUME ManagerNulls == NoThread \notin Thread /\ NoConn \notin Conn

VARIABLES
  m_lock,     \* the thread inside the critical section, or NoThread
  active,     \* m_activeConnections as a bag: active[c] copies of c
  avail,      \* m_availConnections as a bag
  created,    \* objects made by m_creator so far
  pc,         \* where each thread is
  e,          \* the local IConnection* of each thread
  live,       \* objects whose socket is bound to epoll: any worker may get them
  destroyed,  \* the manager is gone
  peak        \* history: most objects ever outside the available list

vars == <<m_lock, active, avail, created, pc, e, live, destroyed, peak>>

lists == <<active, avail, created>>

Phase == {"idle", "entry", "create", "pop", "add", "getUnlock", "accept", "release", "remove",
          "addBack", "releaseUnlock", "unwind", "done", "dead"}

\* The phases in which a thread owns the mutex.
Inside == {"entry", "create", "pop", "add", "getUnlock",
           "remove", "addBack", "releaseUnlock", "unwind"}

(* Container::Add, Container::Remove (std::list::remove drops every copy).  *)
Add(list, c) == [list EXCEPT ![c] = @ + 1]
Remove(list, c) == [list EXCEPT ![c] = 0]
IsEmpty(list) == \A c \in Conn : list[c] = 0

\* Objects that exist and are not in the available list.
Outside(cs, av) == {c \in cs : av[c] = 0}
Larger(m, n) == IF m < n THEN n ELSE m

Init ==
  /\ m_lock = NoThread
  /\ active = [c \in Conn |-> 0]
  /\ avail = [c \in Conn |-> IF c \in Prealloc THEN 1 ELSE 0]
  /\ created = Prealloc
  /\ pc = [t \in Thread |-> "idle"]
  /\ e = [t \in Thread |-> NoConn]
  /\ live = {}
  /\ destroyed = FALSE
  /\ peak = 0

Move(t, to) == pc' = [pc EXCEPT ![t] = to]
At(t, from, to) == pc[t] = from /\ Move(t, to)

(* ScopedLocker's constructor and destructor. *)
LockNothing(t) == m_lock' = t   \* mutant: the lock does not exclude
LockMutex(t) == m_lock = NoThread /\ m_lock' = t
UnlockMutex(t) == m_lock' = NoThread

-----------------------------------------------------------------------------
(* Get(), called by DoAccept. *)

GetLock(t) ==
  /\ At(t, "idle", "entry")
  /\ LockMutex(t)
  /\ UNCHANGED <<lists, e, live, destroyed, peak>>

\* mutant: the available list is not consulted
FindNoneBlindly(t) ==
  /\ At(t, "entry", "create")
  /\ UNCHANGED <<m_lock, lists, e, live, destroyed, peak>>

\* Is there something in the list of available connections?
FindNone(t) ==
  /\ At(t, "entry", "create")
  /\ IsEmpty(avail)
  /\ UNCHANGED <<m_lock, lists, e, live, destroyed, peak>>

FindSome(t) ==
  /\ At(t, "entry", "pop")
  /\ ~IsEmpty(avail)
  /\ UNCHANGED <<m_lock, lists, e, live, destroyed, peak>>

CreateEntry(t) ==
  /\ At(t, "create", "add")
  /\ \E c \in Conn \ created :
       /\ created' = created \cup {c}
       /\ e' = [e EXCEPT ![t] = c]
       /\ peak' = Larger(peak, Cardinality(Outside(created', avail)))
  /\ UNCHANGED <<m_lock, active, avail, live, destroyed>>

\* mutant: the result of new (std::nothrow) is not checked
CreateNull(t) ==
  /\ At(t, "create", "add")
  /\ created' = created \cup {NoConn}
  /\ UNCHANGED <<m_lock, active, avail, e, live, destroyed, peak>>

\* CreateConnection found no memory and throws std::bad_alloc inside Get.
CreateThrows(t) ==
  /\ At(t, "create", "unwind")
  /\ UNCHANGED <<m_lock, lists, e, live, destroyed, peak>>

\* mutant: front() without pop_front()
PeekEntry(t) ==
  /\ At(t, "pop", "add")
  /\ \E c \in Conn : avail[c] > 0 /\ e' = [e EXCEPT ![t] = c]
  /\ UNCHANGED <<m_lock, lists, live, destroyed, peak>>

\* Take an entry out of the available list; on an empty std::list front() and
\* pop_front() have no defined outcome, and PopHasEntry says it never happens.
PopEntry(t) ==
  /\ At(t, "pop", "add")
  /\ \E c \in Conn :
       /\ avail[c] > 0
       /\ avail' = [avail EXCEPT ![c] = @ - 1]
       /\ e' = [e EXCEPT ![t] = c]
       /\ peak' = Larger(peak, Cardinality(Outside(created, avail')))
  /\ UNCHANGED <<m_lock, active, created, live, destroyed>>

AddActive(t) ==
  /\ At(t, "add", "getUnlock")
  /\ active' = Add(active, e[t])
  /\ UNCHANGED <<m_lock, avail, created, e, live, destroyed, peak>>

\* push_back finds no memory: the object is in neither list and nobody has it.
AddActiveThrows(t) ==
  /\ At(t, "add", "unwind")
  /\ e' = [e EXCEPT ![t] = NoConn]
  /\ UNCHANGED <<m_lock, lists, live, destroyed, peak>>

GetUnlock(t) ==
  /\ At(t, "getUnlock", "accept")
  /\ UnlockMutex(t)
  /\ UNCHANGED <<lists, e, live, destroyed, peak>>

\* mutant: Lock() and Unlock() called by hand, the exception skips Unlock()
UnwindLocked(t) ==
  /\ At(t, "unwind", "dead")
  /\ UNCHANGED <<m_lock, lists, e, live, destroyed, peak>>

\* The locker's destructor runs as the exception leaves Get or Release; the
\* catch of AsyncWorkCallback then ends the worker.
Unwind(t) ==
  /\ At(t, "unwind", "dead")
  /\ UnlockMutex(t)
  /\ UNCHANGED <<lists, e, live, destroyed, peak>>

-----------------------------------------------------------------------------
(* The rest of DoAccept: what AcceptAsync answers. *)

AcceptSucceeds(t) ==
  /\ At(t, "accept", "idle")
  /\ live' = live \cup {e[t]}
  /\ e' = [e EXCEPT ![t] = NoConn]
  /\ UNCHANGED <<m_lock, lists, destroyed, peak>>

\* mutant: DoAccept forgets to release the entry when nothing was accepted
AcceptForgets(t) ==
  /\ At(t, "accept", "idle")
  /\ e' = [e EXCEPT ![t] = NoConn]
  /\ UNCHANGED <<m_lock, lists, live, destroyed, peak>>

AcceptFails(t) ==
  /\ At(t, "accept", "release")
  /\ UNCHANGED <<m_lock, lists, e, live, destroyed, peak>>

\* accept() or epoll_ctl() failed: the object stays in the active list.
AcceptThrows(t) ==
  /\ At(t, "accept", "dead")
  /\ e' = [e EXCEPT ![t] = NoConn]
  /\ UNCHANGED <<m_lock, lists, live, destroyed, peak>>

(* OnDataExchangeComplete: the peer of c disconnected, c was reset. *)
Disconnected(t) ==
  /\ At(t, "idle", "release")
  /\ \E c \in live :
       /\ live' = live \ {c}
       /\ e' = [e EXCEPT ![t] = c]
  /\ UNCHANGED <<m_lock, lists, destroyed, peak>>

-----------------------------------------------------------------------------
(* Release(e), called by DoAccept and by OnDataExchangeComplete. *)

ReleaseLock(t) ==
  /\ At(t, "release", "remove")
  /\ LockMutex(t)
  /\ UNCHANGED <<lists, e, live, destroyed, peak>>

\* mutant: the entry stays in the active list
ReleaseKeeps(t) ==
  /\ At(t, "remove", "addBack")
  /\ UNCHANGED <<m_lock, lists, e, live, destroyed, peak>>

ReleaseRemove(t) ==
  /\ At(t, "remove", "addBack")
  /\ active' = Remove(active, e[t])
  /\ UNCHANGED <<m_lock, avail, created, e, live, destroyed, peak>>

ReleaseAdd(t) ==
  /\ At(t, "addBack", "releaseUnlock")
  /\ avail' = Add(avail, e[t])
  /\ e' = [e EXCEPT ![t] = NoConn]
  /\ UNCHANGED <<m_lock, active, created, live, destroyed, peak>>

\* push_back finds no memory: the object is already out of the active list.
ReleaseAddThrows(t) ==
  /\ At(t, "addBack", "unwind")
  /\ e' = [e EXCEPT ![t] = NoConn]
  /\ UNCHANGED <<m_lock, lists, live, destroyed, peak>>

ReleaseUnlock(t) ==
  /\ At(t, "releaseUnlock", "idle")
  /\ UnlockMutex(t)
  /\ UNCHANGED <<lists, e, live, destroyed, peak>>

-----------------------------------------------------------------------------
(* A worker leaves IoManager::Run; main reaches the end of OnStop. *)
Finish(t) ==
  /\ At(t, "idle", "done")
  /\ UNCHANGED <<m_lock, lists, e, live, destroyed, peak>>

(* ~ConnectionManager after the join of every thread: both lists delete each *)
(* of their entries, none of them twice because of InOneList.                *)
Purge ==
  /\ ~destroyed
  /\ \A t \in Thread : pc[t] \in {"done", "dead"}
  /\ destroyed' = TRUE
  /\ UNCHANGED <<m_lock, lists, pc, e, live, peak>>

Get(t) == GetLock(t) \/ FindNone(t) \/ FindSome(t) \/ CreateEntry(t) \/ CreateThrows(t)
            \/ PopEntry(t) \/ AddActive(t) \/ AddActiveThrows(t) \/ GetUnlock(t)
Accept(t) == AcceptSucceeds(t) \/ AcceptFails(t) \/ AcceptThrows(t)
Release(t) == ReleaseLock(t) \/ ReleaseRemove(t) \/ ReleaseAdd(t)
                \/ ReleaseAddThrows(t) \/ ReleaseUnlock(t)

Next ==
  \/ \E t \in Thread :
       Get(t) \/ Accept(t) \/ Disconnected(t) \/ Release(t) \/ Unwind(t) \/ Finish(t)
  \/ Purge

Spec == Init /\ [][Next]_vars

\* A thread that runs inside a call goes on running: none of these steps waits
\* for anything but the processor.
InsideStep(t) ==
  \/ FindNone(t) \/ FindSome(t) \/ CreateEntry(t) \/ CreateThrows(t)
  \/ PopEntry(t) \/ AddActive(t) \/ AddActiveThrows(t) \/ GetUnlock(t) \/ Unwind(t) \/ ReleaseRemove(t)
  \/ ReleaseAdd(t) \/ ReleaseAddThrows(t) \/ ReleaseUnlock(t)

FairSpec == Spec /\ \A t \in Thread : WF_vars(InsideStep(t))

-----------------------------------------------------------------------------
(* Correctness. *)

\* Every variable has its type; the bags count copies.
TypeOK ==
  /\ m_lock \in Thread \cup {NoThread}
  /\ active \in [Conn -> Nat]
  /\ avail \in [Conn -> Nat]
  /\ created \in SUBSET Conn
  /\ pc \in [Thread -> Phase]
  /\ e \in [Thread -> Conn \cup {NoConn}]
  /\ live \in SUBSET Conn
  /\ destroyed \in BOOLEAN
  /\ peak \in Nat

\* A connection object is in one list at most, and once: after any mix of Get,
\* Release, failed accepts and exceptions no entry can be handed out twice, be
\* reused while it is still listed as active, or be deleted twice by Purge.
InOneList == \A c \in Conn : active[c] + avail[c] <= 1

\* An object handed out by Get belongs to its thread alone until the thread
\* publishes or returns it: no second thread has it, no other worker can get
\* its events, and it is not for reuse.
ExclusiveHandout ==
  \A t \in Thread : e[t] # NoConn =>
    /\ \A u \in Thread \ {t} : e[u] # e[t]
    /\ e[t] \notin live
    /\ avail[e[t]] = 0

\* Get pops the available list only when it still has an entry: the answer of
\* IsEmpty cannot go stale before front() runs.
PopHasEntry == \A t \in Thread : pc[t] = "pop" => ~IsEmpty(avail)

\* An object that exists is free, live or in some thread's hands; one that is
\* none of these was lost by a thread ended by an exception, one per thread.
Lost == {c \in created : /\ avail[c] = 0
                         /\ c \notin live
                         /\ \A t \in Thread : e[t] # c}
LossNeedsException ==
  Cardinality(Lost) <= Cardinality({t \in Thread : pc[t] \in {"unwind", "dead"}})

\* Reuse works: the objects ever made are no more than the preallocated ones,
\* or than the most that were outside the available list at one time.
ReuseBound == Cardinality(created) <= Larger(Cardinality(Prealloc), peak)

\* Whatever happens inside Get and Release, the mutex is freed again: the
\* scoped locker unlocks on the exception paths too.
LockIsFreed == m_lock # NoThread ~> m_lock = NoThread

\* The lists under the mutex implement the abstract pool: see ConnectionPool.
HolderOf(c) ==
  IF c \notin created THEN "absent"
  ELSE IF avail[c] > 0 THEN "free"
  ELSE IF \E t \in Thread : e[t] = c THEN CHOOSE t \in Thread : e[t] = c
  ELSE IF c \in live THEN "live"
  ELSE "lost"

Pool == INSTANCE ConnectionPool WITH holder <- [c \in Conn |-> HolderOf(c)]

\* Get hands an object to one holder, a new object only when none is free, and
\* only the holder gives it back.
ImplementsPool == Pool!PoolSpec

=============================================================================
