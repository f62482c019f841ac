----------------------- MODULE ConnectionManagerProofs -----------------------
(***************************************************************************)
(* Proofs about ConnectionManager for every set of threads and every set   *)
(* of connection objects: the lists stay consistent, a handed out object   *)
(* has one owner, and the manager implements ConnectionPool.               *)
(***************************************************************************)
EXTENDS ConnectionManager, FiniteSetTheorems, TLAPS

(***************************************************************************)
(* The inductive invariant.  The lists are only consistent because one     *)
(* thread at a time is inside Get or Release and because of what each      *)
(* point of the two functions knows about the object it works on.          *)
(***************************************************************************)

\* The thread that owns the mutex is the one inside the critical section.
LockInv == \A t \in Thread : pc[t] \in Inside <=> m_lock = t

\* A thread has an object exactly in the phases between choosing and giving up.
Empty == {"idle", "entry", "create", "pop", "releaseUnlock", "unwind", "done", "dead"}
HandInv == \A t \in Thread : e[t] = NoConn <=> pc[t] \in Empty

\* Only objects that were made are in a list, live or in a thread's hands.
CreatedInv ==
  /\ \A c \in Conn : active[c] > 0 \/ avail[c] > 0 => c \in created
  /\ \A t \in Thread : e[t] # NoConn => e[t] \in created
  /\ live \subseteq created

\* What the two functions know at the points where they change the lists.
PhaseInv ==
  /\ \A t \in Thread : pc[t] \in {"add", "addBack"} => active[e[t]] = 0
  /\ \A t \in Thread : pc[t] = "create" => IsEmpty(avail)
  /\ \A c \in live : avail[c] = 0

IInv ==
  /\ TypeOK
  /\ LockInv
  /\ HandInv
  /\ CreatedInv
  /\ PhaseInv
  /\ InOneList
  /\ ExclusiveHandout
  /\ PopHasEntry

-----------------------------------------------------------------------------
(* The history variable peak stays a number: memory is finite. *)
LEMMA PeakIsNat ==
  ASSUME TypeOK, NEW cs \in SUBSET Conn, NEW av
  PROVE  Larger(peak, Cardinality(Outside(cs, av))) \in Nat
<1>1. IsFiniteSet(Outside(cs, av))
  BY ManagerFinite, FS_Subset DEF Outside
<1>2. Cardinality(Outside(cs, av)) \in Nat
  BY <1>1, FS_CardinalityType
<1>3. QED
  BY <1>2 DEF TypeOK, Larger

(* The server starts with consistent lists. *)
LEMMA InitIInv == Init => IInv
<1> USE ManagerNulls DEF IInv, TypeOK, LockInv, HandInv, CreatedInv, PhaseInv,
        InOneList, ExclusiveHandout, PopHasEntry, IsEmpty, Phase, Inside,
        Empty, lists, At, Move, LockMutex, UnlockMutex, Add, Remove
<1>1. SUFFICES ASSUME Init PROVE IInv
  OBVIOUS
<1>2. active \in [Conn -> Nat] /\ avail \in [Conn -> Nat]
  BY <1>1 DEF Init
<1>3. TypeOK
  BY <1>1, <1>2, ManagerPrealloc DEF Init
<1>4. CreatedInv
  BY <1>1, ManagerPrealloc DEF Init
<1>5. LockInv /\ HandInv /\ PhaseInv
  BY <1>1 DEF Init
<1>6. InOneList /\ ExclusiveHandout /\ PopHasEntry
  BY <1>1 DEF Init
<1>7. QED
  BY <1>3, <1>4, <1>5, <1>6

(* Every step of every thread keeps the invariant. *)
LEMMA NextIInv == IInv /\ [Next]_vars => IInv'
<1> SUFFICES ASSUME IInv, [Next]_vars PROVE IInv'
  OBVIOUS
<1> USE ManagerNulls DEF IInv, TypeOK, LockInv, HandInv, CreatedInv, PhaseInv,
        InOneList, ExclusiveHandout, PopHasEntry, IsEmpty, Phase, Inside,
        Empty, lists, At, Move, LockMutex, UnlockMutex, Add, Remove
<1>1. ASSUME NEW t \in Thread, Get(t) PROVE IInv'
  <2>1. CASE GetLock(t)
    BY <2>1 DEF GetLock
  <2>2. CASE FindNone(t)
    BY <2>2 DEF FindNone
  <2>3. CASE FindSome(t)
    BY <2>3 DEF FindSome
  <2>4. CASE CreateEntry(t)
    BY <2>4, PeakIsNat DEF CreateEntry
  <2>5. CASE CreateThrows(t)
    BY <2>5 DEF CreateThrows
  <2>6. CASE PopEntry(t)
    <3>1. PICK c \in Conn : /\ avail[c] > 0
                           /\ avail' = [avail EXCEPT ![c] = @ - 1]
                           /\ e' = [e EXCEPT ![t] = c]
                           /\ peak' = Larger(peak, Cardinality(Outside(created, avail')))
      BY <2>6 DEF PopEntry
    <3>2. c \in created /\ active[c] = 0 /\ avail[c] = 1 /\ c \notin live
      <4>1. active[c] \in Nat /\ avail[c] \in Nat /\ active[c] + avail[c] <= 1
        OBVIOUS
      <4>2. avail[c] > 0
        BY <3>1
      <4>3. active[c] = 0 /\ avail[c] = 1
        BY ONLY <4>1, <4>2
      <4>4. c \in created
        BY <3>1
      <4>5. c \notin live
        BY <3>1
      <4>6. QED
        BY <4>3, <4>4, <4>5
    <3>3. \A u \in Thread : e[u] # c
      BY <3>1
    <3>4. peak' \in Nat
      <4>1. created \in SUBSET Conn
        OBVIOUS
      <4>2. Larger(peak, Cardinality(Outside(created, avail'))) \in Nat
        BY <4>1, PeakIsNat
      <4>3. QED
        BY <3>1, <4>2
    <3>5. TypeOK' /\ LockInv' /\ HandInv'
      BY <2>6, <3>1, <3>4 DEF PopEntry
    <3>6. CreatedInv' /\ PhaseInv'
      BY <2>6, <3>1, <3>2 DEF PopEntry
    <3>7. InOneList' /\ ExclusiveHandout' /\ PopHasEntry'
      BY <2>6, <3>1, <3>2, <3>3 DEF PopEntry
    <3>8. QED
      BY <3>5, <3>6, <3>7
  <2>7. CASE AddActive(t)
    BY <2>7 DEF AddActive
  <2>8. CASE AddActiveThrows(t)
    BY <2>8 DEF AddActiveThrows
  <2>9. CASE GetUnlock(t)
    BY <2>9 DEF GetUnlock
  <2>10. QED
    BY <1>1, <2>1, <2>2, <2>3, <2>4, <2>5, <2>6, <2>7, <2>8, <2>9 DEF Get
<1>2. ASSUME NEW t \in Thread, Accept(t) \/ Disconnected(t) PROVE IInv'
  <2>1. CASE AcceptSucceeds(t)
    BY <2>1 DEF AcceptSucceeds
  <2>2. CASE AcceptFails(t)
    BY <2>2 DEF AcceptFails
  <2>3. CASE AcceptThrows(t)
    BY <2>3 DEF AcceptThrows
  <2>4. CASE Disconnected(t)
    BY <2>4 DEF Disconnected
  <2>5. QED
    BY <1>2, <2>1, <2>2, <2>3, <2>4 DEF Accept
<1>3. ASSUME NEW t \in Thread, Release(t) PROVE IInv'
  <2>1. CASE ReleaseLock(t)
    BY <2>1 DEF ReleaseLock
  <2>2. CASE ReleaseRemove(t)
    BY <2>2 DEF ReleaseRemove
  <2>3. CASE ReleaseAdd(t)
    BY <2>3 DEF ReleaseAdd
  <2>4. CASE ReleaseAddThrows(t)
    BY <2>4 DEF ReleaseAddThrows
  <2>5. CASE ReleaseUnlock(t)
    BY <2>5 DEF ReleaseUnlock
  <2>6. QED
    BY <1>3, <2>1, <2>2, <2>3, <2>4, <2>5 DEF Release
<1>4. ASSUME NEW t \in Thread, Unwind(t) \/ Finish(t) PROVE IInv'
  <2>1. CASE Unwind(t)
    BY <2>1 DEF Unwind
  <2>2. CASE Finish(t)
    BY <2>2 DEF Finish
  <2>3. QED
    BY <1>4, <2>1, <2>2
<1>5. CASE Purge
  BY <1>5 DEF Purge
<1>6. CASE UNCHANGED vars
  BY <1>6 DEF vars
<1>7. QED
  BY <1>1, <1>2, <1>3, <1>4, <1>5, <1>6 DEF Next

(* The invariant holds in every reachable state of the manager. *)
THEOREM Invariant == Spec => []IInv
  BY InitIInv, NextIInv, PTL DEF Spec

(* Type correctness of the manager, for any threads and objects. *)
THEOREM TypeCorrect == Spec => []TypeOK
  BY Invariant, PTL DEF IInv

(* No connection object is ever listed twice, in one list or across the two: *)
(* Get can never hand the same entry to two callers.                         *)
THEOREM ListsConsistent == Spec => []InOneList
  BY Invariant, PTL DEF IInv

(* The object Get returned belongs to the calling thread alone. *)
THEOREM HandoutExclusive == Spec => []ExclusiveHandout
  BY Invariant, PTL DEF IInv

(* The answer of IsEmpty is still true when the entry is popped. *)
THEOREM CheckStaysTrue == Spec => []PopHasEntry
  BY Invariant, PTL DEF IInv

-----------------------------------------------------------------------------
(* What is lost and what is made, counted: both arguments follow one step.   *)

\* The threads an exception has ended, or is about to.
Gone == {t \in Thread : pc[t] \in {"unwind", "dead"}}

(* A step loses an object only together with the thread that had it. *)
LEMMA LossStep ==
  IInv /\ LossNeedsException /\ [Next]_vars => LossNeedsException'
<1> SUFFICES ASSUME IInv, LossNeedsException, [Next]_vars
             PROVE  Cardinality(Lost') <= Cardinality(Gone')
  BY DEF LossNeedsException, Gone
<1>1. /\ IsFiniteSet(Lost) /\ IsFiniteSet(Gone) /\ IsFiniteSet(Gone')
      /\ Cardinality(Lost) \in Nat /\ Cardinality(Gone) \in Nat /\ Cardinality(Gone') \in Nat
      /\ Cardinality(Lost) <= Cardinality(Gone)
  <2>1. Lost \in SUBSET Conn /\ Gone \in SUBSET Thread /\ Gone' \in SUBSET Thread
    BY DEF Lost, Gone, IInv, TypeOK
  <2>2. IsFiniteSet(Lost) /\ IsFiniteSet(Gone) /\ IsFiniteSet(Gone')
    BY <2>1, ManagerFinite, FS_Subset
  <2>3. QED
    BY <2>2, FS_CardinalityType DEF LossNeedsException, Gone
<1>2. ASSUME Lost' \subseteq Lost, Gone \subseteq Gone'
      PROVE  Cardinality(Lost') <= Cardinality(Gone')
  <2>1. Cardinality(Lost') <= Cardinality(Lost) /\ IsFiniteSet(Lost')
    BY <1>1, <1>2, FS_Subset
  <2>2. Cardinality(Gone) <= Cardinality(Gone') /\ Cardinality(Lost') \in Nat
    BY <1>1, <1>2, <2>1, FS_Subset, FS_CardinalityType
  <2>3. QED
    BY <1>1, <2>1, <2>2
<1>3. ASSUME NEW t \in Thread, NEW c, Lost' \subseteq Lost \cup {c},
             t \notin Gone, Gone \cup {t} \subseteq Gone'
      PROVE  Cardinality(Lost') <= Cardinality(Gone')
  <2>1. /\ IsFiniteSet(Lost \cup {c})
        /\ Cardinality(Lost \cup {c}) \in Nat
        /\ Cardinality(Lost \cup {c}) <= Cardinality(Lost) + 1
    <3>1. IsFiniteSet(Lost \cup {c})
      BY <1>1, FS_AddElement
    <3>2. Cardinality(Lost \cup {c}) = IF c \in Lost THEN Cardinality(Lost)
                                                      ELSE Cardinality(Lost) + 1
      BY <1>1, FS_AddElement
    <3>3. QED
      BY <1>1, <3>1, <3>2
  <2>2. Cardinality(Gone \cup {t}) = Cardinality(Gone) + 1
    BY <1>1, <1>3, FS_AddElement
  <2>3. Cardinality(Lost') <= Cardinality(Lost \cup {c}) /\ IsFiniteSet(Lost')
    BY <1>3, <2>1, FS_Subset
  <2>4. Cardinality(Gone \cup {t}) <= Cardinality(Gone') /\ Cardinality(Lost') \in Nat
    BY <1>1, <1>3, <2>3, FS_Subset, FS_CardinalityType
  <2>5. QED
    BY <1>1, <2>1, <2>2, <2>3, <2>4
<1> USE ManagerNulls DEF IInv, TypeOK, HandInv, CreatedInv, ExclusiveHandout, Empty, Lost,
        Gone, lists, At, Move, Phase
<1>4. ASSUME NEW t \in Thread,
             AddActiveThrows(t) \/ AcceptThrows(t) \/ ReleaseAddThrows(t)
      PROVE  Cardinality(Lost') <= Cardinality(Gone')
  <2>1. Lost' \subseteq Lost \cup {e[t]}
    BY <1>4 DEF AddActiveThrows, AcceptThrows, ReleaseAddThrows
  <2>2. t \notin Gone /\ Gone \cup {t} \subseteq Gone'
    BY <1>4 DEF AddActiveThrows, AcceptThrows, ReleaseAddThrows
  <2>3. QED
    BY <1>3, <2>1, <2>2
<1>5. ASSUME NEW t \in Thread, CreateEntry(t) \/ PopEntry(t) \/ Disconnected(t)
      PROVE  Cardinality(Lost') <= Cardinality(Gone')
  <2>1. Gone \subseteq Gone' /\ e[t] = NoConn
    BY <1>5 DEF CreateEntry, PopEntry, Disconnected
  <2>2. CASE CreateEntry(t)
    <3>1. Lost' \subseteq Lost
      BY <2>1, <2>2 DEF CreateEntry
    <3>2. QED
      BY <1>2, <2>1, <3>1
  <2>3. CASE PopEntry(t)
    <3>1. Lost' \subseteq Lost
      BY <2>1, <2>3 DEF PopEntry
    <3>2. QED
      BY <1>2, <2>1, <3>1
  <2>4. CASE Disconnected(t)
    <3>1. Lost' \subseteq Lost
      BY <2>1, <2>4 DEF Disconnected
    <3>2. QED
      BY <1>2, <2>1, <3>1
  <2>5. QED
    BY <1>5, <2>2, <2>3, <2>4
<1>6. ASSUME NEW t \in Thread, AcceptSucceeds(t) \/ ReleaseAdd(t)
      PROVE  Cardinality(Lost') <= Cardinality(Gone')
  <2>1. Gone \subseteq Gone'
    BY <1>6 DEF AcceptSucceeds, ReleaseAdd
  <2>2. Lost' \subseteq Lost
    <3>1. CASE AcceptSucceeds(t)
      BY <3>1 DEF AcceptSucceeds
    <3>2. CASE ReleaseAdd(t)
      <4>1. e[t] \in Conn /\ avail[e[t]] \in Nat /\ avail' = [avail EXCEPT ![e[t]] = @ + 1]
        BY <3>2 DEF ReleaseAdd, Add
      <4>2. \A c \in Conn : avail'[c] = 0 => avail[c] = 0 /\ c # e[t]
        BY <4>1
      <4>3. QED
        BY <3>2, <4>2 DEF ReleaseAdd
    <3>3. QED
      BY <1>6, <3>1, <3>2
  <2>3. QED
    BY <1>2, <2>1, <2>2
<1>7. ASSUME UNCHANGED <<avail, created, e, live>>, Gone \subseteq Gone'
      PROVE  Cardinality(Lost') <= Cardinality(Gone')
  <2>1. Lost' \subseteq Lost
    BY <1>7
  <2>2. QED
    BY <1>2, <1>7, <2>1
<1>8. ASSUME NEW t \in Thread,
             \/ GetLock(t) \/ FindNone(t) \/ FindSome(t) \/ CreateThrows(t) \/ AddActive(t)
             \/ GetUnlock(t) \/ AcceptFails(t) \/ ReleaseLock(t) \/ ReleaseRemove(t)
             \/ ReleaseUnlock(t) \/ Unwind(t) \/ Finish(t)
      PROVE  Cardinality(Lost') <= Cardinality(Gone')
  <2>1. Gone \subseteq Gone'
    BY <1>8 DEF GetLock, FindNone, FindSome, CreateThrows, AddActive, GetUnlock, AcceptFails,
                ReleaseLock, ReleaseRemove, ReleaseUnlock, Unwind, Finish
  <2>2. UNCHANGED <<avail, created, e, live>>
    BY <1>8 DEF GetLock, FindNone, FindSome, CreateThrows, AddActive, GetUnlock, AcceptFails,
                ReleaseLock, ReleaseRemove, ReleaseUnlock, Unwind, Finish
  <2>3. QED
    BY <1>7, <2>1, <2>2
<1>9. CASE Purge \/ UNCHANGED vars
  <2>1. Gone \subseteq Gone' /\ UNCHANGED <<avail, created, e, live>>
    BY <1>9 DEF Purge, vars
  <2>2. QED
    BY <1>7, <2>1
<1>10. QED
  BY <1>4, <1>5, <1>6, <1>8, <1>9 DEF Next, Get, Accept, Release

(* A step makes an object only when every other one is outside the list. *)
LEMMA ReuseStep == IInv /\ ReuseBound /\ [Next]_vars => ReuseBound'
<1> SUFFICES ASSUME IInv, ReuseBound, [Next]_vars PROVE ReuseBound'
  OBVIOUS
<1>1. /\ Cardinality(created) \in Nat /\ Cardinality(Prealloc) \in Nat /\ peak \in Nat
      /\ \A n \in Nat : /\ Larger(peak, n) \in Nat
                        /\ peak <= Larger(peak, n) /\ n <= Larger(peak, n)
  <2>1. created \in SUBSET Conn /\ peak \in Nat
    BY DEF IInv, TypeOK
  <2>2. Cardinality(created) \in Nat /\ Cardinality(Prealloc) \in Nat
    BY <2>1, ManagerFinite, ManagerPrealloc, FS_Subset, FS_CardinalityType
  <2>3. QED
    BY <2>1, <2>2 DEF Larger
\* An object is made only when every other one is in use: all count for peak.
<1>2. ASSUME NEW t \in Thread, CreateEntry(t) PROVE ReuseBound'
  <2>1. PICK c \in Conn \ created : created' = created \cup {c}
    BY <1>2 DEF CreateEntry
  <2>2. Outside(created', avail) = created'
    BY <1>2, <2>1 DEF CreateEntry, At, IInv, TypeOK, PhaseInv, IsEmpty, Outside
  <2>3. Cardinality(created') \in Nat
    <3>1. created' \in SUBSET Conn
      BY <2>1 DEF IInv, TypeOK
    <3>2. QED
      BY <3>1, ManagerFinite, FS_Subset, FS_CardinalityType
  <2>4. peak' = Larger(peak, Cardinality(created'))
    BY <1>2, <2>2 DEF CreateEntry
  <2>5. QED
    BY <1>1, <2>3, <2>4 DEF ReuseBound, Larger
<1>3. ASSUME NEW t \in Thread, PopEntry(t) PROVE ReuseBound'
  <2>1. PICK c \in Conn : peak' = Larger(peak, Cardinality(Outside(created, avail')))
    BY <1>3 DEF PopEntry
  <2>2. Cardinality(Outside(created, avail')) \in Nat
    <3>1. Outside(created, avail') \in SUBSET Conn
      BY DEF Outside, IInv, TypeOK
    <3>2. QED
      BY <3>1, ManagerFinite, FS_Subset, FS_CardinalityType
  <2>3. created' = created
    BY <1>3 DEF PopEntry
  <2>4. peak <= peak' /\ peak' \in Nat
    BY <1>1, <2>1, <2>2
  <2>5. QED
    BY <1>1, <2>3, <2>4 DEF ReuseBound, Larger
<1>4. CASE UNCHANGED <<created, peak>>
  BY <1>4 DEF ReuseBound
<1>5. QED
  <2>1. ASSUME NEW t \in Thread, Get(t), ~CreateEntry(t), ~PopEntry(t)
        PROVE  UNCHANGED <<created, peak>>
    BY <2>1 DEF Get, GetLock, FindNone, FindSome, CreateThrows, AddActive, AddActiveThrows,
                GetUnlock, lists
  <2>2. ASSUME NEW t \in Thread,
               Accept(t) \/ Disconnected(t) \/ Release(t) \/ Unwind(t) \/ Finish(t)
        PROVE  UNCHANGED <<created, peak>>
    BY <2>2 DEF Accept, AcceptSucceeds, AcceptFails, AcceptThrows, Disconnected, Release,
                ReleaseLock, ReleaseRemove, ReleaseAdd, ReleaseAddThrows, ReleaseUnlock,
                Unwind, Finish, lists
  <2>3. Purge \/ UNCHANGED vars => UNCHANGED <<created, peak>>
    BY DEF Purge, vars, lists
  <2>4. QED
    BY <1>2, <1>3, <1>4, <2>1, <2>2, <2>3 DEF Next

(* At the start nothing is lost and only the preallocated objects exist. *)
LEMMA InitCounts == Init => LossNeedsException /\ ReuseBound
<1> SUFFICES ASSUME Init PROVE LossNeedsException /\ ReuseBound
  OBVIOUS
<1>1. Lost = {} /\ {t \in Thread : pc[t] \in {"unwind", "dead"}} = {}
  BY ManagerPrealloc DEF Init, Lost
<1>2. Cardinality(Prealloc) \in Nat
  BY ManagerFinite, ManagerPrealloc, FS_Subset, FS_CardinalityType
<1>3. QED
  BY <1>1, <1>2, FS_EmptySet DEF Init, LossNeedsException, ReuseBound, Larger

(* No object disappears by the interleaving of the two functions: what is in *)
(* no list, not live and in nobody's hands was lost by a thread that an      *)
(* exception ended, one object per thread at most.                           *)
THEOREM LossIsBounded == Spec => []LossNeedsException
<1>1. Init => LossNeedsException
  BY InitCounts
<1>2. QED
  BY <1>1, LossStep, Invariant, PTL DEF Spec

(* Reuse works: new objects are made only when all the others are in use.    *)
THEOREM ReuseIsBounded == Spec => []ReuseBound
<1>1. Init => ReuseBound
  BY InitCounts
<1>2. QED
  BY <1>1, ReuseStep, Invariant, PTL DEF Spec

-----------------------------------------------------------------------------
(* The manager implements the abstract pool.  HolderFacts says what HolderOf *)
(* is, case by case and without CHOOSE; a step of the manager then either    *)
(* moves one object from one holder to the next or moves none.               *)

HolderFacts ==
  \A c \in Conn :
    /\ c \notin created => HolderOf(c) = "absent"
    /\ c \in created /\ avail[c] > 0 => HolderOf(c) = "free"
    /\ \A t \in Thread : e[t] = c => HolderOf(c) = t
    /\ /\ c \in created
       /\ ~(avail[c] > 0)
       /\ \A t \in Thread : e[t] # c
       => HolderOf(c) = IF c \in live THEN "live" ELSE "lost"

LEMMA HolderCases == IInv => HolderFacts
<1> SUFFICES ASSUME IInv, NEW c \in Conn
             PROVE  /\ c \notin created => HolderOf(c) = "absent"
                    /\ c \in created /\ avail[c] > 0 => HolderOf(c) = "free"
                    /\ \A t \in Thread : e[t] = c => HolderOf(c) = t
                    /\ /\ c \in created
                       /\ ~(avail[c] > 0)
                       /\ \A t \in Thread : e[t] # c
                       => HolderOf(c) = IF c \in live THEN "live" ELSE "lost"
  BY DEF HolderFacts
<1>1. ASSUME NEW t \in Thread, e[t] = c PROVE HolderOf(c) = t
  <2>1. c \in created /\ ~(avail[c] > 0) /\ \A u \in Thread : e[u] = c => u = t
    BY <1>1, ManagerNulls DEF IInv, TypeOK, CreatedInv, ExclusiveHandout
  <2>2. (CHOOSE u \in Thread : e[u] = c) = t
    BY <1>1, <2>1
  <2>3. QED
    BY <1>1, <2>1, <2>2 DEF HolderOf
<1>2. QED
  BY <1>1 DEF HolderOf

LEMMA PoolInitial == Init => Pool!PoolInit
<1> SUFFICES ASSUME Init PROVE Pool!PoolInit
  OBVIOUS
<1>1. HolderFacts
  BY InitIInv, HolderCases
<1>2. ASSUME NEW c \in Conn PROVE HolderOf(c) = IF c \in Prealloc THEN "free" ELSE "absent"
  BY <1>1 DEF HolderFacts, Init
<1>3. QED
  BY <1>2 DEF Pool!PoolInit

LEMMA PoolStep ==
  IInv /\ IInv' /\ [Next]_vars => [Pool!PoolNext]_([c \in Conn |-> HolderOf(c)])
<1> SUFFICES ASSUME IInv, IInv', [Next]_vars
             PROVE  [Pool!PoolNext]_([c \in Conn |-> HolderOf(c)])
  OBVIOUS
<1> DEFINE h == [c \in Conn |-> HolderOf(c)]
<1>1. HolderFacts
  BY HolderCases
<1>2. HolderFacts'
  BY HolderCases, PTL
<1> DEFINE Step == Pool!PoolNext \/ h' = h
<1>3. ASSUME UNCHANGED <<created, avail, e, live>> PROVE Step
  <2>1. ASSUME NEW c \in Conn PROVE HolderOf(c)' = HolderOf(c)
    BY <1>1, <1>2, <1>3 DEF HolderFacts
  <2>2. QED
    BY <2>1
<1>4. ASSUME NEW t \in Thread, CreateEntry(t) PROVE Step
  <2>1. PICK c \in Conn \ created : created' = created \cup {c} /\ e' = [e EXCEPT ![t] = c]
    BY <1>4 DEF CreateEntry
  <2>2. avail' = avail /\ live' = live /\ e[t] = NoConn /\ \A d \in Conn : avail[d] = 0
    BY <1>4, ManagerNulls DEF CreateEntry, At, IInv, HandInv, PhaseInv, Empty, IsEmpty
  <2>3. HolderOf(c) = "absent" /\ HolderOf(c)' = t
    BY <1>1, <1>2, <2>1 DEF HolderFacts, IInv, TypeOK
  <2>4. ASSUME NEW d \in Conn \ {c} PROVE HolderOf(d)' = HolderOf(d)
    BY <1>1, <1>2, <2>1, <2>2, ManagerNulls DEF HolderFacts, IInv, TypeOK
  <2>5. ASSUME NEW d \in Conn PROVE HolderOf(d) # "free"
    BY <1>1, <2>2, ManagerThreads DEF HolderFacts
  <2>6. h' = [h EXCEPT ![c] = t]
    BY <2>3, <2>4
  <2>7. Pool!Acquire(t)
    BY <2>3, <2>5, <2>6 DEF Pool!Acquire
  <2>8. QED
    BY <2>7 DEF Pool!PoolNext
<1>5. ASSUME NEW t \in Thread, PopEntry(t) PROVE Step
  <2>1. PICK c \in Conn : /\ avail[c] > 0
                         /\ avail' = [avail EXCEPT ![c] = @ - 1]
                         /\ e' = [e EXCEPT ![t] = c]
    BY <1>5 DEF PopEntry
  <2>2. created' = created /\ live' = live /\ e[t] = NoConn
    BY <1>5, ManagerNulls DEF PopEntry, At, IInv, HandInv, Empty
  <2>3. HolderOf(c) = "free" /\ HolderOf(c)' = t
    BY <1>1, <1>2, <2>1 DEF HolderFacts, IInv, TypeOK, CreatedInv
  <2>4. ASSUME NEW d \in Conn \ {c} PROVE HolderOf(d)' = HolderOf(d)
    BY <1>1, <1>2, <2>1, <2>2, ManagerNulls DEF HolderFacts, IInv, TypeOK
  <2>5. h' = [h EXCEPT ![c] = t]
    BY <2>3, <2>4
  <2>6. Pool!Acquire(t)
    BY <2>3, <2>5 DEF Pool!Acquire
  <2>7. QED
    BY <2>6 DEF Pool!PoolNext
<1>6. ASSUME NEW t \in Thread, AcceptSucceeds(t) PROVE Step
  <2>0. e[t] # NoConn
    BY <1>6 DEF AcceptSucceeds, At, IInv, HandInv, Empty
  <2>1. PICK c \in Conn : /\ c = e[t] /\ c \in created /\ avail[c] = 0
                         /\ \A u \in Thread \ {t} : e[u] # c
    BY <2>0, ManagerNulls DEF IInv, TypeOK, CreatedInv, ExclusiveHandout, InOneList, PhaseInv
  <2>2. /\ live' = live \cup {c} /\ e' = [e EXCEPT ![t] = NoConn]
        /\ created' = created /\ avail' = avail
    BY <1>6, <2>1 DEF AcceptSucceeds, lists
  <2>3. HolderOf(c) = t /\ HolderOf(c)' = "live"
    BY <1>1, <1>2, <2>1, <2>2, ManagerNulls DEF HolderFacts, IInv, TypeOK
  <2>4. ASSUME NEW d \in Conn \ {c} PROVE HolderOf(d)' = HolderOf(d)
    <3>1. \A u \in Thread : e'[u] = d <=> e[u] = d
      BY <2>1, <2>2, ManagerNulls DEF IInv, TypeOK
    <3>2. created' = created /\ avail'[d] = avail[d] /\ (d \in live' <=> d \in live)
      BY <2>1, <2>2 DEF IInv, TypeOK
    <3>3. QED
      BY <1>1, <1>2, <3>1, <3>2 DEF HolderFacts
  <2>5. h' = [h EXCEPT ![c] = "live"]
    BY <2>1, <2>3, <2>4
  <2>6. Pool!Publish(t)
    BY <2>1, <2>3, <2>5 DEF Pool!Publish
  <2>7. QED
    BY <2>6 DEF Pool!PoolNext
<1>7. ASSUME NEW t \in Thread, Disconnected(t) PROVE Step
  <2>1. PICK c \in live : live' = live \ {c} /\ e' = [e EXCEPT ![t] = c]
    BY <1>7 DEF Disconnected
  <2>2. c \in Conn /\ c \in created /\ avail[c] = 0 /\ e[t] = NoConn
    BY <1>7, ManagerNulls
       DEF Disconnected, At, IInv, TypeOK, HandInv, CreatedInv, PhaseInv, Empty
  <2>3. created' = created /\ avail' = avail
    BY <1>7 DEF Disconnected, lists
  <2>4. \A u \in Thread : e[u] # c
    BY <2>1, <2>2, ManagerNulls DEF IInv, ExclusiveHandout
  <2>5. HolderOf(c) = "live" /\ HolderOf(c)' = t
    BY <1>1, <1>2, <2>1, <2>2, <2>4 DEF HolderFacts, IInv, TypeOK
  <2>6. ASSUME NEW d \in Conn \ {c} PROVE HolderOf(d)' = HolderOf(d)
    BY <1>1, <1>2, <2>1, <2>2, <2>3, ManagerNulls DEF HolderFacts, IInv, TypeOK
  <2>7. h' = [h EXCEPT ![c] = t]
    BY <2>2, <2>5, <2>6
  <2>8. Pool!TakeBack(t)
    BY <2>2, <2>5, <2>7 DEF Pool!TakeBack
  <2>9. QED
    BY <2>8 DEF Pool!PoolNext
<1>8. ASSUME NEW t \in Thread, ReleaseAdd(t) PROVE Step
  <2>0. e[t] # NoConn
    BY <1>8 DEF ReleaseAdd, At, IInv, HandInv, Empty
  <2>1. PICK c \in Conn : /\ c = e[t] /\ c \in created /\ avail[c] = 0
                         /\ \A u \in Thread \ {t} : e[u] # c
    BY <2>0, ManagerNulls DEF IInv, TypeOK, CreatedInv, ExclusiveHandout, InOneList, PhaseInv
  <2>2. /\ avail' = [avail EXCEPT ![c] = @ + 1]
        /\ e' = [e EXCEPT ![t] = NoConn]
        /\ created' = created /\ live' = live
    BY <1>8, <2>1 DEF ReleaseAdd, Add
  <2>3. avail[c] \in Nat /\ avail'[c] = avail[c] + 1
    BY <2>1, <2>2 DEF IInv, TypeOK
  <2>4. HolderOf(c) = t /\ HolderOf(c)' = "free"
    BY <1>1, <1>2, <2>1, <2>2, <2>3 DEF HolderFacts
  <2>5. ASSUME NEW d \in Conn \ {c} PROVE HolderOf(d)' = HolderOf(d)
    <3>1. \A u \in Thread : e'[u] = d <=> e[u] = d
      BY <2>1, <2>2, ManagerNulls DEF IInv, TypeOK
    <3>2. created' = created /\ avail'[d] = avail[d] /\ (d \in live' <=> d \in live)
      BY <2>1, <2>2 DEF IInv, TypeOK
    <3>3. QED
      BY <1>1, <1>2, <3>1, <3>2 DEF HolderFacts
  <2>6. h' = [h EXCEPT ![c] = "free"]
    BY <2>1, <2>4, <2>5
  <2>7. Pool!Return(t)
    BY <2>1, <2>4, <2>6 DEF Pool!Return
  <2>8. QED
    BY <2>7 DEF Pool!PoolNext
<1>9. ASSUME NEW t \in Thread, AddActiveThrows(t) \/ AcceptThrows(t) \/ ReleaseAddThrows(t)
      PROVE  Step
  <2>0. e[t] # NoConn
    BY <1>9 DEF AddActiveThrows, AcceptThrows, ReleaseAddThrows, At, IInv, HandInv, Empty
  <2>1. PICK c \in Conn : /\ c = e[t] /\ c \in created /\ avail[c] = 0 /\ c \notin live
                         /\ \A u \in Thread \ {t} : e[u] # c
    BY <2>0, ManagerNulls DEF IInv, TypeOK, CreatedInv, ExclusiveHandout, InOneList, PhaseInv
  <2>2. /\ e' = [e EXCEPT ![t] = NoConn]
        /\ created' = created /\ avail' = avail /\ live' = live
    BY <1>9 DEF AddActiveThrows, AcceptThrows, ReleaseAddThrows, lists
  <2>3. HolderOf(c) = t /\ HolderOf(c)' = "lost"
    BY <1>1, <1>2, <2>1, <2>2, ManagerNulls DEF HolderFacts, IInv, TypeOK
  <2>4. ASSUME NEW d \in Conn \ {c} PROVE HolderOf(d)' = HolderOf(d)
    <3>1. \A u \in Thread : e'[u] = d <=> e[u] = d
      BY <2>1, <2>2, ManagerNulls DEF IInv, TypeOK
    <3>2. created' = created /\ avail'[d] = avail[d] /\ (d \in live' <=> d \in live)
      BY <2>1, <2>2 DEF IInv, TypeOK
    <3>3. QED
      BY <1>1, <1>2, <3>1, <3>2 DEF HolderFacts
  <2>5. h' = [h EXCEPT ![c] = "lost"]
    BY <2>1, <2>3, <2>4
  <2>6. Pool!Lose(t)
    BY <2>1, <2>3, <2>5 DEF Pool!Lose
  <2>7. QED
    BY <2>6 DEF Pool!PoolNext
<1>10. ASSUME NEW t \in Thread,
              \/ GetLock(t) \/ FindNone(t) \/ FindSome(t) \/ CreateThrows(t) \/ AddActive(t)
              \/ GetUnlock(t) \/ AcceptFails(t) \/ ReleaseLock(t) \/ ReleaseRemove(t)
              \/ ReleaseUnlock(t) \/ Unwind(t) \/ Finish(t)
       PROVE  UNCHANGED <<created, avail, e, live>>
  BY <1>10 DEF GetLock, FindNone, FindSome, CreateThrows, AddActive, GetUnlock, AcceptFails,
       ReleaseLock, ReleaseRemove, ReleaseUnlock, Unwind, Finish, lists
<1>11. ASSUME Purge \/ UNCHANGED vars PROVE UNCHANGED <<created, avail, e, live>>
  BY <1>11 DEF Purge, vars, lists
<1>12. Step
  BY <1>3, <1>4, <1>5, <1>6, <1>7, <1>8, <1>9, <1>10, <1>11
     DEF Next, Get, Accept, Release
<1>13. QED
  BY <1>12

(* Get and Release under the mutex, with every exception that can leave     *)
(* them, implement the pool: exclusive handout, reuse before creation, and  *)
(* return by the holder only.                                               *)
THEOREM Refinement == Spec => ImplementsPool
  BY Invariant, PoolInitial, PoolStep, PTL DEF Spec, ImplementsPool, Pool!PoolSpec

=============================================================================
