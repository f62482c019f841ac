---------------------------- MODULE SingleInstance ----------------------------
(***************************************************************************)
(* Several starts of the program on one machine, each of which constructs  *)
(* and destroys SingleInstanceImpl.  On Linux the guard is a lock on the   *)
(* file /tmp/<name>.pid, on Windows the existence of a named mutex.        *)
(*                                                                         *)
(* A file is an inode: name says which one the path leads to.  On Windows  *)
(* it stands for the mutex object, which exists while somebody has a       *)
(* handle.  The kernel closes what a process that ends had open.           *)
(***************************************************************************)
EXTENDS Naturals, FiniteSets

CONSTANTS
  Process,  \* starts of the program
  File,     \* bound: files (or mutex objects) made
  Systems,  \* operating systems to consider
  None

ASSUME InstanceNone == None \notin Process \cup File
ASSUME InstanceSystems == Systems \subseteq {"linux", "windows"}

VARIABLES
  os,        \* which of the two implementations was compiled
  pc,
  held,      \* m_fd, m_hMutex: the file behind the descriptor or handle
  name,      \* the file the path leads to
  made,      \* files made so far
  locked,    \* who has the lock of each file
  readable,  \* files whose mode lets them be opened again
  zero,      \* processes started without standard input: open() returns 0
  window,    \* history: somebody acted between two steps of another process
             \* that only exclude others together
  unchecked  \* history: processes that went on although OpenMutex or
             \* CreateMutex had failed

vars == <<os, pc, held, name, made, locked, readable, zero, window, unchecked>>

Linux == os = "linux"
Windows == os = "windows"
Done == {"refused", "failed", "gone"}

Init ==
  /\ os \in Systems
  /\ pc = [p \in Process |-> "new"]
  /\ held = [p \in Process |-> None]
  /\ name = None
  /\ made = {}
  /\ locked = [f \in File |-> None]
  /\ readable = {}
  /\ zero \in IF Linux THEN SUBSET Process ELSE {{}}
  /\ window = FALSE
  /\ unchecked = {}

Go(p, from, to) == pc[p] = from /\ pc' = [pc EXCEPT ![p] = to] /\ UNCHANGED <<os, zero>>

Unlock(p) == locked' = [f \in File |-> IF locked[f] = p THEN None ELSE locked[f]]

\* p has file f open, and the name leads there; f is made if there is none.
Make(p, f) ==
  /\ IF name = None THEN f \notin made ELSE f = name
  /\ made' = made \cup {f}
  /\ name' = f
  /\ held' = [held EXCEPT ![p] = f]

-----------------------------------------------------------------------------
(* Linux: open, flock; close, remove. *)

\* Mutant: a file that exists means that an instance runs.
OpenExclusive(p) ==
  /\ Linux /\ Go(p, "new", IF name = None THEN "opened" ELSE "refused")
  /\ \E f \in File : Make(p, f) /\ readable' = readable \cup {f}
  /\ UNCHANGED <<locked, window, unchecked>>

\* open(O_CREAT | O_RDONLY) names no mode: a new file gets whatever the missing
\* argument held, and that decides whether the next process can open it.
Open(p) ==
  /\ Linux /\ Go(p, "new", "opened")
  /\ \E f \in File :
       /\ f \in made => f \in readable
       /\ Make(p, f)
       /\ \/ UNCHANGED readable
          \/ name = None /\ readable' = readable \cup {f}
  /\ UNCHANGED <<locked, window, unchecked>>

\* throw SystemException(errno)
OpenFails(p) ==
  /\ Linux /\ Go(p, "new", "failed")
  /\ name # None /\ name \notin readable
  /\ UNCHANGED <<held, name, made, locked, readable, window, unchecked>>

\* Mutant: LOCK_SH instead of LOCK_EX.
FlockShared(p) ==
  /\ Linux /\ Go(p, "opened", "running")
  /\ locked' = [locked EXCEPT ![held[p]] = p]
  /\ UNCHANGED <<held, name, made, readable, window, unchecked>>

Flock(p) ==
  /\ Linux /\ Go(p, "opened", "running")
  /\ locked[held[p]] = None
  /\ locked' = [locked EXCEPT ![held[p]] = p]
  /\ UNCHANGED <<held, name, made, readable, window, unchecked>>

\* close, and throw logic_error
FlockFails(p) ==
  /\ Linux /\ Go(p, "opened", "refused")
  /\ locked[held[p]] # None
  /\ held' = [held EXCEPT ![p] = None]
  /\ UNCHANGED <<name, made, locked, readable, window, unchecked>>

\* flock fails for another reason (no memory for a lock): the message is the
\* same, but nobody else is meant.
FlockError(p) ==
  /\ Linux /\ Go(p, "opened", "failed")
  /\ held' = [held EXCEPT ![p] = None]
  /\ UNCHANGED <<name, made, locked, readable, window, unchecked>>

\* The destructor, first half: close() frees the lock.
Close(p) ==
  /\ Linux /\ p \notin zero
  /\ Go(p, "running", "closed")
  /\ held' = [held EXCEPT ![p] = None]
  /\ Unlock(p)
  /\ UNCHANGED <<name, made, readable, window, unchecked>>

\* Second half: remove() takes the name away, from whatever file has it by now.
Remove(p) ==
  /\ Go(p, "closed", "gone")
  /\ name' = None
  /\ window' = (window \/ \E q \in Process : name # None /\ held[q] = name)
  /\ UNCHANGED <<held, made, locked, readable, unchecked>>

\* The process ends with the file in place: killed, or with m_fd = 0, for which
\* the destructor does nothing.
Die(p) ==
  /\ Linux
  /\ \E at \in {"opened", "running", "closed"} : Go(p, at, "gone")
  /\ held' = [held EXCEPT ![p] = None]
  /\ Unlock(p)
  /\ UNCHANGED <<name, made, readable, window, unchecked>>

-----------------------------------------------------------------------------
(* Windows: OpenMutex, then CreateMutex; CloseHandle. *)

\* No such mutex: this is the first instance.
OpenMutexNone(p) ==
  /\ Windows /\ name = None
  /\ Go(p, "new", "opened")
  /\ UNCHANGED <<held, name, made, locked, readable, window, unchecked>>

\* OpenMutex returns NULL although there is the mutex (access denied): the same
\* branch, which takes every NULL for a first instance.
OpenMutexDenied(p) ==
  /\ Windows /\ name # None
  /\ Go(p, "new", "opened")
  /\ unchecked' = unchecked \cup {p}
  /\ UNCHANGED <<held, name, made, locked, readable, window>>

OpenMutex(p) ==
  /\ Windows /\ name # None
  /\ Go(p, "new", "refusing")
  /\ held' = [held EXCEPT ![p] = name]
  /\ UNCHANGED <<name, made, locked, readable, window, unchecked>>

\* CreateMutex opens the mutex if somebody else has made it in the meantime.
CreateMutex(p) ==
  /\ Windows /\ Go(p, "opened", "running")
  /\ \E f \in File : Make(p, f)
  /\ window' = (window \/ (name # None /\ p \notin unchecked))
  /\ UNCHANGED <<locked, readable, unchecked>>

\* CreateMutex returns NULL: m_hMutex is not looked at, and the instance runs
\* with no mutex at all.
CreateMutexFails(p) ==
  /\ Windows /\ Go(p, "opened", "running")
  /\ unchecked' = unchecked \cup {p}
  /\ UNCHANGED <<held, name, made, locked, readable, window>>

\* By the constructor that throws, by the destructor (if there is a handle), or by
\* the kernel.
CloseHandle(p) ==
  /\ Windows
  /\ Go(p, "refusing", "refused") \/ Go(p, "running", "gone")
  /\ held' = [held EXCEPT ![p] = None]
  /\ name' = IF \E q \in Process \ {p} : held[q] = name THEN name ELSE None
  /\ UNCHANGED <<made, locked, readable, window, unchecked>>

-----------------------------------------------------------------------------
Next ==
  \E p \in Process :
    \/ Open(p) \/ OpenFails(p) \/ Flock(p) \/ FlockFails(p) \/ FlockError(p)
    \/ Close(p) \/ Remove(p) \/ Die(p)
    \/ OpenMutexNone(p) \/ OpenMutexDenied(p) \/ OpenMutex(p)
    \/ CreateMutex(p) \/ CreateMutexFails(p) \/ CloseHandle(p)

Spec == Init /\ [][Next]_vars

-----------------------------------------------------------------------------
TypeOK ==
  /\ os \in Systems
  /\ pc \in [Process -> Done \cup {"new", "opened", "refusing", "running", "closed"}]
  /\ held \in [Process -> File \cup {None}]
  /\ name \in File \cup {None}
  /\ made \in SUBSET File /\ readable \in SUBSET File
  /\ locked \in [File -> Process \cup {None}]
  /\ zero \in SUBSET Process /\ window \in BOOLEAN
  /\ unchecked \in SUBSET Process

\* "Only one instance of <name> allowed in the same time." (SingleInstance.h:43)
OnlyOneInstance == \A p, q \in Process : pc[p] = "running" /\ pc[q] = "running" => p = q

\* The same, unless a process removed the name of a file that another had open
\* (close before remove), or made a mutex that another had made since it looked,
\* or one of the two did not look at the failure of a call (NULL from OpenMutex
\* or CreateMutex).  So crashes, files left behind, failed starts and the
\* failures of third processes never let a second one in.
OneInstance ==
  \A p, q \in Process :
    pc[p] = "running" /\ pc[q] = "running" /\ p # q => window \/ ({p, q} \cap unchecked # {})

\* A start is refused only because another process runs or, on Windows, is being
\* refused at the same moment: a file that a killed process left behind does not
\* stop the next start (unless it cannot be opened at all, OpenFails).
RefusedMeansRunning ==
  [][\A p \in Process :
       pc[p] \in {"new", "opened"} /\ pc'[p] \in {"refused", "refusing"} =>
         \E q \in Process \ {p} : pc[q] \in {"running", "refusing"}]_vars

=============================================================================
