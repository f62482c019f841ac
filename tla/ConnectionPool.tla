--------------------------- MODULE ConnectionPool ---------------------------
(***************************************************************************)
(* What the connection manager promises to the threads of the server, with *)
(* no lock, no lists and no intermediate steps.  A connection object is    *)
(* either not created yet, free, in the hands of one thread, live (its     *)
(* socket belongs to a peer and no thread has it), or lost.                *)
(*                                                                         *)
(* The promise: an object goes to one holder at a time, a free object is   *)
(* reused before a new one is made, and only its holder gives it back.     *)
(***************************************************************************)
EXTENDS Naturals

CONSTANTS
  Thread,     \* threads that use the manager
  Conn,       \* every connection object memory has room for
  Prealloc    \* the objects the manager creates in its constructor

VARIABLE holder     \* holder[c]: who has connection object c

State == {"absent", "free", "live", "lost"}

PoolTypeOK == holder \in [Conn -> State \cup Thread]

PoolInit == holder = [c \in Conn |-> IF c \in Prealloc THEN "free" ELSE "absent"]

(* Hand a free object to t, or a new one when none is free. *)
Acquire(t) ==
  \E c \in Conn :
    /\ \/ holder[c] = "free"
       \/ holder[c] = "absent" /\ \A d \in Conn : holder[d] # "free"
    /\ holder' = [holder EXCEPT ![c] = t]

(* The object t holds got a socket: it now serves a peer. *)
Publish(t) ==
  \E c \in Conn :
    /\ holder[c] = t
    /\ holder' = [holder EXCEPT ![c] = "live"]

(* The peer of a live object is gone: t takes the object back. *)
TakeBack(t) ==
  \E c \in Conn :
    /\ holder[c] = "live"
    /\ holder' = [holder EXCEPT ![c] = t]

(* t returns the object it holds. *)
Return(t) ==
  \E c \in Conn :
    /\ holder[c] = t
    /\ holder' = [holder EXCEPT ![c] = "free"]

(* t is ended by an exception and takes its object with it. *)
Lose(t) ==
  \E c \in Conn :
    /\ holder[c] = t
    /\ holder' = [holder EXCEPT ![c] = "lost"]

PoolNext ==
  \E t \in Thread : Acquire(t) \/ Publish(t) \/ TakeBack(t) \/ Return(t) \/ Lose(t)

PoolSpec == PoolInit /\ [][PoolNext]_holder

=============================================================================
