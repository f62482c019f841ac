--------------------------- MODULE IoManagerProofs ---------------------------
(***************************************************************************)
(* Proofs about IoManager for any number of workers, callers of Stop and   *)
(* IO events: the exit token stays alive, m_threadCount is exact, and one  *)
(* Stop never makes a worker fail.                                         *)
(***************************************************************************)
EXTENDS IoManager, FiniteSetTheorems, TLAPS

(***************************************************************************)
(* The inductive invariant.  TokenAlive needs to know that a worker about  *)
(* to write the token back has a value to write, and OneStopNoFailure that *)
(* a single token has a single carrier.                                    *)
(***************************************************************************)

\* The worker that took the token has at least one to write back.
HolderHasToken == \A w \in Worker : wpc[w] = "write" => val[w] > 0

\* An events array is only looked at by the worker inside the loop.
BatchInLoop == \A w \in Worker : batchExit[w] => wpc[w] = "batch"

\* Before the first Signal(true) there is no token.
NoTokenYet ==
  signals = 0 =>
    /\ counter = 0
    /\ ~readyExit
    /\ \A w \in Worker : ~batchExit[w] /\ wpc[w] # "write"

\* After exactly one, the exit event has at most one carrier: the ready list,
\* one batch, or one worker between the read and the write.
OneCarrier ==
  signals = 1 =>
    /\ readyExit => /\ counter > 0
                    /\ \A w \in Worker : ~batchExit[w] /\ wpc[w] # "write"
    /\ \A w \in Worker : batchExit[w] =>
         /\ counter > 0
         /\ \A u \in Worker : wpc[u] # "write"
         /\ \A u \in Worker \ {w} : ~batchExit[u]
    /\ \A w \in Worker : wpc[w] = "write" =>
         /\ counter = 0
         /\ \A u \in Worker \ {w} : wpc[u] # "write"

IInv ==
  /\ IoTypeOK
  /\ HolderHasToken
  /\ BatchInLoop
  /\ NoTokenYet
  /\ OneCarrier
  /\ TokenAlive
  /\ CountIsExact
  /\ OneStopNoFailure

-----------------------------------------------------------------------------
(* The set CountIsExact counts. *)
Counted == {w \in Worker : wpc[w] # "exited"}

(* Steps that move no worker to "exited" leave the count alone, and the last *)
(* step of a worker takes exactly that worker out.                           *)
LEMMA CountKept ==
  ASSUME CountIsExact, m_threadCount' = m_threadCount,
         \A w \in Worker : wpc'[w] # "exited" <=> wpc[w] # "exited"
  PROVE  CountIsExact'
<1>1. {w \in Worker : wpc'[w] # "exited"} = {w \in Worker : wpc[w] # "exited"}
  OBVIOUS
<1>2. QED
  BY <1>1 DEF CountIsExact

LEMMA CountDropped ==
  ASSUME IoTypeOK, CountIsExact, NEW w \in Worker, Leave(w)
  PROVE  CountIsExact' /\ m_threadCount' \in Nat
<1>1. IsFiniteSet(Counted) /\ w \in Counted
  BY IoWorkers, FS_Subset DEF Counted, Leave, Go
<1>2. {u \in Worker : wpc'[u] # "exited"} = Counted \ {w}
  BY DEF Counted, Leave, Go, IoTypeOK
<1>3. Cardinality(Counted \ {w}) = Cardinality(Counted) - 1
  BY <1>1, FS_RemoveElement
<1>4. m_threadCount' = m_threadCount - 1 /\ m_threadCount = Cardinality(Counted)
  BY DEF Leave, CountIsExact, Counted
<1>5. CountIsExact'
  BY <1>2, <1>3, <1>4 DEF CountIsExact
<1>6. Cardinality(Counted \ {w}) \in Nat
  BY <1>1, FS_Subset, FS_CardinalityType
<1>7. QED
  BY <1>3, <1>4, <1>5, <1>6

LEMMA InitIInv == IoInit => IInv
<1> SUFFICES ASSUME IoInit PROVE IInv
  OBVIOUS
<1>1. Cardinality(Worker) \in Nat
  BY IoWorkers, FS_CardinalityType
<1>2. IoTypeOK
  BY <1>1 DEF IoInit, IoTypeOK, WorkerPhase, StopPhase
<1>3. {w \in Worker : wpc[w] # "exited"} = Worker
  BY DEF IoInit
<1>4. CountIsExact
  BY <1>3 DEF IoInit, CountIsExact
<1>5. QED
  BY <1>2, <1>4 DEF IoInit, IInv, HolderHasToken, BatchInLoop, NoTokenYet, OneCarrier,
       TokenAlive, OneStopNoFailure

\* Everything but the count, which the two lemmas above take care of.
TokenInv ==
  /\ HolderHasToken
  /\ BatchInLoop
  /\ NoTokenYet
  /\ OneCarrier
  /\ TokenAlive
  /\ OneStopNoFailure

LEMMA NextIInv == IInv /\ [IoNext]_ioVars => IInv'
<1> SUFFICES ASSUME IInv, [IoNext]_ioVars PROVE IInv'
  OBVIOUS
<1> USE DEF IInv, IoTypeOK, TokenInv, HolderHasToken, BatchInLoop, NoTokenYet, OneCarrier,
        TokenAlive, OneStopNoFailure, WorkerPhase, StopPhase,
        kernel, batches, history, Go, WriteEventfd
<1> HIDE DEF IInv
<1>1. ASSUME NEW w \in Worker, Enter(w) PROVE IInv'
  <2>1. IoTypeOK'
    BY <1>1 DEF Enter, IInv
  <2>2. TokenInv'
    BY <1>1 DEF Enter, IInv
  <2>3. CountIsExact'
    BY <1>1, CountKept DEF Enter, IInv
  <2>4. QED
    BY <2>1, <2>2, <2>3 DEF IInv
<1>2. ASSUME NEW w \in Worker, Harvest(w) PROVE IInv'
  <2>1. IoTypeOK'
    BY <1>2 DEF Harvest, IInv
  <2>2. TokenInv'
    BY <1>2 DEF Harvest, IInv
  <2>3. CountIsExact'
    BY <1>2, CountKept DEF Harvest, IInv
  <2>4. QED
    BY <2>1, <2>2, <2>3 DEF IInv
<1>3. ASSUME NEW w \in Worker, CompleteIo(w) PROVE IInv'
  <2>1. IoTypeOK'
    BY <1>3 DEF CompleteIo, IInv
  <2>2. TokenInv'
    BY <1>3 DEF CompleteIo, IInv
  <2>3. CountIsExact'
    BY <1>3, CountKept DEF CompleteIo, IInv
  <2>4. QED
    BY <2>1, <2>2, <2>3 DEF IInv
<1>4. ASSUME NEW w \in Worker, CompleteThrows(w) PROVE IInv'
  <2>1. IoTypeOK'
    BY <1>4 DEF CompleteThrows, IInv
  <2>2. TokenInv'
    BY <1>4 DEF CompleteThrows, IInv
  <2>3. CountIsExact'
    BY <1>4, CountKept DEF CompleteThrows, IInv
  <2>4. QED
    BY <2>1, <2>2, <2>3 DEF IInv
<1>5. ASSUME NEW w \in Worker, Again(w) PROVE IInv'
  <2>1. IoTypeOK'
    BY <1>5 DEF Again, IInv
  <2>2. TokenInv'
    BY <1>5 DEF Again, IInv
  <2>3. CountIsExact'
    BY <1>5, CountKept DEF Again, IInv
  <2>4. QED
    BY <2>1, <2>2, <2>3 DEF IInv
<1>6. ASSUME NEW w \in Worker, ReadToken(w) PROVE IInv'
  <2>1. IoTypeOK'
    BY <1>6 DEF ReadToken, IInv
  <2>2. TokenInv'
    BY <1>6 DEF ReadToken, IInv
  <2>3. CountIsExact'
    BY <1>6, CountKept DEF ReadToken, IInv
  <2>4. QED
    BY <2>1, <2>2, <2>3 DEF IInv
<1>7. ASSUME NEW w \in Worker, ReadNothing(w) PROVE IInv'
  <2>1. IoTypeOK'
    BY <1>7 DEF ReadNothing, IInv
  <2>2. TokenInv'
    BY <1>7 DEF ReadNothing, IInv
  <2>3. CountIsExact'
    BY <1>7, CountKept DEF ReadNothing, IInv
  <2>4. QED
    BY <2>1, <2>2, <2>3 DEF IInv
<1>8. ASSUME NEW w \in Worker, WriteToken(w) PROVE IInv'
  <2>1. IoTypeOK'
    BY <1>8 DEF WriteToken, IInv
  <2>2. TokenInv'
    BY <1>8 DEF WriteToken, IInv
  <2>3. CountIsExact'
    BY <1>8, CountKept DEF WriteToken, IInv
  <2>4. QED
    BY <2>1, <2>2, <2>3 DEF IInv
<1>9. ASSUME NEW w \in Worker, Leave(w) PROVE IInv'
  <2>1. CountIsExact' /\ m_threadCount' \in Nat
    BY <1>9, CountDropped DEF IInv
  <2>2. IoTypeOK'
    BY <1>9, <2>1 DEF Leave, IInv
  <2>3. TokenInv'
    BY <1>9 DEF Leave, IInv
  <2>4. QED
    BY <2>1, <2>2, <2>3 DEF IInv
<1>10. CASE Arrive
  <2>1. IoTypeOK'
    BY <1>10 DEF Arrive, IInv
  <2>2. TokenInv'
    BY <1>10 DEF Arrive, IInv
  <2>3. CountIsExact'
    BY <1>10, CountKept DEF Arrive, IInv
  <2>4. QED
    BY <2>1, <2>2, <2>3 DEF IInv
<1>11. ASSUME NEW s \in Stopper, CallStop(s) PROVE IInv'
  <2>1. IoTypeOK'
    BY <1>11 DEF CallStop, IInv
  <2>2. TokenInv'
    BY <1>11 DEF CallStop, IInv
  <2>3. CountIsExact'
    BY <1>11, CountKept DEF CallStop, IInv
  <2>4. QED
    BY <2>1, <2>2, <2>3 DEF IInv
<1>12. ASSUME NEW s \in Stopper, StopReturns(s) PROVE IInv'
  <2>1. IoTypeOK'
    BY <1>12 DEF StopReturns, IInv
  <2>2. TokenInv'
    BY <1>12 DEF StopReturns, IInv
  <2>3. CountIsExact'
    BY <1>12, CountKept DEF StopReturns, IInv
  <2>4. QED
    BY <2>1, <2>2, <2>3 DEF IInv
<1>13. ASSUME NEW s \in Stopper, StopGoesOn(s) PROVE IInv'
  <2>1. IoTypeOK'
    BY <1>13 DEF StopGoesOn, IInv
  <2>2. TokenInv'
    BY <1>13 DEF StopGoesOn, IInv
  <2>3. CountIsExact'
    BY <1>13, CountKept DEF StopGoesOn, IInv
  <2>4. QED
    BY <2>1, <2>2, <2>3 DEF IInv
<1>14. ASSUME NEW s \in Stopper, StopSignals(s) PROVE IInv'
  <2>1. IoTypeOK'
    BY <1>14 DEF StopSignals, IInv
  <2>2. TokenInv'
    BY <1>14 DEF StopSignals, IInv
  <2>3. CountIsExact'
    BY <1>14, CountKept DEF StopSignals, IInv
  <2>4. QED
    BY <2>1, <2>2, <2>3 DEF IInv
<1>15. CASE UNCHANGED ioVars
  BY <1>15 DEF ioVars, IInv, CountIsExact
<1>16. QED
  BY <1>1, <1>2, <1>3, <1>4, <1>5, <1>6, <1>7, <1>8, <1>9, <1>10, <1>11, <1>12, <1>13, <1>14, <1>15 DEF IoNext, RunStep, StopStep

(* The invariant holds in every reachable state. *)
THEOREM Invariant == IoSpec => []IInv
  BY InitIInv, NextIInv, PTL DEF IoSpec

(* Type correctness; in particular the unsigned m_threadCount never wraps. *)
THEOREM TypeCorrect == IoSpec => []IoTypeOK
  BY Invariant, PTL DEF IInv

(* Whatever the interleaving of workers, IO events and Stop calls, the exit  *)
(* token is lost by an exception in the same batch or not at all.            *)
THEOREM TokenStaysAlive == IoSpec => []TokenAlive
  BY Invariant, PTL DEF IInv

(* m_threadCount counts exactly the workers that have not left by the exit   *)
(* event, so Stop skips its signal only when no worker is left to wake.      *)
THEOREM ThreadCountExact == IoSpec => []CountIsExact
  BY Invariant, PTL DEF IInv

(* One Stop never makes a worker's eventfd_read fail with EAGAIN. *)
THEOREM OneStopIsClean == IoSpec => []OneStopNoFailure
  BY Invariant, PTL DEF IInv

=============================================================================
