------------------------- MODULE DataExchangeProofs -------------------------
(***************************************************************************)
(* Proofs about DataExchange for every size of the buffers, every number   *)
(* of clients and lines and lines of every length: what a client is sent   *)
(* back, what it shows and what it takes for SIGPIPE to end the server.    *)
(***************************************************************************)
EXTENDS DataExchange, SequenceTheorems, FiniteSetTheorems, TLAPS

(***************************************************************************)
(* The inductive invariant: where the bytes of a client are between the    *)
(* step that types them and the step that shows them, and what m_readBuf   *)
(* holds at each point of OnDataExchangeComplete.                          *)
(***************************************************************************)

\* Every variable has its type.
ClientOK ==
  /\ cpc \in {"type", "recv", "closed", "off"} /\ id \in Nat
  /\ lines \in Nat
  /\ input \in Seq(Nat) /\ typed \in Seq(Nat) /\ shown \in Seq(Nat)
NetworkOK ==
  /\ net \in Seq(Nat) /\ inbox \in Seq(Nat) /\ back \in Seq(Nat)
  /\ event \in BOOLEAN
  /\ fin \in {"no", "due", "in"} /\ rst \in {"no", "due", "in"}
WorkerOK ==
  /\ pc \in {"wait", "read", "write", "reread", "clear"}
  /\ rbuf \in [1 .. BufSize -> Nat]
  /\ res \in 0 .. BufSize
  /\ data \in Seq(Nat)
  /\ workers \in Nat /\ killed \in BOOLEAN
HistoryOK ==
  /\ echo \in Seq(Nat)
  /\ torn \in BOOLEAN /\ swallowed \in BOOLEAN /\ left \in BOOLEAN /\ cut \in BOOLEAN
TypeOK == ClientOK /\ NetworkOK /\ WorkerOK /\ HistoryOK

\* A connection that is being closed has no answers on their way, and the next
\* client finds nothing of the last one, except what m_readBuf has kept.
CloseInv ==
  /\ fin # "no" \/ rst # "no" => cpc = "closed"
  /\ cpc \in {"closed", "off"} => back = <<>>
  /\ fin = "in" \/ rst = "in" => net = <<>>
  /\ cpc = "off" =>
       /\ net = <<>> /\ inbox = <<>> /\ typed = <<>> /\ input = <<>> /\ shown = <<>>
       /\ echo = <<>>
       /\ ~event /\ pc = "wait"

\* s and t agree as far as both go.
Agree(s, t) == \A i \in 1 .. Len(s) : i <= Len(t) => s[i] = t[i]

\* As long as lines travel in one piece the last one is in one place: on its way
\* to the worker, in the worker's hands, or on its way back.
Travels == net # <<>> \/ inbox # <<>>
OnePiece ==
  /\ Travels =>
       /\ inbox \o net = input
       /\ cpc \in {"recv", "closed"} /\ pc # "write" /\ back = <<>> /\ rst = "no"
  /\ pc = "write" =>
       /\ ~Travels /\ back = <<>> /\ rst = "no" /\ cpc \in {"recv", "closed"}
       /\ Agree(data, input)
  /\ back # <<>> => ~Travels /\ cpc = "recv" /\ Agree(back, input)
LineInv == ~torn => OnePiece

\* Before a read m_readBuf is clear, after it as far as nothing was read into it,
\* unless Clear was left out or did not clear what had been read.
BufferInv ==
  ~swallowed /\ ~left =>
    \A i \in 1 .. BufSize :
      pc \in {"wait", "read"} \/ i > res => rbuf[i] = 0

\* The bytes that the worker still has to write.
Pending == IF pc = "write" THEN data ELSE <<>>

\* All bytes on their way are the client's own.
OwnInv ==
  ~swallowed /\ ~left =>
    /\ Chars(echo) \subseteq Chars(typed)
    /\ Chars(Pending) \subseteq Chars(typed)
    /\ Chars(inbox) \subseteq Chars(typed)
    /\ Chars(net) \subseteq Chars(typed)

\* They are on their way in the order in which they were typed.
OrderInv ==
  ~swallowed /\ ~left /\ ~cut =>
    /\ IsPrefix(echo, typed)
    /\ typed = ((echo \o Pending) \o inbox) \o net

-----------------------------------------------------------------------------
(* What the operators of the model do to sequences. *)

\* The beginning of a sequence and what Takes leaves make up the sequence.
LEMMA Pieces ==
  ASSUME NEW s \in Seq(Nat), NEW n \in 0 .. Len(s)
  PROVE  /\ SubSeq(s, 1, n) \in Seq(Nat) /\ Len(SubSeq(s, 1, n)) = n
         /\ \A i \in 1 .. n : SubSeq(s, 1, n)[i] = s[i]
         /\ Takes(s, n) \in Seq(Nat) /\ Len(Takes(s, n)) = Len(s) - n
         /\ \A i \in 1 .. Len(s) - n : Takes(s, n)[i] = s[n + i]
         /\ SubSeq(s, 1, n) \o Takes(s, n) = s
         /\ n = Len(s) => SubSeq(s, 1, n) = s /\ Takes(s, n) = <<>>
<1>1. Len(s) \in Nat /\ n \in Nat /\ n <= Len(s) /\ \A i \in 1 .. Len(s) : s[i] \in Nat
  BY LenProperties, ElementOfSeq
<1>2. /\ SubSeq(s, 1, n) \in Seq(Nat) /\ Len(SubSeq(s, 1, n)) = n
      /\ \A i \in 1 .. n : SubSeq(s, 1, n)[i] = s[i]
  <2>1. \A i \in 1 .. n : s[i] \in Nat
    BY <1>1
  <2>2. /\ SubSeq(s, 1, n) \in Seq(Nat)
        /\ Len(SubSeq(s, 1, n)) = IF 1 <= n THEN n - 1 + 1 ELSE 0
        /\ \A i \in 1 .. n - 1 + 1 : SubSeq(s, 1, n)[i] = s[1 + i - 1]
    BY <1>1, <2>1, SubSeqProperties
  <2>3. QED
    BY <1>1, <2>2
<1>3. /\ Takes(s, n) \in Seq(Nat) /\ Len(Takes(s, n)) = Len(s) - n
      /\ \A i \in 1 .. Len(s) - n : Takes(s, n)[i] = s[n + i]
  <2>1. \A i \in n + 1 .. Len(s) : s[i] \in Nat
    BY <1>1
  <2>2. /\ SubSeq(s, n + 1, Len(s)) \in Seq(Nat)
        /\ Len(SubSeq(s, n + 1, Len(s))) = IF n + 1 <= Len(s) THEN Len(s) - (n + 1) + 1 ELSE 0
        /\ \A i \in 1 .. Len(s) - (n + 1) + 1 : SubSeq(s, n + 1, Len(s))[i] = s[n + 1 + i - 1]
    <3>1. n + 1 \in Int /\ Len(s) \in Int
      BY <1>1
    <3>2. QED
      BY <2>1, <3>1, SubSeqProperties
  <2>3. QED
    BY <1>1, <2>2 DEF Takes
<1>4. SubSeq(s, 1, n) \o Takes(s, n) = s
  <2>1. /\ SubSeq(s, 1, n) \o Takes(s, n) \in Seq(Nat)
        /\ Len(SubSeq(s, 1, n) \o Takes(s, n)) = n + (Len(s) - n)
        /\ \A i \in 1 .. n + (Len(s) - n) :
             (SubSeq(s, 1, n) \o Takes(s, n))[i] =
               IF i <= n THEN SubSeq(s, 1, n)[i] ELSE Takes(s, n)[i - n]
    BY <1>2, <1>3, ConcatProperties
  <2>2. \A i \in 1 .. Len(s) : (SubSeq(s, 1, n) \o Takes(s, n))[i] = s[i]
    BY <1>1, <1>2, <1>3, <2>1
  <2>3. Len(SubSeq(s, 1, n) \o Takes(s, n)) = Len(s)
    BY <1>1, <2>1
  <2>4. QED
    BY <2>1, <2>2, <2>3, SeqEqual
<1>5. n = Len(s) => SubSeq(s, 1, n) = s /\ Takes(s, n) = <<>>
  <2>1. ASSUME n = Len(s) PROVE Takes(s, n) = <<>>
    BY <1>1, <1>3, <2>1, EmptySeq
  <2>2. QED
    BY <2>1, SubSeqFull
<1>6. QED
  BY <1>2, <1>3, <1>4, <1>5

\* Every element of a concatenation is one of the two parts'.
LEMMA CharsOfConcat ==
  ASSUME NEW s \in Seq(Nat), NEW u \in Seq(Nat)
  PROVE  Chars(s \o u) = Chars(s) \cup Chars(u)
<1>1. /\ s \o u \in Seq(Nat) /\ Len(s \o u) = Len(s) + Len(u)
      /\ \A i \in 1 .. Len(s) + Len(u) :
           (s \o u)[i] = IF i <= Len(s) THEN s[i] ELSE u[i - Len(s)]
  BY ConcatProperties
<1>2. /\ Len(s) \in Nat /\ Len(u) \in Nat
      /\ DOMAIN s = 1 .. Len(s) /\ DOMAIN u = 1 .. Len(u)
      /\ DOMAIN (s \o u) = 1 .. Len(s) + Len(u)
  BY <1>1, LenProperties
<1>3. Chars(s \o u) \subseteq Chars(s) \cup Chars(u)
  <2>1. ASSUME NEW i \in 1 .. Len(s) + Len(u)
        PROVE  \/ i \in 1 .. Len(s) /\ (s \o u)[i] = s[i]
               \/ i - Len(s) \in 1 .. Len(u) /\ (s \o u)[i] = u[i - Len(s)]
    BY <1>1, <1>2
  <2>2. QED
    BY <1>2, <2>1 DEF Chars
<1>4. Chars(s) \subseteq Chars(s \o u)
  <2>1. ASSUME NEW i \in 1 .. Len(s)
        PROVE  i \in 1 .. Len(s) + Len(u) /\ (s \o u)[i] = s[i]
    BY <1>1, <1>2
  <2>2. QED
    BY <1>2, <2>1 DEF Chars
<1>5. Chars(u) \subseteq Chars(s \o u)
  <2>1. ASSUME NEW i \in 1 .. Len(u)
        PROVE  i + Len(s) \in 1 .. Len(s) + Len(u) /\ (s \o u)[i + Len(s)] = u[i]
    BY <1>1, <1>2
  <2>2. QED
    BY <1>2, <2>1 DEF Chars
<1>6. QED
  BY <1>3, <1>4, <1>5

\* Nothing is in the empty sequence, and a piece holds what the whole holds.
LEMMA CharsOfPieces ==
  ASSUME NEW s \in Seq(Nat), NEW n \in 0 .. Len(s)
  PROVE  /\ Chars(SubSeq(s, 1, n)) \subseteq Chars(s)
         /\ Chars(Takes(s, n)) \subseteq Chars(s)
<1>1. /\ SubSeq(s, 1, n) \in Seq(Nat) /\ Takes(s, n) \in Seq(Nat)
      /\ SubSeq(s, 1, n) \o Takes(s, n) = s
  BY Pieces
<1>2. Chars(SubSeq(s, 1, n) \o Takes(s, n)) = Chars(SubSeq(s, 1, n)) \cup Chars(Takes(s, n))
  BY <1>1, CharsOfConcat
<1>3. QED
  BY <1>1, <1>2

LEMMA CharsOfEmpty == Chars(<<>>) = {}
  BY DEF Chars

\* A sequence is a prefix of another when that continues it.
LEMMA PrefixOfConcat ==
  ASSUME NEW s \in Seq(Nat), NEW u \in Seq(Nat), NEW w \in Seq(Nat), w = s \o u
  PROVE  IsPrefix(s, w)
<1>1. /\ Len(w) = Len(s) + Len(u)
      /\ \A i \in 1 .. Len(s) + Len(u) : w[i] = IF i <= Len(s) THEN s[i] ELSE u[i - Len(s)]
  BY ConcatProperties
<1>2. Len(s) \in Nat /\ Len(u) \in Nat /\ Len(s) \in 0 .. Len(w) /\ Len(s) \in 0 .. Len(s)
  BY <1>1, LenProperties
<1>3. SubSeq(s, 1, Len(s)) = s
  BY SubSeqFull
<1>4. SubSeq(w, 1, Len(s)) = s
  <2>1. /\ SubSeq(w, 1, Len(s)) \in Seq(Nat) /\ Len(SubSeq(w, 1, Len(s))) = Len(s)
        /\ \A i \in 1 .. Len(s) : SubSeq(w, 1, Len(s))[i] = w[i]
    BY <1>2, Pieces
  <2>2. \A i \in 1 .. Len(s) : SubSeq(w, 1, Len(s))[i] = s[i]
    BY <1>1, <1>2, <2>1
  <2>3. QED
    BY <2>1, <2>2, SeqEqual
<1>5. QED
  BY <1>1, <1>2, <1>3, <1>4 DEF IsPrefix

LEMMA PrefixGrows ==
  ASSUME NEW s \in Seq(Nat), NEW w \in Seq(Nat), NEW u \in Seq(Nat), IsPrefix(s, w)
  PROVE  IsPrefix(s, w \o u)
<1>1. Len(s) \in Nat /\ Len(w) \in Nat /\ Len(u) \in Nat /\ Len(s) <= Len(w)
  BY LenProperties DEF IsPrefix
<1>2. /\ w \o u \in Seq(Nat) /\ Len(w \o u) = Len(w) + Len(u)
      /\ \A i \in 1 .. Len(w) : (w \o u)[i] = w[i]
  BY <1>1, ConcatProperties
<1>3. /\ SubSeq(w, 1, Len(s)) \in Seq(Nat) /\ Len(SubSeq(w, 1, Len(s))) = Len(s)
      /\ \A i \in 1 .. Len(s) : SubSeq(w, 1, Len(s))[i] = w[i]
  <2>1. Len(s) \in 0 .. Len(w)
    BY <1>1
  <2>2. QED
    BY <2>1, Pieces
<1>4. /\ SubSeq(w \o u, 1, Len(s)) \in Seq(Nat) /\ Len(SubSeq(w \o u, 1, Len(s))) = Len(s)
      /\ \A i \in 1 .. Len(s) : SubSeq(w \o u, 1, Len(s))[i] = (w \o u)[i]
  <2>1. Len(s) \in 0 .. Len(w \o u)
    BY <1>1, <1>2
  <2>2. QED
    BY <1>2, <2>1, Pieces
<1>5. \A i \in 1 .. Len(s) : SubSeq(w \o u, 1, Len(s))[i] = SubSeq(w, 1, Len(s))[i]
  BY <1>1, <1>2, <1>3, <1>4
<1>6. SubSeq(w \o u, 1, Len(s)) = SubSeq(w, 1, Len(s))
  BY <1>3, <1>4, <1>5, SeqEqual
<1>7. QED
  BY <1>1, <1>2, <1>6 DEF IsPrefix

\* GetInputData returns the buffer up to its first zero, or all of it.  (The
\* numbers it takes the maximum of are the first ones: as many as there are.)
LEMMA InputData ==
  ASSUME NEW buf \in [1 .. BufSize -> Nat]
  PROVE  \E m \in 0 .. BufSize :
           /\ GetInputData(buf) \in Seq(Nat) /\ Len(GetInputData(buf)) = m
           /\ \A i \in 1 .. m : GetInputData(buf)[i] = buf[i] /\ buf[i] # 0
           /\ m < BufSize => buf[m + 1] = 0
<1> DEFINE T == {n \in 0 .. BufSize : \A i \in 1 .. n : buf[i] # 0}
           k == Cardinality(T)
<1>0. BufSize \in Nat
  BY ExchangeBounds
<1>1. IsFiniteSet(T) /\ k \in Nat /\ 0 \in T
  <2>1. IsFiniteSet(0 .. BufSize)
    BY <1>0, FS_Interval
  <2>2. IsFiniteSet(T)
    BY <2>1, FS_Subset
  <2>3. QED
    BY <1>0, <2>2, FS_CardinalityType
<1>2. ASSUME NEW n \in T PROVE n < k
  <2>1. 0 .. n \subseteq T /\ n \in Nat
    BY <1>0
  <2>2. Cardinality(0 .. n) = n + 1
    BY <2>1, FS_Interval
  <2>3. Cardinality(0 .. n) <= k
    BY <1>1, <2>1, FS_Subset
  <2>4. QED
    BY <1>1, <2>1, <2>2, <2>3
<1>3. /\ T \subseteq Nat
      /\ \A n \in T : n <= BufSize /\ \A i \in 1 .. n : buf[i] # 0
      /\ \A n \in Nat : n <= BufSize /\ (\A i \in 1 .. n : buf[i] # 0) => n \in T
      /\ T = {n \in 0 .. BufSize : \A i \in 1 .. n : buf[i] # 0}
  BY <1>0
<1> HIDE DEF T, k
<1>4. 0 < k /\ T \subseteq 0 .. k - 1
  BY <1>1, <1>2, <1>3
<1>5. T = 0 .. k - 1
  <2>1. /\ IsFiniteSet(0 .. k - 1)
        /\ Cardinality(0 .. k - 1) = IF 0 > k - 1 THEN 0 ELSE k - 1 - 0 + 1
    <3>1. 0 \in Int /\ k - 1 \in Int
      BY <1>1
    <3>2. QED
      BY <3>1, FS_Interval
  <2>2. Cardinality(0 .. k - 1) = k
    BY <1>1, <1>4, <2>1
  <2>3. Cardinality(T) = k
    BY DEF k
  <2>4. QED
    BY <1>4, <2>1, <2>2, <2>3, FS_Subset
<1>6. PICK m \in Nat : m \in T /\ T = 0 .. m
  BY <1>1, <1>4, <1>5
<1>7. Max(T) = m
  BY <1>6 DEF Max
<1>8. GetInputData(buf) = SubSeq(buf, 1, m)
  BY <1>3, <1>7 DEF GetInputData
<1>9. m \in 0 .. BufSize /\ \A i \in 1 .. m : buf[i] # 0 /\ buf[i] \in Nat
  BY <1>0, <1>3, <1>6
<1>10. /\ GetInputData(buf) \in Seq(Nat) /\ Len(GetInputData(buf)) = m
       /\ \A i \in 1 .. m : GetInputData(buf)[i] = buf[i]
  <2>1. 1 \in Int /\ m \in Int /\ \A i \in 1 .. m : buf[i] \in Nat
    BY <1>6, <1>9
  <2>2. /\ SubSeq(buf, 1, m) \in Seq(Nat)
        /\ Len(SubSeq(buf, 1, m)) = IF 1 <= m THEN m - 1 + 1 ELSE 0
        /\ \A i \in 1 .. m - 1 + 1 : SubSeq(buf, 1, m)[i] = buf[1 + i - 1]
    BY <2>1, SubSeqProperties
  <2>3. QED
    BY <1>6, <1>8, <2>2
<1>11. m < BufSize => buf[m + 1] = 0
  <2>1. ASSUME m < BufSize, buf[m + 1] # 0 PROVE FALSE
    <3>1. m + 1 \in Nat /\ m + 1 <= BufSize /\ \A i \in 1 .. m + 1 : buf[i] # 0
      BY <1>0, <1>6, <1>9, <2>1
    <3>2. m + 1 \in T
      BY <1>3, <3>1
    <3>3. QED
      BY <1>6, <3>2
  <2>2. QED
    BY <2>1
<1>12. QED
  BY <1>9, <1>10, <1>11

\* What a read takes: at least one byte, at most what the buffer holds.
LEMMA PortionFacts ==
  ASSUME inbox \in Seq(Nat), inbox # <<>>
  PROVE  /\ Portion \in Seq(Nat)
         /\ Len(Portion) \in 1 .. BufSize /\ Len(Portion) \in 0 .. Len(inbox)
         /\ Portion = SubSeq(inbox, 1, Len(Portion))
         /\ Takes(inbox, Len(Portion)) \in Seq(Nat)
         /\ Portion \o Takes(inbox, Len(Portion)) = inbox
<1> DEFINE n == IF Len(inbox) < BufSize THEN Len(inbox) ELSE BufSize
<1>1. n \in 1 .. BufSize /\ n \in 0 .. Len(inbox) /\ Portion = SubSeq(inbox, 1, n)
  <2>1. Len(inbox) \in Nat \ {0}
    BY EmptySeq
  <2>2. QED
    BY <2>1, ExchangeBounds DEF Portion
<1>2. Len(SubSeq(inbox, 1, n)) = n
  BY <1>1, Pieces
<1> HIDE DEF n
<1>3. Len(Portion) = n
  BY <1>1, <1>2
<1>4. QED
  BY <1>1, <1>3, Pieces

\* What the buffer holds after a read.
LEMMA OverwriteFacts ==
  ASSUME NEW buf \in [1 .. BufSize -> Nat], NEW s \in Seq(Nat), Len(s) <= BufSize
  PROVE  /\ Overwrite(buf, s) \in [1 .. BufSize -> Nat]
         /\ \A i \in 1 .. BufSize : Overwrite(buf, s)[i] = IF i <= Len(s) THEN s[i] ELSE buf[i]
<1>1. Len(s) \in Nat /\ \A i \in 1 .. Len(s) : s[i] \in Nat
  BY LenProperties, ElementOfSeq
<1>2. \A i \in 1 .. BufSize : (IF i <= Len(s) THEN s[i] ELSE buf[i]) \in Nat
  BY <1>1, ExchangeBounds
<1>3. QED
  BY <1>2 DEF Overwrite

-----------------------------------------------------------------------------
(* The invariant, part by part. *)

\* A step of a discarding read: it takes a portion, or changes nothing.
LEMMA DiscardingReadFacts ==
  ASSUME TypeOK, NEW from, NEW to, DiscardingRead(from, to)
  PROVE  /\ pc = from /\ pc' = to
         /\ UNCHANGED <<client, net, event, fin, rst, back, workers, res, data, killed, echo,
                        left, cut>>
         /\ \/ /\ inbox # <<>> /\ swallowed' = TRUE
               /\ inbox' = Takes(inbox, Len(Portion))
               /\ rbuf' = Overwrite(rbuf, Portion)
               /\ torn' = (torn \/ Len(Portion) # Len(input))
            \/ UNCHANGED <<rbuf, inbox, torn, swallowed>>
  BY DEF DiscardingRead, ReadPortion, Go

\* The steps in which an exception ends a worker.
Throws ==
  \/ ReadThrows \/ WriteThrows
  \/ DiscardingThrows("reread") /\ left' = TRUE
  \/ cpc # "off" /\ DiscardingThrows("wait") /\ UNCHANGED left

\* They move no byte and clear none, and from the write on they are recorded.
LEMMA ThrowFacts ==
  ASSUME TypeOK, Throws
  PROVE  /\ pc' = "wait" /\ workers' = workers - 1 /\ workers' \in Nat
         /\ res' = 0 /\ data' = <<>>
         /\ UNCHANGED <<client, net, inbox, event, rst, back, rbuf, killed, echo, torn,
                        swallowed, cut>>
         /\ fin' = fin \/ (fin' = "in" /\ rst = "in")
         /\ \/ pc \in {"write", "reread"} /\ left' = TRUE
            \/ pc \in {"wait", "read"} /\ left' = left
<1>1. Throw /\ pc' = "wait" /\ workers \in Nat /\ workers > 0
  BY DEF Throws, ReadThrows, WriteThrows, DiscardingThrows, Go, TypeOK, WorkerOK
<1>2. fin' = fin \/ (fin' = "in" /\ rst = "in")
  BY DEF Throws, ReadThrows, WriteThrows, DiscardingThrows, Reported, IsReset
<1>3. \/ pc \in {"write", "reread"} /\ left' = TRUE
      \/ pc \in {"wait", "read"} /\ left' = left
  BY DEF Throws, ReadThrows, WriteThrows, DiscardingThrows, Go
<1>4. workers' = workers - 1 /\ workers' \in Nat
  BY <1>1 DEF Throw
<1>5. /\ res' = 0 /\ data' = <<>>
      /\ UNCHANGED <<client, net, inbox, event, rst, back, rbuf, killed, echo, torn,
                     swallowed, cut>>
  BY <1>1 DEF Throw
<1>6. QED
  BY ONLY <1>1, <1>2, <1>3, <1>4, <1>5

\* The two discarded reads.
LEMMA Discarded ==
  ASSUME Reread \/ OtherAccepted
  PROVE  \/ DiscardingRead("reread", "clear")
         \/ cpc # "off" /\ DiscardingRead("wait", "wait")
         \/ Throws
  BY DEF Reread, OtherAccepted, Throws

\* What ReadData finds in m_readBuf and hands on.
LEMMA ReadDataFacts ==
  ASSUME TypeOK, ReadData
  PROVE  /\ inbox # <<>> /\ inbox' = Takes(inbox, Len(Portion))
         /\ rbuf' = Overwrite(rbuf, Portion) /\ rbuf' \in [1 .. BufSize -> Nat]
         /\ res' = Len(Portion) /\ data' \in Seq(Nat)
         /\ Len(data') <= BufSize
         /\ \A i \in 1 .. Len(data') : data'[i] = rbuf'[i] /\ rbuf'[i] # 0
         /\ Len(data') < BufSize => rbuf'[Len(data') + 1] = 0
<1>1. /\ inbox # <<>> /\ inbox' = Takes(inbox, Len(Portion))
      /\ rbuf' = Overwrite(rbuf, Portion)
      /\ res' = Len(Portion) /\ data' = GetInputData(rbuf')
  BY DEF ReadData, ReadPortion
<1>2. Portion \in Seq(Nat) /\ Len(Portion) <= BufSize
  BY <1>1, PortionFacts, ExchangeBounds DEF TypeOK, NetworkOK
<1>3. rbuf' \in [1 .. BufSize -> Nat]
  BY <1>1, <1>2, OverwriteFacts DEF TypeOK, WorkerOK
<1>4. PICK m \in 0 .. BufSize :
           /\ GetInputData(rbuf') \in Seq(Nat) /\ Len(GetInputData(rbuf')) = m
           /\ \A i \in 1 .. m : GetInputData(rbuf')[i] = rbuf'[i] /\ rbuf'[i] # 0
           /\ m < BufSize => rbuf'[m + 1] = 0
  BY <1>3, InputData
<1>5. QED
  BY <1>1, <1>3, <1>4, ExchangeBounds

\* The line of n bytes, byte z of it a NUL, is a sequence.
LEMMA LineIsSeq ==
  ASSUME TypeOK, NEW n \in Lengths, NEW z
  PROVE  [i \in 1 .. n |-> IF i = z THEN 0 ELSE Base(id) + Len(typed) + i] \in Seq(Nat)
<1>1. n \in Nat /\ id \in Nat /\ Len(typed) \in Nat
  BY ExchangeLengths, LenProperties DEF TypeOK, ClientOK
<1>2. Base(id) \in Nat
  BY <1>1 DEF Base
<1>3. \A i \in 1 .. n : (IF i = z THEN 0 ELSE Base(id) + Len(typed) + i) \in Nat
  BY <1>1, <1>2
<1>4. QED
  BY <1>1, <1>3

(* Every step keeps the types. *)
LEMMA TypeStep == TypeOK /\ [Next]_vars => TypeOK'
<1> SUFFICES ASSUME TypeOK, [Next]_vars PROVE TypeOK'
  OBVIOUS
<1>1. ASSUME NEW from, NEW to \in {"wait", "clear"}, DiscardingRead(from, to) PROVE TypeOK'
  <2>1. /\ pc' = to
        /\ UNCHANGED <<client, net, event, fin, rst, back, workers, res, data, killed, echo,
                       left, cut>>
        /\ \/ /\ inbox # <<>> /\ swallowed' = TRUE
              /\ inbox' = Takes(inbox, Len(Portion))
              /\ rbuf' = Overwrite(rbuf, Portion)
              /\ torn' = (torn \/ Len(Portion) # Len(input))
           \/ UNCHANGED <<rbuf, inbox, torn, swallowed>>
    BY <1>1, DiscardingReadFacts
  <2>2. CASE inbox # <<>> /\ inbox' = Takes(inbox, Len(Portion))
             /\ rbuf' = Overwrite(rbuf, Portion) /\ swallowed' = TRUE
             /\ torn' = (torn \/ Len(Portion) # Len(input))
    <3>1. inbox' \in Seq(Nat)
      BY <2>2, PortionFacts DEF TypeOK, NetworkOK
    <3>2. Portion \in Seq(Nat) /\ Len(Portion) <= BufSize
      BY <2>2, PortionFacts, ExchangeBounds DEF TypeOK, NetworkOK
    <3>3. rbuf' \in [1 .. BufSize -> Nat]
      BY <2>2, <3>2, OverwriteFacts DEF TypeOK, WorkerOK
    <3>4. QED
      BY <2>1, <2>2, <3>1, <3>3
         DEF TypeOK, ClientOK, NetworkOK, WorkerOK, HistoryOK, client
  <2>3. CASE UNCHANGED <<rbuf, inbox, torn, swallowed>>
    BY <2>1, <2>3 DEF TypeOK, ClientOK, NetworkOK, WorkerOK, HistoryOK, client
  <2>4. QED
    BY <2>1, <2>2, <2>3
<1>2. ASSUME Throws PROVE TypeOK'
  <2>1. 0 \in 0 .. BufSize /\ <<>> \in Seq(Nat)
    BY ExchangeBounds, EmptySeq
  <2>2. QED
    <3>1. ClientOK' /\ NetworkOK'
      BY <1>2, ThrowFacts DEF TypeOK, ClientOK, NetworkOK, client
    <3>2. WorkerOK' /\ HistoryOK'
      BY <1>2, <2>1, ThrowFacts DEF TypeOK, WorkerOK, HistoryOK
    <3>3. QED
      BY <3>1, <3>2 DEF TypeOK
<1>3. ASSUME TypeLine PROVE TypeOK'
  <2>1. PICK n \in Lengths, z \in Nat :
          /\ input' = [i \in 1 .. n |-> IF i = z THEN 0 ELSE Base(id) + Len(typed) + i]
          /\ typed' = typed \o input'
          /\ net' = net \o input'
    <3>1. ASSUME NEW n \in Lengths, NEW z \in 0 .. (IF id \in Nuls THEN n ELSE 0) PROVE z \in Nat
      BY <3>1, ExchangeLengths
    <3>2. QED
      BY <1>3, <3>1 DEF TypeLine
  <2>2. input' \in Seq(Nat)
    BY <2>1, LineIsSeq
  <2>3. typed' \in Seq(Nat) /\ net' \in Seq(Nat)
    BY <2>1, <2>2, ConcatProperties DEF TypeOK, ClientOK, NetworkOK
  <2>4. QED
    BY <1>3, <2>2, <2>3
       DEF TypeLine, TypeOK, ClientOK, NetworkOK, WorkerOK, HistoryOK, worker, history
<1>4. ASSUME Recv PROVE TypeOK'
  <2>1. PICK n \in 1 .. Len(back) :
          /\ shown' = SubSeq(back, 1, IF n < Len(input) THEN n ELSE Len(input))
          /\ back' = Takes(back, n)
          /\ torn' = (torn \/ n # Len(back) \/ n < Len(input))
    BY <1>4 DEF Recv
  <2>2. Len(back) \in Nat /\ Len(input) \in Nat
    BY LenProperties DEF TypeOK, ClientOK, NetworkOK
  <2>3. n \in 0 .. Len(back) /\ (IF n < Len(input) THEN n ELSE Len(input)) \in 0 .. Len(back)
    BY <2>2
  <2>4. shown' \in Seq(Nat) /\ back' \in Seq(Nat)
    BY <2>1, <2>3, Pieces DEF TypeOK, NetworkOK
  <2>5. QED
    BY <1>4, <2>1, <2>4 DEF Recv, TypeOK, ClientOK, NetworkOK, WorkerOK, HistoryOK, worker
<1>5. ASSUME Deliver PROVE TypeOK'
  <2>1. PICK n \in 1 .. Len(net) :
          inbox' = inbox \o SubSeq(net, 1, n) /\ net' = Takes(net, n)
    BY <1>5 DEF Deliver
  <2>2. n \in 0 .. Len(net)
    BY LenProperties DEF TypeOK, NetworkOK
  <2>3. SubSeq(net, 1, n) \in Seq(Nat) /\ net' \in Seq(Nat)
    BY <2>1, <2>2, Pieces DEF TypeOK, NetworkOK
  <2>4. inbox' \in Seq(Nat)
    BY <2>1, <2>3, ConcatProperties DEF TypeOK, NetworkOK
  <2>5. QED
    BY <1>5, <2>3, <2>4
       DEF Deliver, TypeOK, ClientOK, NetworkOK, WorkerOK, HistoryOK, client, worker, history
<1>6. ASSUME ReadData PROVE TypeOK'
  <2>1. rbuf' \in [1 .. BufSize -> Nat] /\ data' \in Seq(Nat)
    BY <1>6, ReadDataFacts
  <2>2. inbox' \in Seq(Nat) /\ res' \in 0 .. BufSize
    BY <1>6, ReadDataFacts, PortionFacts, ExchangeBounds DEF TypeOK, NetworkOK
  <2>3. QED
    BY <1>6, <2>1, <2>2
       DEF ReadData, ReadPortion, Go, TypeOK, ClientOK, NetworkOK, WorkerOK, HistoryOK, client
<1>7. ASSUME Write PROVE TypeOK'
  <2>1. PICK n \in 0 .. Len(data) :
          /\ echo' = echo \o SubSeq(data, 1, n)
          /\ cut' = (cut \/ n < Len(data))
          /\ IF cpc = "closed"
             THEN rst' = (IF n > 0 THEN "due" ELSE rst) /\ UNCHANGED back
             ELSE back' = back \o SubSeq(data, 1, n) /\ UNCHANGED rst
    BY <1>7 DEF Write
  <2>2. SubSeq(data, 1, n) \in Seq(Nat)
    BY Pieces DEF TypeOK, WorkerOK
  <2>3. echo' \in Seq(Nat) /\ back' \in Seq(Nat)
    BY <2>1, <2>2, ConcatProperties DEF TypeOK, NetworkOK, HistoryOK
  <2>4. rst' \in {"no", "due", "in"}
    BY <2>1 DEF TypeOK, NetworkOK
  <2>5. QED
    BY <1>7, <2>1, <2>3, <2>4
       DEF Write, Go, TypeOK, ClientOK, NetworkOK, WorkerOK, HistoryOK, client
<1>8. ASSUME Clear PROVE TypeOK'
  <2>1. rbuf' \in [1 .. BufSize -> Nat] /\ res' = 0 /\ data' = <<>>
    BY <1>8, ExchangeBounds DEF Clear, TypeOK, WorkerOK
  <2>2. res' \in 0 .. BufSize /\ data' \in Seq(Nat)
    BY <2>1, ExchangeBounds
  <2>3. QED
    BY <1>8, <2>1, <2>2
       DEF Clear, Go, TypeOK, ClientOK, NetworkOK, WorkerOK, HistoryOK, client, network, history
<1>9. ASSUME Connect \/ Interrupt \/ DeliverFin \/ DeliverRst PROVE TypeOK'
  <2>1. CASE Connect
    BY <2>1 DEF Connect, TypeOK, ClientOK, NetworkOK, WorkerOK, HistoryOK, worker, history
  <2>2. CASE Interrupt
    <3>1. fin' \in {"no", "due", "in"} /\ rst' \in {"no", "due", "in"}
      BY <2>2 DEF Interrupt, TypeOK, NetworkOK
    <3>2. back' \in Seq(Nat) /\ cpc' = "closed"
      BY <2>2, EmptySeq DEF Interrupt
    <3>3. QED
      BY <2>2, <3>1, <3>2
         DEF Interrupt, TypeOK, ClientOK, NetworkOK, WorkerOK, HistoryOK, worker, history
  <2>3. CASE DeliverFin \/ DeliverRst
    BY <2>3 DEF DeliverFin, DeliverRst, TypeOK, ClientOK, NetworkOK, WorkerOK, HistoryOK,
                client, worker, history
  <2>4. QED
    BY <1>9, <2>1, <2>2, <2>3
<1>10. ASSUME ReadEof PROVE TypeOK'
  BY <1>10, EmptySeq DEF ReadEof, Go, TypeOK, ClientOK, NetworkOK, WorkerOK, HistoryOK
<1>11. ASSUME Harvest \/ ReadNothing \/ WriteKills PROVE TypeOK'
  BY <1>11 DEF Harvest, ReadNothing, WriteKills, Go,
               TypeOK, ClientOK, NetworkOK, WorkerOK, HistoryOK, client, network, history
<1>12. ASSUME UNCHANGED vars PROVE TypeOK'
  BY <1>12 DEF vars, client, network, worker, history,
               TypeOK, ClientOK, NetworkOK, WorkerOK, HistoryOK
<1>13. QED
  BY <1>1, <1>2, <1>3, <1>4, <1>5, <1>6, <1>7, <1>8, <1>9, <1>10, <1>11, <1>12, Discarded
     DEF Next, Handler, Throws

(* Every step keeps what is known of closing. *)
LEMMA CloseStep == TypeOK /\ CloseInv /\ [Next]_vars => CloseInv'
<1> SUFFICES ASSUME TypeOK, CloseInv, [Next]_vars PROVE CloseInv'
  OBVIOUS
<1> USE DEF CloseInv
<1>1. ASSUME NEW from, NEW to, DiscardingRead(from, to), cpc # "off" PROVE CloseInv'
  <2>1. UNCHANGED <<client, net, event, fin, rst, back, res, data, echo, cut>>
    BY <1>1, DiscardingReadFacts
  <2>2. QED
    BY <1>1, <2>1 DEF client
<1>2. ASSUME Throws PROVE CloseInv'
  <2>1. cpc # "off" /\ UNCHANGED <<client, net, inbox, event, rst, back, echo>>
    BY <1>2, ThrowFacts
       DEF Throws, ReadThrows, WriteThrows, DiscardingThrows, Go
  <2>2. fin' = fin \/ (fin' = "in" /\ rst = "in")
    BY <1>2, ThrowFacts
  <2>3. QED
    BY <2>1, <2>2 DEF client
<1>11. ASSUME Reread \/ OtherAccepted PROVE CloseInv'
  <2>1. DiscardingRead("reread", "clear") => cpc # "off"
    BY DEF DiscardingRead, Go
  <2>2. QED
    BY <1>1, <1>2, <1>11, <2>1, Discarded
<1>3. ASSUME Connect \/ TypeLine \/ Recv \/ Interrupt PROVE CloseInv'
  BY <1>3 DEF Connect, TypeLine, Recv, Interrupt, worker, TypeOK, NetworkOK
<1>4. ASSUME Deliver PROVE CloseInv'
  <2>1. net # <<>>
    BY <1>4, EmptySeq DEF Deliver
  <2>2. QED
    BY <1>4, <2>1 DEF Deliver, client, worker
<1>5. ASSUME DeliverFin \/ DeliverRst PROVE CloseInv'
  BY <1>5 DEF DeliverFin, DeliverRst, client, worker
<1>6. ASSUME ReadData \/ Harvest \/ ReadNothing \/ WriteKills \/ Clear
      PROVE  CloseInv'
  BY <1>6 DEF ReadData, Harvest, ReadNothing, WriteKills, Clear, Go, client, network, history
<1>7. ASSUME ReadEof PROVE CloseInv'
  BY <1>7 DEF ReadEof, AtEof, Go
<1>8. ASSUME Write PROVE CloseInv'
  BY <1>8 DEF Write, Go, client
<1>9. ASSUME UNCHANGED vars PROVE CloseInv'
  BY <1>9 DEF vars, client, network, worker, history
<1>10. QED
  BY <1>2, <1>3, <1>4, <1>5, <1>6, <1>7, <1>8, <1>9, <1>11 DEF Next, Handler, Throws

\* Of two sequences the second is empty if the first is as long as both.
LEMMA WholeTaken ==
  ASSUME NEW s \in Seq(Nat), NEW u \in Seq(Nat), NEW n \in 0 .. Len(s),
         n = Len(s \o u)
  PROVE  u = <<>> /\ s \o u = s /\ n = Len(s)
<1>1. Len(s) + Len(u) = Len(s \o u) /\ Len(s) \in Nat /\ Len(u) \in Nat
  BY ConcatProperties, LenProperties
<1>2. n = Len(s) /\ Len(u) = 0
  BY <1>1
<1>3. u = <<>>
  BY <1>2, EmptySeq
<1>4. QED
  BY <1>2, <1>3, ConcatEmptySeq

\* A read that leaves ~torn takes the whole line, and then nothing travels.
LEMMA WholeRead ==
  ASSUME TypeOK, OnePiece, inbox # <<>>, Len(Portion) = Len(input)
  PROVE  net = <<>> /\ Portion = input /\ Takes(inbox, Len(Portion)) = <<>>
<1>1. /\ Portion \in Seq(Nat) /\ Len(Portion) \in 0 .. Len(inbox)
      /\ Portion = SubSeq(inbox, 1, Len(Portion))
  BY PortionFacts DEF TypeOK, NetworkOK
<1>2. inbox \o net = input
  BY DEF OnePiece, Travels
<1>3. net = <<>> /\ inbox = input /\ Len(Portion) = Len(inbox)
  <2>1. /\ inbox \in Seq(Nat) /\ net \in Seq(Nat) /\ input \in Seq(Nat)
        /\ Len(Portion) \in 0 .. Len(inbox) /\ Len(Portion) = Len(inbox \o net)
    BY <1>1, <1>2 DEF TypeOK, ClientOK, NetworkOK
  <2>2. QED
    BY ONLY <1>2, <2>1, WholeTaken
<1>4. QED
  BY <1>1, <1>3, Pieces DEF TypeOK, NetworkOK

(* Every step keeps a line in one place as long as no line was torn. *)
LEMMA LineStep == TypeOK /\ CloseInv /\ LineInv /\ [Next]_vars => LineInv'
<1> SUFFICES ASSUME TypeOK, CloseInv, LineInv, [Next]_vars, ~torn' PROVE OnePiece'
  BY DEF LineInv
<1>1. ASSUME ~torn, UNCHANGED <<net, inbox, input, cpc, back, rst>>, pc' # "write"
      PROVE  OnePiece'
  BY <1>1 DEF LineInv, OnePiece, Travels, Agree
<1>2. ASSUME NEW from, NEW to \in {"wait", "clear"}, DiscardingRead(from, to) PROVE OnePiece'
  <2>1. /\ pc' = to
        /\ UNCHANGED <<client, net, event, fin, rst, back, res, data, echo, cut>>
        /\ \/ /\ inbox # <<>>
              /\ inbox' = Takes(inbox, Len(Portion))
              /\ torn' = (torn \/ Len(Portion) # Len(input))
           \/ UNCHANGED <<inbox, torn>>
    BY <1>2, DiscardingReadFacts
  <2>2. UNCHANGED <<net, input, cpc, back, rst>> /\ pc' # "write"
    BY <2>1 DEF client
  <2>3. CASE /\ inbox # <<>>
             /\ inbox' = Takes(inbox, Len(Portion))
             /\ torn' = (torn \/ Len(Portion) # Len(input))
    <3>1. OnePiece /\ Len(Portion) = Len(input)
      BY <2>3 DEF LineInv
    <3>2. net = <<>> /\ inbox' = <<>>
      BY <2>3, <3>1, WholeRead
    <3>3. back = <<>>
      BY <2>3, <3>1 DEF OnePiece, Travels
    <3>4. QED
      BY <2>2, <3>2, <3>3 DEF OnePiece, Travels
  <2>4. CASE UNCHANGED <<inbox, torn>>
    BY <1>1, <2>2, <2>4
  <2>5. QED
    BY <2>1, <2>3, <2>4
<1>17. ASSUME Throws PROVE OnePiece'
  <2>1. UNCHANGED <<net, inbox, input, cpc, back, rst, torn>> /\ pc' # "write"
    BY <1>17, ThrowFacts DEF client
  <2>2. QED
    BY <1>1, <2>1
<1>3. ASSUME Reread \/ OtherAccepted PROVE OnePiece'
  BY <1>2, <1>3, <1>17, Discarded
<1>4. ASSUME Connect PROVE OnePiece'
  BY <1>4 DEF Connect, CloseInv, OnePiece, Travels, worker
<1>5. ASSUME TypeLine PROVE OnePiece'
  <2>1. OnePiece /\ cpc = "type" /\ rst = "no"
    BY <1>5 DEF TypeLine, LineInv, CloseInv, history
  <2>2. inbox = <<>> /\ net = <<>> /\ back = <<>> /\ pc # "write"
    BY <2>1 DEF OnePiece, Travels
  <2>3. PICK n \in Lengths, z \in Nat :
          /\ input' = [i \in 1 .. n |-> IF i = z THEN 0 ELSE Base(id) + Len(typed) + i]
          /\ net' = net \o input'
    <3>1. ASSUME NEW n \in Lengths, NEW z \in 0 .. (IF id \in Nuls THEN n ELSE 0) PROVE z \in Nat
      BY <3>1, ExchangeLengths
    <3>2. QED
      BY <1>5, <3>1 DEF TypeLine
  <2>4. input' \in Seq(Nat)
    BY <2>3, LineIsSeq
  <2>5. net' = input' /\ inbox \o net' = input'
    BY <2>2, <2>3, <2>4, ConcatEmptySeq
  <2>6. inbox' = inbox /\ cpc' = "recv" /\ UNCHANGED <<pc, back, rst>>
    BY <1>5 DEF TypeLine, worker
  <2>7. QED
    BY <2>1, <2>2, <2>5, <2>6 DEF OnePiece, Travels
<1>6. ASSUME Recv PROVE OnePiece'
  <2>1. PICK n \in 1 .. Len(back) :
          /\ back' = Takes(back, n)
          /\ torn' = (torn \/ n # Len(back) \/ n < Len(input))
    BY <1>6 DEF Recv
  <2>2. OnePiece /\ n = Len(back) /\ n \in 0 .. Len(back) /\ back # <<>>
    <3>1. ~torn /\ n = Len(back)
      BY <2>1
    <3>2. Len(back) \in Nat /\ Len(<<>>) = 0
      BY LenProperties, EmptySeq DEF TypeOK, NetworkOK
    <3>3. QED
      BY <3>1, <3>2 DEF LineInv
  <2>3. ~Travels /\ pc # "write" /\ back' = <<>>
    BY <2>1, <2>2, Pieces DEF OnePiece, TypeOK, NetworkOK
  <2>4. UNCHANGED <<net, inbox, pc>>
    BY <1>6 DEF Recv, worker
  <2>5. QED
    BY <2>3, <2>4 DEF OnePiece, Travels
<1>7. ASSUME Interrupt PROVE OnePiece'
  <2>1. OnePiece /\ UNCHANGED <<net, inbox, input, pc, data>> /\ cpc' = "closed" /\ back' = <<>>
    BY <1>7 DEF Interrupt, LineInv, worker, history
  <2>2. (Travels \/ pc = "write") => rst' = rst
    BY <1>7, <2>1 DEF Interrupt, OnePiece
  <2>3. QED
    BY <2>1, <2>2 DEF OnePiece, Travels, Agree
<1>8. ASSUME Deliver PROVE OnePiece'
  <2>1. PICK n \in 1 .. Len(net) :
          inbox' = inbox \o SubSeq(net, 1, n) /\ net' = Takes(net, n)
    BY <1>8 DEF Deliver
  <2>2. n \in 0 .. Len(net) /\ net # <<>>
    BY <2>1, LenProperties, EmptySeq DEF TypeOK, NetworkOK
  <2>3. OnePiece /\ Travels
    BY <1>8, <2>2 DEF Deliver, history, LineInv, Travels
  <2>4. /\ SubSeq(net, 1, n) \in Seq(Nat) /\ Takes(net, n) \in Seq(Nat)
        /\ SubSeq(net, 1, n) \o Takes(net, n) = net
    BY <2>2, Pieces DEF TypeOK, NetworkOK
  <2>5. inbox' \o net' = inbox \o net
    <3>1. inbox \in Seq(Nat)
      BY DEF TypeOK, NetworkOK
    <3>2. (inbox \o SubSeq(net, 1, n)) \o Takes(net, n) = inbox \o (SubSeq(net, 1, n) \o Takes(net, n))
      BY <2>4, <3>1, ConcatAssociative
    <3>3. QED
      BY <2>1, <2>4, <3>2
  <2>6. UNCHANGED <<input, cpc, pc, back, rst>>
    BY <1>8 DEF Deliver, client, worker
  <2>7. QED
    BY <2>3, <2>5, <2>6 DEF OnePiece
<1>9. ASSUME DeliverRst PROVE OnePiece'
  <2>1. OnePiece /\ rst = "due" /\ UNCHANGED <<net, inbox, input, cpc, pc, back, data>>
    BY <1>9 DEF DeliverRst, LineInv, client, worker, history
  <2>2. ~Travels /\ pc # "write"
    BY <2>1 DEF OnePiece
  <2>3. QED
    BY <2>1, <2>2 DEF OnePiece, Travels, Agree
<1>10. ASSUME DeliverFin PROVE OnePiece'
  <2>1. OnePiece /\ UNCHANGED <<net, inbox, input, cpc, pc, back, data, rst>>
    BY <1>10 DEF DeliverFin, LineInv, client, worker, history
  <2>2. QED
    BY <2>1 DEF OnePiece, Travels, Agree
<1>11. ASSUME ReadData PROVE OnePiece'
  <2>1. /\ inbox # <<>> /\ inbox' = Takes(inbox, Len(Portion))
        /\ torn' = (torn \/ Len(Portion) # Len(input))
        /\ UNCHANGED <<net, input, cpc, back, rst>>
    BY <1>11 DEF ReadData, ReadPortion, client
  <2>2. OnePiece /\ Len(Portion) = Len(input)
    BY <2>1 DEF LineInv
  <2>3. net = <<>> /\ Portion = input /\ inbox' = <<>>
    BY <2>1, <2>2, WholeRead
  <2>4. back = <<>> /\ rst = "no" /\ cpc \in {"recv", "closed"}
    BY <2>1, <2>2 DEF OnePiece, Travels
  <2>5. Agree(data', input)
    <3>1. /\ rbuf' = Overwrite(rbuf, Portion)
          /\ data' \in Seq(Nat) /\ Len(data') <= BufSize
          /\ \A i \in 1 .. Len(data') : data'[i] = rbuf'[i]
      BY <1>11, ReadDataFacts
    <3>2. Portion \in Seq(Nat) /\ Len(Portion) <= BufSize
      BY <2>1, PortionFacts, ExchangeBounds DEF TypeOK, NetworkOK
    <3>3. \A i \in 1 .. BufSize : rbuf'[i] = IF i <= Len(Portion) THEN Portion[i] ELSE rbuf[i]
      BY <3>1, <3>2, OverwriteFacts DEF TypeOK, WorkerOK
    <3>4. Len(data') \in Nat
      BY <3>1, LenProperties
    <3>5. ASSUME NEW i \in 1 .. Len(data'), i <= Len(input) PROVE data'[i] = input[i]
      <4>1. i \in 1 .. BufSize /\ i <= Len(Portion)
        BY <2>3, <3>1, <3>4, <3>5, ExchangeBounds
      <4>2. QED
        BY <2>3, <3>1, <3>3, <3>5, <4>1
    <3>6. QED
      BY <3>5 DEF Agree
  <2>6. QED
    BY <2>1, <2>3, <2>4, <2>5 DEF OnePiece, Travels
<1>12. ASSUME ReadEof PROVE OnePiece'
  BY <1>12 DEF ReadEof, AtEof, Go, CloseInv, OnePiece, Travels
<1>13. ASSUME Write PROVE OnePiece'
  <2>1. OnePiece /\ pc = "write" /\ pc' = "reread" /\ UNCHANGED <<net, inbox, input, cpc>>
    BY <1>13 DEF Write, Go, LineInv, client
  <2>2. ~Travels /\ back = <<>> /\ cpc \in {"recv", "closed"} /\ Agree(data, input)
    BY <2>1 DEF OnePiece
  <2>3. PICK n \in 0 .. Len(data) :
          /\ n = Len(data)
          /\ cpc = "closed" => back' = back
          /\ cpc # "closed" => back' = back \o SubSeq(data, 1, n)
    BY <1>13, <2>2 DEF Write
  <2>4. SubSeq(data, 1, n) = data /\ back \o data = data
    BY <2>2, <2>3, Pieces, ConcatEmptySeq DEF TypeOK, WorkerOK
  <2>5. back' # <<>> => cpc = "recv" /\ back' = data
    BY <2>2, <2>3, <2>4
  <2>6. QED
    BY <2>1, <2>2, <2>5 DEF OnePiece, Travels
<1>14. ASSUME Harvest \/ ReadNothing \/ Clear
       PROVE  OnePiece'
  <2>1. UNCHANGED <<net, inbox, input, cpc, back, rst, torn>> /\ pc' # "write"
    BY <1>14 DEF Harvest, ReadNothing, Clear, Go, client, network, history
  <2>2. QED
    BY <1>1, <2>1
<1>18. ASSUME WriteKills PROVE OnePiece'
  BY <1>18 DEF WriteKills, Go, client, network, history, LineInv, OnePiece, Travels, Agree
<1>15. ASSUME UNCHANGED vars PROVE OnePiece'
  BY <1>15 DEF vars, client, network, worker, history, LineInv, OnePiece, Travels, Agree
<1>16. QED
  BY <1>3, <1>4, <1>5, <1>6, <1>7, <1>8, <1>9, <1>10, <1>11, <1>12, <1>13, <1>14, <1>15,
     <1>17, <1>18 DEF Next, Handler, Throws

(* What is shown is the beginning of the line that was typed. *)
LEMMA ShownStep ==
  TypeOK /\ CloseInv /\ LineInv /\ ShownIsTyped /\ [Next]_vars => ShownIsTyped'
<1> SUFFICES ASSUME TypeOK, CloseInv, LineInv, ShownIsTyped, [Next]_vars, ~torn', cpc' = "type"
             PROVE  IsPrefix(shown, input)'
  BY DEF ShownIsTyped
<1>1. ASSUME ~torn, UNCHANGED <<cpc, shown, input>> PROVE IsPrefix(shown, input)'
  BY <1>1 DEF ShownIsTyped, IsPrefix
<1>2. ASSUME NEW s \in Seq(Nat), shown' = s, input' = s PROVE IsPrefix(shown, input)'
  BY <1>2, LenProperties DEF IsPrefix
<1>3. ASSUME Connect PROVE IsPrefix(shown, input)'
  BY <1>2, <1>3 DEF Connect, CloseInv, TypeOK, ClientOK
<1>4. ASSUME Recv PROVE IsPrefix(shown, input)'
  <2>1. PICK n \in 1 .. Len(back) :
          /\ shown' = SubSeq(back, 1, IF n < Len(input) THEN n ELSE Len(input))
          /\ torn' = (torn \/ n # Len(back) \/ n < Len(input))
    BY <1>4 DEF Recv
  <2>2. Len(input) \in Nat /\ Len(back) \in Nat
    BY LenProperties DEF TypeOK, ClientOK, NetworkOK
  <2>3. /\ OnePiece /\ back # <<>> /\ Len(input) \in 0 .. Len(back)
        /\ shown' = SubSeq(back, 1, Len(input))
    <3>1. ~torn /\ ~(n < Len(input))
      BY <2>1
    <3>2. (IF n < Len(input) THEN n ELSE Len(input)) = Len(input)
      BY <3>1
    <3>3. Len(<<>>) = 0
      BY EmptySeq
    <3>4. QED
      BY <2>1, <2>2, <3>1, <3>2, <3>3 DEF LineInv
  <2>4. \A i \in 1 .. Len(input) : back[i] = input[i]
    BY <2>2, <2>3 DEF OnePiece, Agree
  <2>5. /\ shown' \in Seq(Nat) /\ Len(shown') = Len(input)
        /\ \A i \in 1 .. Len(input) : shown'[i] = back[i]
    BY <2>3, Pieces DEF TypeOK, NetworkOK
  <2>6. shown' = input
    BY <2>4, <2>5, SeqEqual DEF TypeOK, ClientOK
  <2>7. input' = input
    BY <1>4 DEF Recv
  <2>8. QED
    BY <1>2, <2>6, <2>7 DEF TypeOK, ClientOK
<1>5. ASSUME NEW from, NEW to, DiscardingRead(from, to) PROVE IsPrefix(shown, input)'
  <2>1. UNCHANGED client /\ (torn => torn')
    BY <1>5, DiscardingReadFacts
  <2>2. QED
    BY <1>1, <2>1 DEF client
<1>6. ASSUME TypeLine \/ Interrupt \/ ReadEof PROVE FALSE
  BY <1>6 DEF TypeLine, Interrupt, ReadEof
<1>7. ASSUME \/ Deliver \/ DeliverFin \/ DeliverRst \/ Harvest \/ ReadData \/ ReadNothing
             \/ Write \/ WriteKills \/ Clear \/ UNCHANGED vars
      PROVE  IsPrefix(shown, input)'
  <2>1. UNCHANGED <<cpc, shown, input>>
    BY <1>7 DEF Deliver, DeliverFin, DeliverRst, Harvest, ReadData, ReadNothing,
                Write, WriteKills, Clear, vars, client
  <2>2. ~torn
    <3>1. CASE ReadData
      BY <3>1 DEF ReadData, ReadPortion
    <3>2. CASE ~ReadData
      BY <1>7, <3>2 DEF Deliver, DeliverFin, DeliverRst, Harvest, ReadNothing,
                Write, WriteKills, Clear, vars, history
    <3>3. QED
      BY <3>1, <3>2
  <2>3. QED
    BY <1>1, <2>1, <2>2
<1>8. ASSUME Throws PROVE IsPrefix(shown, input)'
  BY <1>1, <1>8, ThrowFacts DEF client
<1>9. QED
  BY <1>3, <1>4, <1>5, <1>6, <1>7, <1>8, Discarded DEF Next, Handler, Throws

(* The server is killed only after a line was torn. *)
LEMMA KilledStep ==
  TypeOK /\ LineInv /\ KilledNeedsTorn /\ [Next]_vars => KilledNeedsTorn'
<1> SUFFICES ASSUME TypeOK, LineInv, KilledNeedsTorn, [Next]_vars PROVE KilledNeedsTorn'
  OBVIOUS
<1> USE DEF KilledNeedsTorn
<1>1. ASSUME NEW from, NEW to, DiscardingRead(from, to) PROVE KilledNeedsTorn'
  BY <1>1, DiscardingReadFacts
<1>2. ASSUME WriteKills PROVE KilledNeedsTorn'
  <2>1. torn
    BY <1>2 DEF WriteKills, Go, LineInv, OnePiece
  <2>2. QED
    BY <1>2, <2>1 DEF WriteKills, history
<1>3. ASSUME Throws PROVE KilledNeedsTorn'
  BY <1>3, ThrowFacts
<1>4. ASSUME \/ Connect \/ TypeLine \/ Recv \/ Interrupt \/ Deliver \/ DeliverFin \/ DeliverRst
             \/ Harvest \/ ReadData \/ ReadNothing \/ ReadEof \/ Write \/ Clear
             \/ UNCHANGED vars
      PROVE  KilledNeedsTorn'
  BY <1>4 DEF Connect, TypeLine, Recv, Interrupt, Deliver, DeliverFin, DeliverRst, Harvest,
              ReadData, ReadPortion, ReadNothing, ReadEof, Write, Clear, vars, worker, history
<1>5. QED
  BY <1>1, <1>2, <1>3, <1>4, Discarded DEF Next, Handler, Throws

(* Concatenation is associative: the form in which it is needed below. *)
LEMMA Associative ==
  \A s, u, w \in Seq(Nat) : (s \o u) \o w = s \o (u \o w)
<1> SUFFICES ASSUME NEW s \in Seq(Nat), NEW u \in Seq(Nat), NEW w \in Seq(Nat)
             PROVE  (s \o u) \o w = s \o (u \o w)
  OBVIOUS
<1> QED
  BY ONLY ConcatAssociative

(* m_readBuf is clear again before the next read. *)
LEMMA BufferStep == TypeOK /\ BufferInv /\ [Next]_vars => BufferInv'
<1> SUFFICES ASSUME TypeOK, BufferInv, [Next]_vars, ~swallowed', ~left',
                    NEW i \in 1 .. BufSize, pc' \in {"wait", "read"} \/ i > res'
             PROVE  rbuf'[i] = 0
  BY DEF BufferInv
<1>1. ASSUME ~swallowed, ~left, UNCHANGED rbuf,
             \/ pc \in {"wait", "read"}
             \/ pc' \notin {"wait", "read"} /\ res' = res
      PROVE  rbuf'[i] = 0
  BY <1>1 DEF BufferInv
<1>2. ASSUME NEW from, NEW to, from = "wait" \/ to = "clear", DiscardingRead(from, to)
      PROVE  rbuf'[i] = 0
  <2>1. /\ pc = from /\ pc' = to /\ UNCHANGED <<left, res>>
        /\ swallowed' = TRUE \/ UNCHANGED <<rbuf, swallowed>>
    BY <1>2, DiscardingReadFacts
  <2>2. QED
    BY <1>1, <1>2, <2>1
<1>3. ASSUME ReadData PROVE rbuf'[i] = 0
  <2>1. /\ pc = "read" /\ pc' = "write" /\ ~left /\ ~swallowed
        /\ inbox # <<>> /\ res' = Len(Portion) /\ rbuf' = Overwrite(rbuf, Portion)
    BY <1>3 DEF ReadData, ReadPortion, Go
  <2>2. Portion \in Seq(Nat) /\ Len(Portion) \in Nat /\ Len(Portion) <= BufSize
    BY <2>1, PortionFacts, LenProperties, ExchangeBounds DEF TypeOK, NetworkOK
  <2>3. rbuf'[i] = IF i <= Len(Portion) THEN Portion[i] ELSE rbuf[i]
    BY <2>1, <2>2, OverwriteFacts DEF TypeOK, WorkerOK
  <2>4. rbuf[i] = 0 /\ i > Len(Portion) /\ i \in Nat
    BY <2>1, ExchangeBounds DEF BufferInv
  <2>5. QED
    BY <2>2, <2>3, <2>4
<1>4. ASSUME Clear PROVE rbuf'[i] = 0
  <2>1. /\ pc = "clear" /\ ~left /\ ~swallowed
        /\ rbuf'[i] = IF i <= res THEN 0 ELSE rbuf[i]
    BY <1>4 DEF Clear, Go, history
  <2>2. i > res => rbuf[i] = 0
    BY <2>1 DEF BufferInv
  <2>3. res \in Nat /\ i \in Nat
    BY ExchangeBounds DEF TypeOK, WorkerOK
  <2>4. QED
    BY <2>1, <2>2, <2>3
<1>5. ASSUME Harvest \/ ReadNothing \/ ReadEof \/ Write \/ WriteKills PROVE rbuf'[i] = 0
  <2>1. ~swallowed /\ ~left /\ UNCHANGED rbuf
    BY <1>5 DEF Harvest, ReadNothing, ReadEof, Write, WriteKills, Go, history
  <2>2. \/ pc \in {"wait", "read"}
        \/ pc' \notin {"wait", "read"} /\ res' = res
    BY <1>5 DEF Harvest, ReadNothing, ReadEof, Write, WriteKills, Go
  <2>3. QED
    BY <1>1, <2>1, <2>2
<1>6. ASSUME Throws PROVE rbuf'[i] = 0
  <2>1. /\ UNCHANGED <<rbuf, swallowed>>
        /\ \/ pc \in {"write", "reread"} /\ left' = TRUE
           \/ pc \in {"wait", "read"} /\ left' = left
    BY <1>6, ThrowFacts
  <2>2. QED
    BY <1>1, <2>1
<1>7. ASSUME \/ Connect \/ TypeLine \/ Recv \/ Interrupt \/ Deliver \/ DeliverFin \/ DeliverRst
             \/ UNCHANGED vars
      PROVE  rbuf'[i] = 0
  <2>1. UNCHANGED <<worker, swallowed, left>>
    BY <1>7 DEF Connect, TypeLine, Recv, Interrupt, Deliver, DeliverFin, DeliverRst, vars, history
  <2>2. QED
    BY <1>1, <2>1 DEF worker
<1>8. QED
  BY <1>2, <1>3, <1>4, <1>5, <1>6, <1>7, Discarded DEF Next, Handler, Throws

\* From a buffer that was clear GetInputData returns what was just read, or the
\* beginning of it.
LEMMA DataIsPortion ==
  ASSUME TypeOK, BufferInv, ReadData, ~swallowed, ~left
  PROVE  /\ data' \in Seq(Nat) /\ Portion \in Seq(Nat)
         /\ Len(data') <= Len(Portion)
         /\ \A i \in 1 .. Len(data') : data'[i] = Portion[i]
         /\ Len(data') = Len(Portion) => data' = Portion
<1>1. /\ inbox # <<>> /\ rbuf' = Overwrite(rbuf, Portion)
      /\ data' \in Seq(Nat) /\ Len(data') <= BufSize
      /\ \A i \in 1 .. Len(data') : data'[i] = rbuf'[i] /\ rbuf'[i] # 0
  BY ReadDataFacts
<1>2. /\ Portion \in Seq(Nat) /\ Len(Portion) \in Nat /\ Len(Portion) <= BufSize
      /\ Len(data') \in Nat
  BY <1>1, PortionFacts, LenProperties, ExchangeBounds DEF TypeOK, NetworkOK
<1>3. \A i \in 1 .. BufSize : rbuf'[i] = IF i <= Len(Portion) THEN Portion[i] ELSE 0
  <2>1. \A i \in 1 .. BufSize : rbuf[i] = 0
    BY DEF ReadData, Go, BufferInv
  <2>2. \A i \in 1 .. BufSize : rbuf'[i] = IF i <= Len(Portion) THEN Portion[i] ELSE rbuf[i]
    BY <1>1, <1>2, OverwriteFacts DEF TypeOK, WorkerOK
  <2>3. QED
    BY <2>1, <2>2
<1>4. Len(data') <= Len(Portion)
  <2>1. ASSUME ~(Len(data') <= Len(Portion)) PROVE FALSE
    <3>1. Len(Portion) + 1 \in 1 .. Len(data') /\ Len(Portion) + 1 \in 1 .. BufSize
      BY <1>1, <1>2, <2>1, ExchangeBounds
    <3>2. rbuf'[Len(Portion) + 1] = 0
      BY <1>2, <1>3, <3>1
    <3>3. QED
      BY <1>1, <3>1, <3>2
  <2>2. QED
    BY <2>1
<1>5. \A i \in 1 .. Len(data') : data'[i] = Portion[i]
  <2>1. ASSUME NEW i \in 1 .. Len(data') PROVE data'[i] = Portion[i]
    <3>1. i \in 1 .. BufSize /\ i <= Len(Portion)
      BY <1>1, <1>2, <1>4, ExchangeBounds
    <3>2. QED
      BY <1>1, <1>3, <3>1
  <2>2. QED
    BY <2>1
<1>6. Len(data') = Len(Portion) => data' = Portion
  BY <1>1, <1>2, <1>5, SeqEqual
<1>7. QED
  BY <1>1, <1>2, <1>4, <1>5, <1>6

\* The parts of the way of a byte are sequences.
LEMMA WayIsSeq ==
  ASSUME TypeOK
  PROVE  /\ echo \in Seq(Nat) /\ Pending \in Seq(Nat) /\ inbox \in Seq(Nat) /\ net \in Seq(Nat)
         /\ typed \in Seq(Nat)
  BY EmptySeq DEF TypeOK, ClientOK, NetworkOK, WorkerOK, HistoryOK, Pending

\* Steps that move no byte.
LEMMA NoByteMoves ==
  ASSUME TypeOK, [Next]_vars, ~swallowed', ~left',
         ~TypeLine, ~Deliver, ~ReadData, ~Write, ~ReadEof
  PROVE  UNCHANGED <<echo, inbox, net, typed, Pending, swallowed, left, cut>>
<1>1. ASSUME NEW from, NEW to, from # "write", to # "write", DiscardingRead(from, to)
      PROVE  UNCHANGED <<echo, inbox, net, typed, Pending, swallowed, left, cut>>
  <2>1. /\ pc = from /\ pc' = to
        /\ UNCHANGED <<client, net, echo, left, cut>>
        /\ swallowed' = TRUE \/ UNCHANGED <<inbox, swallowed>>
    BY <1>1, DiscardingReadFacts
  <2>2. QED
    BY <1>1, <2>1 DEF client, Pending
<1>2. ASSUME Throws
      PROVE  UNCHANGED <<echo, inbox, net, typed, Pending, swallowed, left, cut>>
  <2>1. /\ UNCHANGED <<client, net, inbox, echo, swallowed, cut>> /\ pc' = "wait"
        /\ pc \in {"wait", "read"} /\ left' = left
    BY <1>2, ThrowFacts
  <2>2. QED
    BY <2>1 DEF client, Pending
<1>3. ASSUME \/ Connect \/ Recv \/ Interrupt \/ DeliverFin \/ DeliverRst \/ UNCHANGED vars
      PROVE  UNCHANGED <<echo, inbox, net, typed, Pending, swallowed, left, cut>>
  BY <1>3 DEF Connect, Recv, Interrupt, DeliverFin, DeliverRst, vars, client, network, worker,
    history, Pending
<1>4. ASSUME Harvest \/ ReadNothing \/ Clear \/ WriteKills
      PROVE  UNCHANGED <<echo, inbox, net, typed, Pending, swallowed, left, cut>>
  BY <1>4 DEF Harvest, ReadNothing, Clear, WriteKills, Go, client, network, history, Pending
<1>5. QED
  BY <1>1, <1>2, <1>3, <1>4, Discarded DEF Next, Handler, Throws

(* The bytes on their way, and those sent back, are the client's own. *)
LEMMA OwnStep == TypeOK /\ CloseInv /\ BufferInv /\ OwnInv /\ [Next]_vars => OwnInv'
<1> SUFFICES ASSUME TypeOK, CloseInv, BufferInv, OwnInv, [Next]_vars, ~swallowed', ~left'
             PROVE  /\ Chars(echo)' \subseteq Chars(typed)'
                    /\ Chars(Pending)' \subseteq Chars(typed)'
                    /\ Chars(inbox)' \subseteq Chars(typed)'
                    /\ Chars(net)' \subseteq Chars(typed)'
  BY DEF OwnInv
<1> DEFINE Own == /\ Chars(echo) \subseteq Chars(typed)
                  /\ Chars(Pending) \subseteq Chars(typed)
                  /\ Chars(inbox) \subseteq Chars(typed)
                  /\ Chars(net) \subseteq Chars(typed)
<1>0. ~swallowed /\ ~left => Own
  BY DEF OwnInv
<1>1. CASE TypeLine
  <2>1. PICK n \in Lengths, z \in Nat :
          /\ input' = [i \in 1 .. n |-> IF i = z THEN 0 ELSE Base(id) + Len(typed) + i]
          /\ typed' = typed \o input'
          /\ net' = net \o input'
    <3>1. ASSUME NEW n \in Lengths, NEW z \in 0 .. (IF id \in Nuls THEN n ELSE 0) PROVE z \in Nat
      BY <3>1, ExchangeLengths
    <3>2. QED
      BY <1>1, <3>1 DEF TypeLine
  <2>2. input' \in Seq(Nat)
    BY <2>1, LineIsSeq
  <2>3. /\ Chars(typed \o input') = Chars(typed) \cup Chars(input')
        /\ Chars(net \o input') = Chars(net) \cup Chars(input')
    BY <2>2, CharsOfConcat, WayIsSeq
  <2>4. Own /\ UNCHANGED <<echo, Pending, inbox>>
    BY <1>0, <1>1 DEF TypeLine, worker, history, Pending
  <2>5. QED
    BY <2>1, <2>3, <2>4
<1>2. CASE Deliver
  <2>1. PICK n \in 1 .. Len(net) :
          inbox' = inbox \o SubSeq(net, 1, n) /\ net' = Takes(net, n)
    BY <1>2 DEF Deliver
  <2>2. n \in 0 .. Len(net) /\ net \in Seq(Nat) /\ inbox \in Seq(Nat)
    BY WayIsSeq, LenProperties
  <2>3. Chars(SubSeq(net, 1, n)) \subseteq Chars(net) /\ Chars(Takes(net, n)) \subseteq Chars(net)
    BY <2>2, CharsOfPieces
  <2>4. Chars(inbox \o SubSeq(net, 1, n)) = Chars(inbox) \cup Chars(SubSeq(net, 1, n))
    <3>1. SubSeq(net, 1, n) \in Seq(Nat)
      BY <2>2, Pieces
    <3>2. QED
      BY <2>2, <3>1, CharsOfConcat
  <2>5. Own /\ UNCHANGED <<echo, Pending, typed>>
    BY <1>0, <1>2 DEF Deliver, client, worker, history, Pending
  <2>6. QED
    BY <2>1, <2>3, <2>4, <2>5
<1>3. CASE ReadData
  <2>1. Own /\ UNCHANGED <<echo, net, typed>> /\ ~swallowed /\ ~left /\ pc' = "write"
    BY <1>0, <1>3 DEF ReadData, Go, client
  <2>2. /\ data' \in Seq(Nat) /\ Portion \in Seq(Nat) /\ Len(data') <= Len(Portion)
        /\ \A i \in 1 .. Len(data') : data'[i] = Portion[i]
    BY <1>3, <2>1, DataIsPortion
  <2>3. Chars(data') \subseteq Chars(Portion)
    <3>1. /\ DOMAIN data' = 1 .. Len(data') /\ DOMAIN Portion = 1 .. Len(Portion)
          /\ Len(data') \in Nat /\ Len(Portion) \in Nat
      BY <2>2, LenProperties
    <3>2. QED
      BY <2>2, <3>1 DEF Chars
  <2>4. /\ Portion = SubSeq(inbox, 1, Len(Portion)) /\ Len(Portion) \in 0 .. Len(inbox)
        /\ inbox' = Takes(inbox, Len(Portion))
    BY <1>3, PortionFacts, WayIsSeq DEF ReadData, ReadPortion
  <2>5. /\ Chars(SubSeq(inbox, 1, Len(Portion))) \subseteq Chars(inbox)
        /\ Chars(Takes(inbox, Len(Portion))) \subseteq Chars(inbox)
    BY <2>4, CharsOfPieces, WayIsSeq
  <2>6. Chars(Portion) \subseteq Chars(inbox) /\ Chars(inbox') \subseteq Chars(inbox)
    BY <2>4, <2>5
  <2>7. Pending' = data'
    BY <2>1 DEF Pending
  <2>8. QED
    BY <2>1, <2>3, <2>6, <2>7
<1>4. CASE Write
  <2>1. PICK n \in 0 .. Len(data) : echo' = echo \o SubSeq(data, 1, n)
    BY <1>4 DEF Write
  <2>2. data \in Seq(Nat)
    BY DEF TypeOK, WorkerOK
  <2>3. SubSeq(data, 1, n) \in Seq(Nat) /\ Chars(SubSeq(data, 1, n)) \subseteq Chars(data)
    BY <2>2, Pieces, CharsOfPieces
  <2>4. Chars(echo \o SubSeq(data, 1, n)) = Chars(echo) \cup Chars(SubSeq(data, 1, n))
    BY <2>3, CharsOfConcat, WayIsSeq
  <2>5. Own /\ Pending = data /\ Pending' = <<>> /\ UNCHANGED <<inbox, net, typed>>
    BY <1>0, <1>4 DEF Write, Go, client, Pending
  <2>6. QED
    BY <2>1, <2>3, <2>4, <2>5, CharsOfEmpty
<1>5. CASE ReadEof
  <2>1. inbox = <<>> /\ net = <<>>
    BY <1>5 DEF ReadEof, AtEof, CloseInv
  <2>2. echo' = <<>> /\ Pending' = <<>> /\ inbox' = <<>> /\ net' = <<>>
    BY <1>5, <2>1 DEF ReadEof, Go, Pending
  <2>3. QED
    BY <2>2, CharsOfEmpty
<1>6. CASE ~TypeLine /\ ~Deliver /\ ~ReadData /\ ~Write /\ ~ReadEof
  <2>1. UNCHANGED <<echo, inbox, net, typed, Pending, swallowed, left>>
    BY <1>6, NoByteMoves
  <2>2. QED
    BY <1>0, <2>1
<1>7. QED
  BY <1>1, <1>2, <1>3, <1>4, <1>5, <1>6

(* They are on their way, and sent back, in the order in which they were typed. *)
LEMMA OrderStep == TypeOK /\ CloseInv /\ BufferInv /\ OrderInv /\ [Next]_vars => OrderInv'
<1> SUFFICES ASSUME TypeOK, CloseInv, BufferInv, OrderInv, [Next]_vars, ~swallowed', ~left', ~cut'
             PROVE  /\ IsPrefix(echo, typed)'
                    /\ typed' = ((echo' \o Pending') \o inbox') \o net'
  BY DEF OrderInv
<1> DEFINE Ordered == /\ IsPrefix(echo, typed)
                      /\ typed = ((echo \o Pending) \o inbox) \o net
<1>0. ~swallowed /\ ~left /\ ~cut => Ordered
  BY DEF OrderInv
<1>1. /\ echo \in Seq(Nat) /\ Pending \in Seq(Nat) /\ inbox \in Seq(Nat) /\ net \in Seq(Nat)
      /\ typed \in Seq(Nat) /\ <<>> \in Seq(Nat)
      /\ echo \o Pending \in Seq(Nat) /\ (echo \o Pending) \o inbox \in Seq(Nat)
  BY WayIsSeq, ConcatProperties, EmptySeq
<1>2. CASE TypeLine
  <2>1. PICK n \in Lengths, z \in Nat :
          /\ input' = [i \in 1 .. n |-> IF i = z THEN 0 ELSE Base(id) + Len(typed) + i]
          /\ typed' = typed \o input'
          /\ net' = net \o input'
    <3>1. ASSUME NEW n \in Lengths, NEW z \in 0 .. (IF id \in Nuls THEN n ELSE 0) PROVE z \in Nat
      BY <3>1, ExchangeLengths
    <3>2. QED
      BY <1>2, <3>1 DEF TypeLine
  <2>2. input' \in Seq(Nat)
    BY <2>1, LineIsSeq
  <2>3. Ordered /\ UNCHANGED <<echo, Pending, inbox>>
    BY <1>0, <1>2 DEF TypeLine, worker, history, Pending
  <2>4. IsPrefix(echo, typed \o input')
    BY <1>1, <2>2, <2>3, PrefixGrows
  <2>5. (((echo \o Pending) \o inbox) \o net) \o input' = ((echo \o Pending) \o inbox) \o (net \o input')
    <3>1. ASSUME NEW a \in Seq(Nat) PROVE (a \o net) \o input' = a \o (net \o input')
      <4>1. net \in Seq(Nat)
        BY <1>1
      <4>2. QED
        BY ONLY <2>2, <3>1, <4>1, Associative
    <3>2. QED
      BY <1>1, <3>1
  <2>6. QED
    BY <2>1, <2>3, <2>4, <2>5
<1>3. CASE Deliver
  <2>1. PICK n \in 1 .. Len(net) :
          inbox' = inbox \o SubSeq(net, 1, n) /\ net' = Takes(net, n)
    BY <1>3 DEF Deliver
  <2>2. n \in 0 .. Len(net)
    BY <1>1, LenProperties
  <2>3. /\ SubSeq(net, 1, n) \in Seq(Nat) /\ Takes(net, n) \in Seq(Nat)
        /\ SubSeq(net, 1, n) \o Takes(net, n) = net
    BY <1>1, <2>2, Pieces
  <2>4. ((echo \o Pending) \o inbox) \o (SubSeq(net, 1, n) \o Takes(net, n))
          = (((echo \o Pending) \o inbox) \o SubSeq(net, 1, n)) \o Takes(net, n)
    <3>1. ASSUME NEW a \in Seq(Nat)
          PROVE  a \o (SubSeq(net, 1, n) \o Takes(net, n)) = (a \o SubSeq(net, 1, n)) \o Takes(net, n)
      BY <2>3, Associative
    <3>2. QED
      BY <1>1, <3>1
  <2>5. ((echo \o Pending) \o inbox) \o SubSeq(net, 1, n)
          = (echo \o Pending) \o (inbox \o SubSeq(net, 1, n))
    <3>1. echo \o Pending \in Seq(Nat) /\ inbox \in Seq(Nat) /\ SubSeq(net, 1, n) \in Seq(Nat)
      BY <1>1, <2>3
    <3>2. QED
      BY ONLY <3>1, Associative
  <2>6. Ordered /\ UNCHANGED <<echo, Pending, typed>>
    BY <1>0, <1>3 DEF Deliver, client, worker, history, Pending
  <2>7. QED
    BY <2>1, <2>3, <2>4, <2>5, <2>6
<1>4. CASE ReadData
  <2>1. /\ Ordered /\ UNCHANGED <<echo, net, typed>> /\ ~swallowed /\ ~left
        /\ Pending = <<>> /\ Pending' = data'
        /\ ~(Len(data') < res') /\ res' = Len(Portion)
    BY <1>0, <1>4 DEF ReadData, Go, client, Pending
  <2>2. data' = Portion
    <3>1. /\ data' \in Seq(Nat) /\ Portion \in Seq(Nat) /\ Len(data') <= Len(Portion)
          /\ Len(data') = Len(Portion) => data' = Portion
      BY <1>4, <2>1, DataIsPortion
    <3>2. Len(data') \in Nat /\ Len(Portion) \in Nat
      BY <3>1, LenProperties
    <3>3. QED
      BY <2>1, <3>1, <3>2
  <2>3. /\ Portion \in Seq(Nat) /\ Takes(inbox, Len(Portion)) \in Seq(Nat)
        /\ Portion \o Takes(inbox, Len(Portion)) = inbox
        /\ inbox' = Takes(inbox, Len(Portion))
    BY <1>1, <1>4, PortionFacts DEF ReadData, ReadPortion
  <2>4. echo \o Pending = echo
    BY <1>1, <2>1, ConcatEmptySeq
  <2>5. echo \o (Portion \o Takes(inbox, Len(Portion))) = (echo \o Portion) \o Takes(inbox, Len(Portion))
    <3>1. echo \in Seq(Nat)
      BY <1>1
    <3>2. QED
      BY ONLY <2>3, <3>1, Associative
  <2>6. QED
    BY <2>1, <2>2, <2>3, <2>4, <2>5
<1>5. CASE Write
  <2>1. PICK n \in 0 .. Len(data) :
          echo' = echo \o SubSeq(data, 1, n) /\ cut' = (cut \/ n < Len(data))
    BY <1>5 DEF Write
  <2>2. data \in Seq(Nat)
    BY DEF TypeOK, WorkerOK
  <2>3. ~cut /\ n = Len(data)
    <3>1. ~cut /\ ~(n < Len(data))
      BY <2>1
    <3>2. QED
      BY <2>2, <3>1, LenProperties
  <2>4. SubSeq(data, 1, n) = data
    BY <2>2, <2>3, Pieces
  <2>5. /\ Ordered /\ Pending = data /\ Pending' = <<>>
        /\ UNCHANGED <<inbox, net, typed>>
    BY <1>0, <1>5, <2>3 DEF Write, Go, client, Pending
  <2>6. echo' = echo \o Pending /\ echo' \in Seq(Nat)
    BY <1>1, <2>1, <2>4, <2>5
  <2>7. echo' \o <<>> = echo'
    BY <2>6, ConcatEmptySeq
  <2>8. typed = (echo' \o inbox) \o net
    BY <2>5, <2>6
  <2>9. (echo' \o inbox) \o net = echo' \o (inbox \o net) /\ inbox \o net \in Seq(Nat)
    BY <1>1, <2>6, Associative, ConcatProperties
  <2>10. IsPrefix(echo', typed)
    BY <1>1, <2>6, <2>8, <2>9, PrefixOfConcat
  <2>11. QED
    BY <2>5, <2>7, <2>8, <2>10
<1>6. CASE ReadEof
  <2>1. inbox = <<>> /\ net = <<>>
    BY <1>6 DEF ReadEof, AtEof, CloseInv
  <2>2. echo' = <<>> /\ Pending' = <<>> /\ inbox' = <<>> /\ net' = <<>> /\ typed' = <<>>
    BY <1>6, <2>1 DEF ReadEof, Go, Pending
  <2>3. <<>> \o <<>> = <<>>
    BY <1>1, ConcatEmptySeq
  <2>4. IsPrefix(<<>>, <<>>)
    BY DEF IsPrefix
  <2>5. QED
    BY <2>2, <2>3, <2>4
<1>7. CASE ~TypeLine /\ ~Deliver /\ ~ReadData /\ ~Write /\ ~ReadEof
  <2>1. UNCHANGED <<echo, inbox, net, typed, Pending, swallowed, left, cut>>
    BY <1>7, NoByteMoves
  <2>2. Ordered
    BY <1>0, <2>1
  <2>3. QED
    BY <2>1, <2>2
<1>8. QED
  BY <1>2, <1>3, <1>4, <1>5, <1>6, <1>7

-----------------------------------------------------------------------------
\* All parts of the invariant.
IInv ==
  /\ TypeOK
  /\ CloseInv
  /\ LineInv
  /\ BufferInv
  /\ OwnInv
  /\ OrderInv
  /\ ShownIsTyped
  /\ KilledNeedsTorn

(* Nothing is on its way before the first client comes. *)
LEMMA InitIInv == Init => IInv
<1> SUFFICES ASSUME Init PROVE IInv
  OBVIOUS
<1>1. TypeOK
  <2>1. <<>> \in Seq(Nat) /\ 0 \in 0 .. BufSize /\ Workers \in Nat
    BY EmptySeq, ExchangeBounds, ExchangeWorkers
  <2>2. rbuf \in [1 .. BufSize -> Nat]
    BY DEF Init
  <2>3. QED
    BY <2>1, <2>2 DEF Init, TypeOK, ClientOK, NetworkOK, WorkerOK, HistoryOK
<1>2. CloseInv /\ BufferInv /\ KilledNeedsTorn
  BY DEF Init, CloseInv, BufferInv, KilledNeedsTorn
<1>3. LineInv
  BY DEF Init, LineInv, OnePiece, Travels
<1>4. Pending = <<>> /\ <<>> \o <<>> = <<>> /\ IsPrefix(<<>>, <<>>)
  BY ConcatEmptySeq, EmptySeq DEF Init, Pending, IsPrefix
<1>5. OwnInv /\ OrderInv
  BY <1>4, CharsOfEmpty DEF Init, OwnInv, OrderInv
<1>6. ShownIsTyped
  BY DEF Init, ShownIsTyped
<1>7. QED
  BY <1>1, <1>2, <1>3, <1>5, <1>6 DEF IInv

(* The invariant holds in every reachable state of the exchange. *)
THEOREM Invariance == Spec => []IInv
<1>1. IInv /\ [Next]_vars => IInv'
  BY TypeStep, CloseStep, LineStep, ShownStep, KilledStep, BufferStep, OwnStep, OrderStep DEF IInv
<1>2. QED
  BY <1>1, InitIInv, PTL DEF Spec

(* Type correctness, for buffers of any size and lines of any length. *)
THEOREM TypeCorrect == Spec => []TypeOK
  BY Invariance, PTL DEF IInv

(* Unless a discarded read took some or an exception came before Clear, a    *)
(* client is sent back its own bytes only, and all of them in the order in   *)
(* which it typed them if none were cut: m_readBuf is clear again before     *)
(* each read, and before the next client.                                    *)
THEOREM EchoIsOwnHolds == Spec => []EchoIsOwn
<1>1. IInv => EchoIsOwn
  BY DEF IInv, OwnInv, OrderInv, EchoIsOwn
<1>2. QED
  BY <1>1, Invariance, PTL

(* As long as lines travel in one piece the client shows the line it typed,  *)
(* although the answer may carry bytes that m_readBuf has kept.              *)
THEOREM ShownIsTypedHolds == Spec => []ShownIsTyped
  BY Invariance, PTL DEF IInv

(* SIGPIPE ends the server only after a line was read in several portions.   *)
THEOREM KilledNeedsTornHolds == Spec => []KilledNeedsTorn
  BY Invariance, PTL DEF IInv

=============================================================================
