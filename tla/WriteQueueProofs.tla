-------------------------- MODULE WriteQueueProofs --------------------------
(***************************************************************************)
(* Proofs about WriteQueue for any finite number of calls, any set of      *)
(* message ids and any batch size and number of slots.                     *)
(***************************************************************************)
EXTENDS WriteQueue, FiniteSetTheorems, SequenceTheorems, TLAPS

\* The inductive invariant: the safety invariants and the strengthening.
IInv ==
    /\ TypeOK
    /\ NobodyForgotten
    /\ AnswersAreTrue
    /\ WireConsistent
    /\ SlotsAccounted
    /\ NoLostWakeup
    /\ DepthIsExact

-----------------------------------------------------------------------------
(***************************************************************************)
(* Lemmas about sequences.                                                 *)
(***************************************************************************)

\* Cutting a sequence without repetitions in two: both parts are sequences
\* without repetitions, they are disjoint and nothing is lost.
LEMMA CutSequence ==
    ASSUME NEW S, NEW q \in Seq(S), IsInjective(q), NEW n \in 0..Len(q)
    PROVE  LET front == SubSeq(q, 1, n)
               back  == SubSeq(q, n + 1, Len(q))
           IN /\ front \in Seq(S) /\ Len(front) = n
              /\ back \in Seq(S) /\ Len(back) = Len(q) - n
              /\ IsInjective(back)
              /\ Range(q) = Range(front) \cup Range(back)
              /\ Range(front) \cap Range(back) = {}
<1> DEFINE front == SubSeq(q, 1, n)
           back  == SubSeq(q, n + 1, Len(q))
<1>1. /\ Len(q) \in Nat
      /\ DOMAIN q = 1..Len(q)
      /\ \A k \in 1..Len(q) : q[k] \in S
  BY LenProperties, ElementOfSeq
<1>2. /\ front \in Seq(S)
      /\ Len(front) = n
      /\ \A k \in 1..n : front[k] = q[k]
  <2>1. 1 \in Int /\ n \in Int /\ \A k \in 1..n : q[k] \in S
    BY <1>1
  <2>2. /\ front \in Seq(S)
        /\ Len(front) = IF 1 <= n THEN n - 1 + 1 ELSE 0
        /\ \A k \in 1..(n - 1 + 1) : front[k] = q[1 + k - 1]
    BY <2>1, SubSeqProperties
  <2> HIDE DEF front
  <2> QED BY <2>2, <1>1
<1>3. /\ back \in Seq(S)
      /\ Len(back) = Len(q) - n
      /\ \A k \in 1..(Len(q) - n) : back[k] = q[n + k]
  <2>1. n + 1 \in Int /\ Len(q) \in Int /\ \A k \in (n + 1)..Len(q) : q[k] \in S
    BY <1>1
  <2>2. /\ back \in Seq(S)
        /\ Len(back) = IF n + 1 <= Len(q) THEN Len(q) - (n + 1) + 1 ELSE 0
        /\ \A k \in 1..(Len(q) - (n + 1) + 1) : back[k] = q[n + 1 + k - 1]
    BY <2>1, SubSeqProperties
  <2> HIDE DEF back
  <2>3. Len(back) = Len(q) - n
    <3>1. Len(back) = IF n + 1 <= Len(q) THEN Len(q) - (n + 1) + 1 ELSE 0
      BY <2>2
    <3>2. Len(q) \in Int /\ n \in Int /\ n <= Len(q)
      BY <1>1
    <3> QED BY ONLY <3>1, <3>2
  <2>4. ASSUME NEW k \in 1..(Len(q) - n) PROVE back[k] = q[n + k]
    <3>1. k \in 1..(Len(q) - (n + 1) + 1) /\ n + 1 + k - 1 = n + k
      BY <1>1
    <3> QED BY <3>1, <2>2
  <2> QED BY <2>2, <2>3, <2>4
<1>4. DOMAIN front = 1..n /\ DOMAIN back = 1..(Len(q) - n)
  BY <1>2, <1>3, LenProperties
<1> HIDE DEF front, back
<1>5. IsInjective(back)
  <2>1. SUFFICES ASSUME NEW j \in DOMAIN back, NEW k \in DOMAIN back,
                        back[j] = back[k]
                 PROVE  j = k
    BY DEF IsInjective
  <2>2. n + j \in DOMAIN q /\ n + k \in DOMAIN q /\ j \in Int /\ k \in Int
    BY <1>1, <1>4
  <2>3. q[n + j] = q[n + k]
    BY <2>1, <1>3, <1>4
  <2>4. n + j = n + k
    BY <2>2, <2>3 DEF IsInjective
  <2> QED BY <2>2, <2>4
<1>6. Range(front) \cap Range(back) = {}
  <2>1. SUFFICES ASSUME NEW x \in Range(front), x \in Range(back)
                 PROVE  FALSE
    OBVIOUS
  <2>2. PICK j \in 1..n : x = front[j]
    BY <1>2, RangeEquality
  <2>3. PICK k \in 1..(Len(q) - n) : x = back[k]
    BY <2>1, <1>3, RangeEquality
  <2>4. q[j] = q[n + k]
    BY <2>2, <2>3, <1>2, <1>3
  <2>5. j \in DOMAIN q /\ n + k \in DOMAIN q /\ j # n + k
    BY <1>1
  <2> QED BY <2>4, <2>5 DEF IsInjective
<1>7. Range(q) = Range(front) \cup Range(back)
  <2>1. ASSUME NEW x \in Range(front) PROVE x \in Range(q)
    <3>1. PICK j \in 1..n : x = front[j]
      BY <1>2, RangeEquality
    <3>2. j \in 1..Len(q) /\ x = q[j]
      BY <3>1, <1>1, <1>2
    <3> QED BY <3>2, RangeEquality
  <2>2. ASSUME NEW x \in Range(back) PROVE x \in Range(q)
    <3>1. PICK j \in 1..(Len(q) - n) : x = back[j]
      BY <1>3, RangeEquality
    <3>2. n + j \in 1..Len(q) /\ x = q[n + j]
      BY <3>1, <1>1, <1>3
    <3> QED BY <3>2, RangeEquality
  <2>3. ASSUME NEW x \in Range(q) PROVE x \in Range(front) \cup Range(back)
    <3>1. PICK k \in 1..Len(q) : x = q[k]
      BY RangeEquality
    <3>2. CASE k <= n
      <4>1. k \in 1..n /\ x = front[k]
        BY <3>1, <3>2, <1>2
      <4> QED BY <4>1, <1>2, RangeEquality
    <3>3. CASE k > n
      <4>1. k - n \in 1..(Len(q) - n) /\ n + (k - n) = k
        BY <3>3, <1>1
      <4>2. x = back[k - n]
        BY <4>1, <3>1, <1>3
      <4> QED BY <4>1, <4>2, <1>3, RangeEquality
    <3> QED BY <3>2, <3>3, <1>1
  <2> QED BY <2>1, <2>2, <2>3
<1> QED BY <1>2, <1>3, <1>5, <1>6, <1>7 DEF front, back

\* Appending a new element to a sequence without repetitions.
LEMMA AppendNew ==
    ASSUME NEW S, NEW q \in Seq(S), IsInjective(q), NEW x \in S, x \notin Range(q)
    PROVE  /\ Append(q, x) \in Seq(S)
           /\ Len(Append(q, x)) = Len(q) + 1
           /\ Append(q, x) # <<>>
           /\ IsInjective(Append(q, x))
           /\ Range(Append(q, x)) = Range(q) \cup {x}
<1>1. /\ Len(q) \in Nat
      /\ DOMAIN q = 1..Len(q)
  BY LenProperties
<1> DEFINE a == Append(q, x)
<1>2. /\ a \in Seq(S)
      /\ a # <<>>
      /\ Len(a) = Len(q) + 1
      /\ \A k \in 1..Len(q) : a[k] = q[k]
      /\ a[Len(q) + 1] = x
  BY AppendProperties
<1>3. DOMAIN a = 1..(Len(q) + 1)
  BY <1>2, LenProperties
<1> HIDE DEF a
<1>4. Range(a) = Range(q) \cup {x}
  <2>1. \A k \in 1..(Len(q) + 1) : k \in 1..Len(q) \/ k = Len(q) + 1
    BY <1>1
  <2>2. \A k \in 1..Len(q) : k \in 1..(Len(q) + 1)
    BY <1>1
  <2>3. Len(q) + 1 \in 1..(Len(q) + 1)
    BY <1>1
  <2> QED BY <2>1, <2>2, <2>3, <1>1, <1>2, <1>3, Zenon DEF Range
<1>5. IsInjective(a)
  <2>1. SUFFICES ASSUME NEW j \in DOMAIN a, NEW k \in DOMAIN a, a[j] = a[k]
                 PROVE  j = k
    BY DEF IsInjective
  <2>2. \A m \in 1..Len(q) : q[m] # x
    BY <1>1 DEF Range
  <2> QED BY <2>1, <2>2, <1>1, <1>2, <1>3 DEF IsInjective
<1> QED BY <1>2, <1>4, <1>5 DEF a

\* The elements of a sequence form a finite set, no larger than the sequence.
LEMMA RangeSize ==
    ASSUME NEW S, NEW q \in Seq(S)
    PROVE  /\ IsFiniteSet(Range(q))
           /\ Cardinality(Range(q)) \in 0..Len(q)
           /\ q # <<>> => Range(q) # {}
<1>1. /\ Len(q) \in Nat
      /\ DOMAIN q = 1..Len(q)
      /\ q \in [1..Len(q) -> S]
  BY LenProperties
<1>2. q \in Surjection(1..Len(q), Range(q))
  BY <1>1 DEF Surjection, Range
<1>3. IsFiniteSet(1..Len(q)) /\ Cardinality(1..Len(q)) = Len(q)
  BY <1>1, FS_Interval
<1>4. IsFiniteSet(Range(q)) /\ Cardinality(Range(q)) <= Len(q)
  BY <1>2, <1>3, FS_Surjection
<1>5. Cardinality(Range(q)) \in Nat
  BY <1>4, FS_CardinalityType
<1>6. ASSUME q # <<>> PROVE Range(q) # {}
  <2>1. 1 \in 1..Len(q)
    BY <1>6, <1>1, EmptySeq
  <2> QED BY <2>1, RangeEquality
<1> QED BY <1>1, <1>4, <1>5, <1>6

-----------------------------------------------------------------------------
(***************************************************************************)
(* Lemmas about the batches.                                               *)
(***************************************************************************)

\* There are finitely many batches, and each is finite.
LEMMA BatchesFinite ==
    ASSUME batches \in SUBSET (SUBSET Callers)
    PROVE  /\ IsFiniteSet(batches)
           /\ Cardinality(batches) \in Nat
           /\ \A b \in batches : IsFiniteSet(b) /\ Cardinality(b) \in Nat
<1>1. IsFiniteSet(SUBSET Callers)
  BY FS_SUBSET, WriteQueueAssumption
<1>2. IsFiniteSet(batches) /\ Cardinality(batches) \in Nat
  BY <1>1, FS_Subset, FS_CardinalityType
<1>3. ASSUME NEW b \in batches PROVE IsFiniteSet(b) /\ Cardinality(b) \in Nat
  <2>1. b \in SUBSET Callers
    OBVIOUS
  <2>2. IsFiniteSet(b)
    BY <2>1, FS_Subset, WriteQueueAssumption
  <2> QED BY <2>2, FS_CardinalityType
<1> QED BY <1>2, <1>3

\* What flush() does up to its await: the documents it finds are afterwards
\* either still pending or in the batches, never in both; a new batch holds no
\* document of another one; the slot count stays exact and bounded.
LEMMA FlushEffect ==
    ASSUME TypeOK, SlotsAccounted,
           \A b1, b2 \in batches : b1 # b2 => b1 \cap b2 = {},
           NEW queue \in Seq(Callers), IsInjective(queue),
           Range(queue) \cap Sent = {},
           NEW reported, reported = Len(queue),
           Flush(queue, reported)
    PROVE  /\ pending' \in Seq(Callers) /\ IsInjective(pending')
           /\ depth' = Len(pending')
           /\ scheduled' = FALSE
           /\ inFlight' \in Nat
           /\ batches' \in SUBSET (SUBSET Callers)
           /\ \A b1, b2 \in batches' : b1 # b2 => b1 \cap b2 = {}
           /\ Range(pending') \cup Sent' = Range(queue) \cup Sent
           /\ Range(pending') \cap Sent' = {}
           /\ Range(pending') \subseteq Range(queue)
           /\ SlotsAccounted'
           /\ onWire \subseteq onWire'
           /\ onWire' \ onWire \subseteq Range(queue) \ Range(pending')
           /\ pending' # <<>> => inFlight' > 0
<1>1. CASE FlushReturns(queue, reported)
  <2>1. pending' = queue /\ batches' = batches /\ inFlight' = inFlight
        /\ onWire' = onWire /\ depth' = Len(queue) /\ scheduled' = FALSE
    BY <1>1 DEF FlushReturns, Flush
  <2>2. pending' # <<>> => inFlight' > 0
    BY <1>1, <2>1, WriteQueueAssumption DEF FlushReturns, TypeOK
  <2> QED BY <2>1, <2>2 DEF TypeOK, SlotsAccounted, Sent
<1>2. CASE FlushSends(queue)
  <2> DEFINE size  == IF Len(queue) > MaxBatch THEN MaxBatch ELSE Len(queue)
             front == SubSeq(queue, 1, size)
             back  == SubSeq(queue, size + 1, Len(queue))
             batch == Range(front)
  <2>1. /\ pending' = back
        /\ depth' = Len(back)
        /\ batches' = batches \cup {batch}
        /\ onWire' = onWire \cup batch
        /\ inFlight' = inFlight + 1
        /\ inFlight < MaxInFlight
        /\ queue # <<>>
    BY <1>2 DEF FlushSends, Left, DepthAfter, BatchSize
  <2>2. Len(queue) \in Nat \ {0}
    BY <2>1, EmptySeq
  <2>3. size \in 0..Len(queue) /\ size \in 1..MaxBatch
    BY <2>2, WriteQueueAssumption
  <2> HIDE DEF size
  <2>4. /\ front \in Seq(Callers) /\ Len(front) = size
        /\ back \in Seq(Callers) /\ Len(back) = Len(queue) - size
        /\ IsInjective(back)
        /\ Range(queue) = Range(front) \cup Range(back)
        /\ Range(front) \cap Range(back) = {}
    BY <2>3, CutSequence
  <2> HIDE DEF front, back
  <2>5. front # <<>>
    BY <2>3, <2>4, EmptySeq
  <2>6. /\ IsFiniteSet(batch)
        /\ Cardinality(batch) \in 0..size
        /\ batch # {}
    BY <2>4, <2>5, RangeSize
  <2>7. Cardinality(batch) \in 1..MaxBatch
    <3>1. Cardinality(batch) # 0
      BY <2>6, FS_EmptySet
    <3>2. Cardinality(batch) \in 0..size /\ size \in 1..MaxBatch
      BY <2>3, <2>6
    <3> HIDE DEF batch
    <3> QED BY <3>1, <3>2, WriteQueueAssumption
  <2>8. batch \subseteq Callers
    BY <2>4, RangeOfSeq
  <2>9. batch \cap Sent = {}
    BY <2>4
  <2> HIDE DEF batch
  <2>10. batch \notin batches
    BY <2>6, <2>9 DEF Sent
  <2>11. Sent' = Sent \cup batch
    BY <2>1 DEF Sent
  <2>12. \A b1, b2 \in batches' : b1 # b2 => b1 \cap b2 = {}
    BY <2>1, <2>9 DEF Sent
  <2>13. Cardinality(batches') = Cardinality(batches) + 1
    BY <2>1, <2>10, BatchesFinite, FS_AddElement DEF TypeOK
  <2>14. SlotsAccounted'
    BY <2>1, <2>7, <2>13, WriteQueueAssumption DEF SlotsAccounted, TypeOK
  <2>15. batches' \in SUBSET (SUBSET Callers)
    BY <2>1, <2>8 DEF TypeOK
  <2>16. Range(back) \cap Sent = {} /\ batch = Range(front)
    BY <2>4 DEF batch
  <2>17. /\ Range(pending') \cup Sent' = Range(queue) \cup Sent
         /\ Range(pending') \cap Sent' = {}
         /\ Range(pending') \subseteq Range(queue)
         /\ onWire' \ onWire \subseteq Range(queue) \ Range(pending')
    BY <2>1, <2>4, <2>11, <2>16
  <2>18. inFlight' \in Nat /\ inFlight' > 0
    BY <2>1 DEF TypeOK
  <2>19. scheduled' = FALSE
    BY DEF Flush
  <2> QED
    BY <2>1, <2>4, <2>12, <2>14, <2>15, <2>17, <2>18, <2>19
<1> QED BY <1>1, <1>2 DEF Flush

\* A batch that comes back: its callers are removed from what is outstanding,
\* nobody else is, and its slot is free again.
LEMMA BatchLeaves ==
    ASSUME TypeOK, SlotsAccounted, NobodyForgotten, NEW b \in batches,
           batches' = batches \ {b}, inFlight' = inFlight - 1
    PROVE  /\ batches' \in SUBSET (SUBSET Callers)
           /\ inFlight' \in Nat
           /\ b \subseteq Callers
           /\ \A c \in b : outcome[c] = "waiting" /\ c \notin Range(pending)
           /\ Sent' = Sent \ b
           /\ \A b1, b2 \in batches' : b1 # b2 => b1 \cap b2 = {}
           /\ SlotsAccounted'
<1>1. /\ batches' \in SUBSET (SUBSET Callers)
      /\ b \subseteq Callers
      /\ \A b1, b2 \in batches' : b1 # b2 => b1 \cap b2 = {}
  BY DEF TypeOK, NobodyForgotten
<1>2. \A c \in b : outcome[c] = "waiting" /\ c \notin Range(pending)
  BY DEF NobodyForgotten, Sent
<1>3. Sent' = Sent \ b
  BY DEF NobodyForgotten, Sent
<1>4. Cardinality(batches') = Cardinality(batches) - 1
  BY BatchesFinite, FS_RemoveElement DEF TypeOK
<1>5. Cardinality(batches') \in Nat
  BY <1>1, BatchesFinite, FS_Subset, FS_CardinalityType DEF TypeOK
<1>6. inFlight' \in Nat /\ SlotsAccounted'
  BY <1>4, <1>5, WriteQueueAssumption DEF SlotsAccounted, TypeOK
<1> QED BY <1>1, <1>2, <1>3, <1>6

-----------------------------------------------------------------------------
(***************************************************************************)
(* The invariant holds initially and every action preserves it.            *)
(***************************************************************************)

LEMMA InitIInv == Init => IInv
<1> SUFFICES ASSUME Init PROVE IInv
  OBVIOUS
<1>1. DOMAIN pending = {} /\ Range(pending) = {}
  BY DEF Init, Range
<1>2. TypeOK
  BY EmptySeq DEF Init, TypeOK
<1>3. NobodyForgotten
  BY <1>1 DEF Init, NobodyForgotten, Sent, IsInjective, Settled
<1>4. AnswersAreTrue /\ WireConsistent
  BY <1>1, WriteQueueAssumption DEF Init, AnswersAreTrue, WireConsistent
<1>5. SlotsAccounted
  BY FS_EmptySet, WriteQueueAssumption DEF Init, SlotsAccounted
<1>6. NoLostWakeup /\ DepthIsExact
  BY DEF Init, NoLostWakeup, DepthIsExact
<1> QED BY <1>2, <1>3, <1>4, <1>5, <1>6 DEF IInv

\* A step of the queue that hands documents to the database, changing neither
\* the index nor any verdict, keeps the database's side of the invariant.
LEMMA SendKeepsWire ==
    ASSUME TypeOK, WireConsistent, AnswersAreTrue,
           UNCHANGED <<msg, verdict, row>>,
           NEW fresh, fresh \subseteq Callers,
           \A c \in fresh : verdict[c] = "none" /\ outcome'[c] = "waiting",
           \A c \in Callers : \/ outcome'[c] = outcome[c]
                              \/ outcome[c] = "idle" /\ outcome'[c] = "waiting",
           onWire' \subseteq onWire \cup (fresh \ Range(pending')),
           \A c \in Callers : c \in Range(pending')
               => verdict[c] = "none" /\ c \notin onWire
    PROVE  WireConsistent' /\ AnswersAreTrue'
<1>1. AnswersAreTrue'
  BY DEF AnswersAreTrue
<1>2. ASSUME NEW c \in Callers, c \in onWire'
      PROVE  /\ verdict'[c] = "none"
             /\ outcome'[c] \in {"waiting", "rejected"}
             /\ c \notin Range(pending')
             /\ outcome'[c] # "idle"
  BY <1>2 DEF WireConsistent
<1>3. ASSUME NEW c \in Callers, c \in Range(pending') \/ outcome'[c] = "idle"
      PROVE  verdict'[c] = "none" /\ c \notin onWire'
  BY <1>2, <1>3 DEF WireConsistent
<1>4. ASSUME NEW c \in Callers
      PROVE  /\ verdict'[c] = "stored" <=> row'[msg'[c]] = c
             /\ verdict'[c] = "duplicate" => row'[msg'[c]] \notin {NoRow, c}
  BY DEF WireConsistent
<1> QED BY <1>1, <1>2, <1>3, <1>4 DEF WireConsistent

LEMMA InsertIInv == ASSUME IInv, NEW c \in Callers, Insert(c) PROVE IInv'
<1> USE DEF IInv
<1>1. /\ outcome[c] = "idle"
      /\ outcome' = [outcome EXCEPT ![c] = "waiting"]
      /\ outcome' \in [Callers -> {"idle", "waiting"} \cup Settled]
      /\ UNCHANGED <<msg, verdict, row, documents, duplicates>>
  BY DEF Insert, InsertFull, InsertScheduling, Enqueue, TypeOK
<1>2. /\ c \notin Range(pending)
      /\ c \notin Sent
      /\ c \notin onWire
      /\ verdict[c] = "none"
  BY <1>1 DEF NobodyForgotten, WireConsistent
<1> DEFINE queue == Append(pending, c)
<1>3. /\ queue \in Seq(Callers)
      /\ Len(queue) = Len(pending) + 1
      /\ queue # <<>>
      /\ IsInjective(queue)
      /\ Range(queue) = Range(pending) \cup {c}
  BY <1>2, AppendNew DEF NobodyForgotten, TypeOK
<1> HIDE DEF queue
<1>4. Range(queue) \cap Sent = {}
  BY <1>2, <1>3 DEF NobodyForgotten
<1>5. {d \in Callers : outcome'[d] = "waiting"} = Range(queue) \cup Sent
  BY <1>1, <1>3 DEF NobodyForgotten, TypeOK
<1>6. \A d \in Range(queue) : verdict[d] = "none" /\ d \notin onWire
  <2>1. Range(pending) \subseteq Callers
    BY RangeOfSeq DEF TypeOK
  <2> QED BY <1>2, <1>3, <2>1 DEF WireConsistent
<1>7. CASE InsertFull(c)
  <2>1. /\ Flush(queue, Len(queue))
        /\ immediates' = immediates
    BY <1>3, <1>7 DEF InsertFull, queue
  <2>2. /\ pending' \in Seq(Callers) /\ IsInjective(pending')
        /\ depth' = Len(pending')
        /\ scheduled' = FALSE
        /\ inFlight' \in Nat
        /\ batches' \in SUBSET (SUBSET Callers)
        /\ \A b1, b2 \in batches' : b1 # b2 => b1 \cap b2 = {}
        /\ Range(pending') \cup Sent' = Range(queue) \cup Sent
        /\ Range(pending') \cap Sent' = {}
        /\ Range(pending') \subseteq Range(queue)
        /\ SlotsAccounted'
        /\ onWire \subseteq onWire'
        /\ onWire' \ onWire \subseteq Range(queue) \ Range(pending')
        /\ pending' # <<>> => inFlight' > 0
    BY <2>1, <1>3, <1>4, FlushEffect DEF NobodyForgotten
  <2>3. Range(pending') \subseteq Callers /\ Range(queue) \subseteq Callers
    BY <2>2, <1>3, RangeOfSeq
  <2>5. depth' \in Nat /\ onWire' \in SUBSET Callers
    BY <2>2, <2>3, LenProperties DEF TypeOK
  <2>6. TypeOK'
    BY <1>1, <2>1, <2>2, <2>5 DEF TypeOK
  <2>7. NobodyForgotten'
    BY <1>5, <2>2 DEF NobodyForgotten
  <2>8. WireConsistent' /\ AnswersAreTrue'
    <3>1. \A d \in Range(queue) : outcome'[d] = "waiting"
      BY <1>5
    <3>2. \A d \in Callers : \/ outcome'[d] = outcome[d]
                             \/ outcome[d] = "idle" /\ outcome'[d] = "waiting"
      BY <1>1 DEF TypeOK
    <3>3. onWire' \subseteq onWire \cup (Range(queue) \ Range(pending'))
      BY <2>2
    <3>4. \A d \in Range(queue) : verdict[d] = "none" /\ outcome'[d] = "waiting"
      BY <1>6, <3>1
    <3>5. \A d \in Callers : d \in Range(pending')
              => verdict[d] = "none" /\ d \notin onWire
      BY <1>6, <2>2
    <3>6. UNCHANGED <<msg, verdict, row>>
      BY <1>1
    <3> QED BY <2>3, <3>2, <3>3, <3>4, <3>5, <3>6, SendKeepsWire
  <2>9. NoLostWakeup' /\ DepthIsExact'
    BY <2>2 DEF NoLostWakeup, DepthIsExact
  <2> QED BY <2>2, <2>6, <2>7, <2>8, <2>9
<1>8. CASE InsertScheduling(c)
  <2>1. /\ pending' = queue
        /\ depth' = Len(queue)
        /\ scheduled' = TRUE
        /\ immediates' = IF scheduled THEN immediates ELSE immediates + 1
        /\ UNCHANGED <<inFlight, batches, onWire>>
    BY <1>8, <1>3 DEF InsertScheduling, queue
  <2>2. immediates' \in Nat /\ immediates' > 0
    BY <2>1 DEF NoLostWakeup, TypeOK
  <2>3. TypeOK'
    BY <1>1, <1>3, <2>1, <2>2, LenProperties DEF TypeOK
  <2>4. NobodyForgotten'
    BY <1>3, <1>4, <1>5, <2>1 DEF NobodyForgotten, Sent
  <2>5. WireConsistent' /\ AnswersAreTrue'
    <3>1. \A d \in Callers : \/ outcome'[d] = outcome[d]
                             \/ outcome[d] = "idle" /\ outcome'[d] = "waiting"
      BY <1>1 DEF TypeOK
    <3> QED BY <1>1, <1>6, <2>1, <3>1, SendKeepsWire
  <2>6. SlotsAccounted'
    BY <2>1 DEF SlotsAccounted
  <2>7. NoLostWakeup' /\ DepthIsExact'
    BY <2>1, <2>2 DEF NoLostWakeup, DepthIsExact
  <2> QED BY <2>3, <2>4, <2>5, <2>6, <2>7
<1> QED BY <1>7, <1>8 DEF Insert

LEMMA RunImmediateIInv == ASSUME IInv, RunImmediate PROVE IInv'
<1> USE DEF IInv
<1>1. /\ immediates > 0
      /\ immediates' = immediates - 1
      /\ Flush(pending, Len(pending))
      /\ UNCHANGED <<outcome, msg, verdict, row, documents, duplicates>>
  BY DEF RunImmediate, DepthIsExact
<1>2. pending \in Seq(Callers) /\ IsInjective(pending) /\ Range(pending) \cap Sent = {}
  BY DEF NobodyForgotten, TypeOK
<1>3. /\ pending' \in Seq(Callers) /\ IsInjective(pending')
      /\ depth' = Len(pending')
      /\ scheduled' = FALSE
      /\ inFlight' \in Nat
      /\ batches' \in SUBSET (SUBSET Callers)
      /\ \A b1, b2 \in batches' : b1 # b2 => b1 \cap b2 = {}
      /\ Range(pending') \cup Sent' = Range(pending) \cup Sent
      /\ Range(pending') \cap Sent' = {}
      /\ Range(pending') \subseteq Range(pending)
      /\ SlotsAccounted'
      /\ onWire \subseteq onWire'
      /\ onWire' \ onWire \subseteq Range(pending) \ Range(pending')
      /\ pending' # <<>> => inFlight' > 0
  BY <1>1, <1>2, FlushEffect DEF NobodyForgotten
<1>4. Range(pending') \subseteq Range(pending) /\ Range(pending) \subseteq Callers
  BY <1>2, <1>3, RangeOfSeq
<1>5. immediates' \in Nat
  BY <1>1 DEF TypeOK
<1>6. depth' \in Nat /\ onWire' \in SUBSET Callers
  BY <1>3, <1>4, LenProperties DEF TypeOK
<1>7. TypeOK'
  BY <1>1, <1>3, <1>5, <1>6 DEF TypeOK
<1>8. NobodyForgotten'
  BY <1>1, <1>3 DEF NobodyForgotten
<1>9. WireConsistent' /\ AnswersAreTrue'
  <2>1. \A c \in Range(pending) : /\ verdict[c] = "none" /\ c \notin onWire
                                  /\ outcome'[c] = "waiting"
    BY <1>1, <1>4 DEF WireConsistent, NobodyForgotten
  <2>2. onWire' \subseteq onWire \cup (Range(pending) \ Range(pending'))
    BY <1>3
  <2> QED BY <1>1, <1>4, <2>1, <2>2, SendKeepsWire
<1>10. NoLostWakeup' /\ DepthIsExact'
  BY <1>3 DEF NoLostWakeup, DepthIsExact
<1> QED BY <1>3, <1>7, <1>8, <1>9, <1>10

\* A batch comes back and each of its callers is told something true.
LEMMA SettleIInv ==
    ASSUME IInv, NEW b \in batches,
           batches' = batches \ {b}, inFlight' = inFlight - 1,
           outcome' \in [Callers -> {"idle", "waiting"} \cup Settled],
           \A c \in Callers : c \notin b => outcome'[c] = outcome[c],
           \A c \in b : \/ outcome'[c] = "rejected"
                        \/ outcome'[c] = Reply(c) /\ c \notin onWire,
           documents' \in Nat, duplicates' \in Nat,
           Drain,
           UNCHANGED <<pending, depth, msg, dbVars>>
    PROVE  IInv'
<1> USE DEF IInv, dbVars
<1>1. /\ batches' \in SUBSET (SUBSET Callers)
      /\ inFlight' \in Nat
      /\ b \subseteq Callers
      /\ \A c \in b : outcome[c] = "waiting" /\ c \notin Range(pending)
      /\ Sent' = Sent \ b
      /\ \A b1, b2 \in batches' : b1 # b2 => b1 \cap b2 = {}
      /\ SlotsAccounted'
  BY BatchLeaves
<1>2. /\ scheduled' \in BOOLEAN
      /\ immediates' \in Nat
      /\ pending # <<>> /\ inFlight' = 0 => immediates' > 0
      /\ scheduled' => immediates' > 0
  BY <1>1, WriteQueueAssumption DEF Drain, NoLostWakeup, TypeOK
<1>3. TypeOK'
  BY <1>1, <1>2 DEF TypeOK
<1>4. \A c \in b : outcome'[c] \in Settled
  BY DEF Reply, Settled
<1>5. NobodyForgotten'
  <2>1. {c \in Callers : outcome'[c] = "waiting"}
            = {c \in Callers : outcome[c] = "waiting"} \ b
    BY <1>4 DEF Settled
  <2>2. (Range(pending) \cup Sent) \ b = Range(pending) \cup (Sent \ b)
    BY <1>1
  <2>3. b \in batches /\ Range(pending') = Range(pending)
    OBVIOUS
  <2> QED BY <1>1, <2>1, <2>2, <2>3 DEF NobodyForgotten
<1>6. AnswersAreTrue'
  <2>1. ASSUME NEW c \in Callers
        PROVE  /\ outcome'[c] = "new" => row[msg[c]] = c
               /\ outcome'[c] = "duplicate" => row[msg[c]] \notin {NoRow, c}
    <3>1. CASE c \notin b
      BY <3>1 DEF AnswersAreTrue
    <3>2. CASE c \in b
      BY <3>2 DEF Reply, WireConsistent
    <3> QED BY <3>1, <3>2
  <2> QED BY <2>1 DEF AnswersAreTrue
<1>7. WireConsistent'
  <2>1. ASSUME NEW c \in Callers
        PROVE  /\ c \in onWire => /\ verdict[c] = "none"
                                  /\ outcome'[c] \in {"waiting", "rejected"}
               /\ c \in Range(pending) \/ outcome'[c] = "idle"
                     => verdict[c] = "none" /\ c \notin onWire
    BY <1>1, <1>4 DEF WireConsistent, Settled
  <2> QED BY <2>1 DEF WireConsistent
<1>8. NoLostWakeup' /\ DepthIsExact'
  <2>1. pending' = pending /\ depth' = depth
    OBVIOUS
  <2>2. DepthIsExact'
    BY <2>1 DEF DepthIsExact
  <2>3. inFlight' = 0 \/ inFlight' > 0
    <3>1. inFlight' \in Nat
      BY <1>1
    <3> QED BY ONLY <3>1
  <2>4. NoLostWakeup'
    BY <1>2, <2>1, <2>3 DEF NoLostWakeup
  <2> QED BY <2>2, <2>4
<1> QED BY <1>1, <1>3, <1>5, <1>6, <1>7, <1>8

LEMMA BatchAnsweredIInv ==
    ASSUME IInv, NEW b \in batches, BatchAnswered(b)
    PROVE  IInv'
<1>1. b \subseteq Callers /\ IsFiniteSet(b) /\ Cardinality(b) \in Nat
  BY BatchesFinite DEF IInv, TypeOK
<1>2. Cardinality({c \in b : Reply(c) = "duplicate"}) \in Nat
  BY <1>1, FS_Subset, FS_CardinalityType
<1>3. documents' \in Nat /\ duplicates' \in Nat
  BY <1>1, <1>2 DEF BatchAnswered, IInv, TypeOK
<1>4. outcome' = [c \in Callers |-> IF c \in b THEN Reply(c) ELSE outcome[c]]
  BY DEF BatchAnswered, FreeSlot
<1>5. outcome' \in [Callers -> {"idle", "waiting"} \cup Settled]
  BY <1>4 DEF Reply, Settled, IInv, TypeOK
<1>6. /\ \A c \in Callers : c \notin b => outcome'[c] = outcome[c]
      /\ \A c \in b : outcome'[c] = Reply(c) /\ c \notin onWire
  BY <1>1, <1>4 DEF BatchAnswered
<1> QED BY <1>3, <1>5, <1>6, SettleIInv DEF BatchAnswered, FreeSlot

LEMMA BatchFailedIInv ==
    ASSUME IInv, NEW b \in batches, BatchFailed(b)
    PROVE  IInv'
<1>1. b \subseteq Callers
  BY DEF IInv, TypeOK
<1>2. outcome' = [c \in Callers |-> IF c \in b THEN "rejected" ELSE outcome[c]]
  BY DEF BatchFailed, FreeSlot
<1>3. outcome' \in [Callers -> {"idle", "waiting"} \cup Settled]
  BY <1>2 DEF Settled, IInv, TypeOK
<1>4. /\ \A c \in Callers : c \notin b => outcome'[c] = outcome[c]
      /\ \A c \in b : outcome'[c] = "rejected"
  BY <1>1, <1>2
<1>5. documents' \in Nat /\ duplicates' \in Nat
  BY DEF BatchFailed, IInv, TypeOK
<1> QED BY <1>3, <1>4, <1>5, SettleIInv DEF BatchFailed, FreeSlot

LEMMA WriteDocumentIInv ==
    ASSUME IInv, NEW c \in Callers, WriteDocument(c)
    PROVE  IInv'
<1> USE DEF IInv
<1>1. /\ c \in onWire
      /\ onWire' = onWire \ {c}
      /\ UNCHANGED <<pending, scheduled, depth, inFlight, documents, duplicates,
                     immediates, batches, outcome, msg>>
  BY DEF WriteDocument, queueVars
<1>2. \/ /\ row[msg[c]] = NoRow
         /\ row' = [row EXCEPT ![msg[c]] = c]
         /\ verdict' = [verdict EXCEPT ![c] = "stored"]
      \/ /\ row[msg[c]] # NoRow
         /\ row' = row
         /\ verdict' = [verdict EXCEPT ![c] = "duplicate"]
  BY DEF WriteDocument
<1>3. /\ verdict[c] = "none"
      /\ outcome[c] \in {"waiting", "rejected"}
      /\ c \notin Range(pending)
      /\ row[msg[c]] # c
      /\ msg \in [Callers -> MessageIds]
  BY <1>1 DEF WireConsistent, TypeOK
<1>4. TypeOK'
  BY <1>1, <1>2 DEF TypeOK
<1>5. NobodyForgotten' /\ SlotsAccounted' /\ NoLostWakeup' /\ DepthIsExact'
  BY <1>1 DEF NobodyForgotten, Sent, SlotsAccounted, NoLostWakeup, DepthIsExact
\* A row that exists keeps its owner; a new one belongs to c.
<1>6. ASSUME NEW d \in Callers
      PROVE  \/ row'[msg[d]] = row[msg[d]]
             \/ row[msg[d]] = NoRow /\ row'[msg[d]] = c /\ verdict'[c] = "stored"
  BY <1>2, <1>3 DEF TypeOK
<1>7. AnswersAreTrue'
  <2>1. ASSUME NEW d \in Callers
        PROVE  /\ outcome[d] = "new" => row'[msg[d]] = d
               /\ outcome[d] = "duplicate" => row'[msg[d]] \notin {NoRow, d}
    BY <1>6, WriteQueueAssumption DEF AnswersAreTrue
  <2> QED BY <1>1, <2>1 DEF AnswersAreTrue
<1>8. WireConsistent'
  <2>1. ASSUME NEW d \in Callers, d # c
        PROVE  /\ verdict'[d] = verdict[d]
               /\ row'[msg[d]] = d <=> row[msg[d]] = d
               /\ row[msg[d]] \notin {NoRow, d} => row'[msg[d]] \notin {NoRow, d}
    BY <1>2, <1>6, <2>1, WriteQueueAssumption DEF TypeOK
  <2>2. /\ verdict'[c] = "stored" <=> row'[msg[c]] = c
        /\ verdict'[c] = "duplicate" => row'[msg[c]] \notin {NoRow, c}
    BY <1>2, <1>3 DEF TypeOK
  <2>3. ASSUME NEW d \in Callers
        PROVE  /\ d \in onWire' => /\ verdict'[d] = "none"
                                   /\ outcome'[d] \in {"waiting", "rejected"}
               /\ d \in Range(pending') \/ outcome'[d] = "idle"
                     => verdict'[d] = "none" /\ d \notin onWire'
    BY <1>1, <1>3, <2>1 DEF WireConsistent
  <2>4. ASSUME NEW d \in Callers
        PROVE  /\ verdict'[d] = "stored" <=> row'[msg'[d]] = d
               /\ verdict'[d] = "duplicate" => row'[msg'[d]] \notin {NoRow, d}
    BY <1>1, <2>1, <2>2 DEF WireConsistent
  <2> QED BY <2>3, <2>4 DEF WireConsistent
<1> QED BY <1>4, <1>5, <1>7, <1>8

LEMMA RefuseDocumentIInv ==
    ASSUME IInv, NEW c \in Callers, RefuseDocument(c)
    PROVE  IInv'
<1> USE DEF IInv
<1>1. /\ c \in onWire
      /\ onWire' = onWire \ {c}
      /\ verdict' = [verdict EXCEPT ![c] = "refused"]
      /\ UNCHANGED <<pending, scheduled, depth, inFlight, documents, duplicates,
                     immediates, batches, outcome, msg, row>>
  BY DEF RefuseDocument, queueVars
<1>2. TypeOK'
  BY <1>1 DEF TypeOK
<1>3. NobodyForgotten' /\ SlotsAccounted' /\ NoLostWakeup' /\ DepthIsExact'
  BY <1>1 DEF NobodyForgotten, Sent, SlotsAccounted, NoLostWakeup, DepthIsExact
<1>4. AnswersAreTrue'
  BY <1>1 DEF AnswersAreTrue
<1>5. WireConsistent'
  <2>1. /\ verdict[c] = "none" /\ row[msg[c]] # c
        /\ outcome[c] # "idle" /\ c \notin Range(pending)
    BY <1>1 DEF WireConsistent
  <2>2. \A d \in Callers : verdict'[d] = IF d = c THEN "refused" ELSE verdict[d]
    BY <1>1 DEF TypeOK
  <2> QED BY <1>1, <2>1, <2>2 DEF WireConsistent
<1> QED BY <1>2, <1>3, <1>4, <1>5

LEMMA WriteElsewhereIInv ==
    ASSUME IInv, NEW i \in MessageIds, WriteElsewhere(i)
    PROVE  IInv'
<1> USE DEF IInv
<1>1. /\ row[i] = NoRow
      /\ row' = [row EXCEPT ![i] = Elsewhere]
      /\ UNCHANGED <<pending, scheduled, depth, inFlight, documents, duplicates,
                     immediates, batches, outcome, msg, onWire, verdict>>
  BY DEF WriteElsewhere, queueVars
<1>2. TypeOK'
  BY <1>1 DEF TypeOK
<1>3. NobodyForgotten' /\ SlotsAccounted' /\ NoLostWakeup' /\ DepthIsExact'
  BY <1>1 DEF NobodyForgotten, Sent, SlotsAccounted, NoLostWakeup, DepthIsExact
<1>4. ASSUME NEW c \in Callers
      PROVE  /\ row'[msg[c]] = c <=> row[msg[c]] = c
             /\ row[msg[c]] \notin {NoRow, c} => row'[msg[c]] \notin {NoRow, c}
  BY <1>1, WriteQueueAssumption DEF TypeOK
<1>5. AnswersAreTrue'
  BY <1>1, <1>4 DEF AnswersAreTrue
<1>6. WireConsistent'
  BY <1>1, <1>4 DEF WireConsistent
<1> QED BY <1>2, <1>3, <1>5, <1>6

\* No step of the queue, of the database or of another backend breaks it.
LEMMA NextIInv == IInv /\ [Next]_vars => IInv'
<1> SUFFICES ASSUME IInv, [Next]_vars PROVE IInv'
  OBVIOUS
<1>1. ASSUME NEW c \in Callers, Insert(c) PROVE IInv'
  BY <1>1, InsertIInv
<1>2. ASSUME NEW c \in Callers, WriteDocument(c) PROVE IInv'
  BY <1>2, WriteDocumentIInv
<1>3. ASSUME NEW c \in Callers, RefuseDocument(c) PROVE IInv'
  BY <1>3, RefuseDocumentIInv
<1>4. ASSUME NEW b \in batches, BatchAnswered(b) PROVE IInv'
  BY <1>4, BatchAnsweredIInv
<1>5. ASSUME NEW b \in batches, BatchFailed(b) PROVE IInv'
  BY <1>5, BatchFailedIInv
<1>6. ASSUME NEW i \in MessageIds, WriteElsewhere(i) PROVE IInv'
  BY <1>6, WriteElsewhereIInv
<1>7. ASSUME RunImmediate PROVE IInv'
  BY <1>7, RunImmediateIInv
<1>8. CASE UNCHANGED vars
  BY <1>8 DEF vars, queueVars, dbVars, IInv, TypeOK, NobodyForgotten, Sent,
       AnswersAreTrue, WireConsistent, SlotsAccounted, NoLostWakeup, DepthIsExact
<1> QED BY <1>1, <1>2, <1>3, <1>4, <1>5, <1>6, <1>7, <1>8 DEF Next

-----------------------------------------------------------------------------
(***************************************************************************)
(* The theorems.                                                           *)
(***************************************************************************)

\* The inductive invariant holds in every reachable state of the write queue
\* (writeQueue.js), whatever the number of calls and the two limits.
THEOREM Invariance == Spec => []IInv
<1>1. Init => IInv
  BY InitIInv
<1>2. IInv /\ [Next]_vars => IInv'
  BY NextIInv
<1> QED BY <1>1, <1>2, PTL DEF Spec

\* Every variable of the queue keeps its type; in particular inFlight, which
\* flush() decrements on three paths, never becomes negative.
THEOREM TypeCorrect == Spec => []TypeOK
<1>1. IInv => TypeOK
  BY DEF IInv
<1> QED BY <1>1, Invariance, PTL

\* A caller of insert() that is told "new" or "duplicate" is told the truth
\* about the unique index: a 200 response means the message is stored.
THEOREM AcknowledgedMeansStored == Spec => []AnswersAreTrue
<1>1. IInv => AnswersAreTrue
  BY DEF IInv
<1> QED BY <1>1, Invariance, PTL

\* The pending list and the outstanding batches partition the documents whose
\* callers are waiting: splice() and the swap lose nothing and repeat nothing.
THEOREM NothingLostOrRepeated == Spec => []NobodyForgotten
<1>1. IInv => NobodyForgotten
  BY DEF IInv
<1> QED BY <1>1, Invariance, PTL

\* No more than maxInFlight bulk writes are outstanding, none of them empty or
\* longer than maxBatch, and the counter is exact.
THEOREM WritesBounded == Spec => []SlotsAccounted
<1>1. IInv => SlotsAccounted
  BY DEF IInv
<1> QED BY <1>1, Invariance, PTL

\* A document never waits with nothing left to wake the queue up.
THEOREM NeverStranded == Spec => []NoLostWakeup
<1>1. IInv => NoLostWakeup
  BY DEF IInv
<1> QED BY <1>1, Invariance, PTL

\* The depth that the balancer is told, and routes by, is that of the queue at
\* every moment between two turns of the event loop.
THEOREM DepthReported == Spec => []DepthIsExact
<1>1. IInv => DepthIsExact
  BY DEF IInv
<1> QED BY <1>1, Invariance, PTL

\* A document is sent to the database once at most, and its verdict agrees with
\* the unique index also when the batch it was in has failed meanwhile.
THEOREM SentOnce == Spec => []WireConsistent
<1>1. IInv => WireConsistent
  BY DEF IInv
<1> QED BY <1>1, Invariance, PTL

-----------------------------------------------------------------------------
(***************************************************************************)
(* The queue implements MessageStore, under the identity on outcome, msg   *)
(* and row: a batch that comes back settles its callers truthfully, the    *)
(* database's writes store rows, everything else is invisible.             *)
(***************************************************************************)

\* Every step of the queue is a step of the store or changes nothing it sees.
LEMMA StepRefinement == IInv /\ [Next]_vars => [Store!Next]_(Store!storeVars)
<1> USE DEF Store!storeVars
<1> SUFFICES ASSUME IInv, [Next]_vars
             PROVE  Store!Next \/ UNCHANGED Store!storeVars
  OBVIOUS
<1>1. ASSUME NEW c \in Callers, Insert(c)
      PROVE  Store!Next
  <2>1. Store!Submit(c)
    BY <1>1 DEF Insert, InsertFull, InsertScheduling, Enqueue, Store!Submit
  <2> QED BY <2>1 DEF Store!Next
<1>2. ASSUME NEW c \in Callers, WriteDocument(c)
      PROVE  Store!Next \/ UNCHANGED Store!storeVars
  <2>1. CASE row[msg[c]] = NoRow
    <3>1. outcome[c] \in {"waiting", "rejected"}
      BY <1>2 DEF IInv, WireConsistent, WriteDocument
    <3>2. Store!Store(c)
      BY <1>2, <2>1, <3>1 DEF WriteDocument, Store!Store
    <3> QED BY <3>2 DEF Store!Next
  <2>2. CASE row[msg[c]] # NoRow
    BY <1>2, <2>2 DEF WriteDocument
  <2> QED BY <2>1, <2>2
<1>3. ASSUME NEW c \in Callers, RefuseDocument(c)
      PROVE  UNCHANGED Store!storeVars
  BY <1>3 DEF RefuseDocument
<1>4. ASSUME NEW b \in batches, BatchAnswered(b)
      PROVE  Store!Next
  <2>1. b \subseteq Callers /\ \A c \in b : outcome[c] = "waiting"
    BY DEF IInv, TypeOK, NobodyForgotten, Sent
  <2>2. outcome' = [c \in Callers |-> IF c \in b THEN Reply(c) ELSE outcome[c]]
    BY <1>4 DEF BatchAnswered
  <2>3. outcome' \in [Callers -> {"idle", "waiting"} \cup Store!Settled]
    BY <2>2 DEF Reply, Store!Settled, Settled, IInv, TypeOK
  <2>4. ASSUME NEW c \in b PROVE outcome'[c] \in Store!Verdicts(c)
    BY <2>1, <2>2 DEF Reply, Store!Verdicts, IInv, WireConsistent
  <2>5. \A c \in Callers :
           \/ outcome'[c] = outcome[c]
           \/ outcome[c] = "waiting" /\ outcome'[c] \in Store!Verdicts(c)
    BY <2>1, <2>2, <2>4
  <2>6. Store!Settle
    BY <1>4, <2>3, <2>5 DEF Store!Settle, BatchAnswered, dbVars
  <2> QED BY <2>6 DEF Store!Next
<1>5. ASSUME NEW b \in batches, BatchFailed(b)
      PROVE  Store!Next
  <2>1. b \subseteq Callers /\ \A c \in b : outcome[c] = "waiting"
    BY DEF IInv, TypeOK, NobodyForgotten, Sent
  <2>2. outcome' = [c \in Callers |-> IF c \in b THEN "rejected" ELSE outcome[c]]
    BY <1>5 DEF BatchFailed
  <2>3. outcome' \in [Callers -> {"idle", "waiting"} \cup Store!Settled]
    BY <2>2 DEF Store!Settled, Settled, IInv, TypeOK
  <2>4. \A c \in Callers :
           \/ outcome'[c] = outcome[c]
           \/ outcome[c] = "waiting" /\ outcome'[c] \in Store!Verdicts(c)
    BY <2>1, <2>2 DEF Store!Verdicts
  <2>5. Store!Settle
    BY <1>5, <2>3, <2>4 DEF Store!Settle, BatchFailed, dbVars
  <2> QED BY <2>5 DEF Store!Next
<1>6. ASSUME NEW i \in MessageIds, WriteElsewhere(i)
      PROVE  Store!Next
  <2>1. Store!StoreElsewhere(i)
    BY <1>6 DEF WriteElsewhere, Store!StoreElsewhere
  <2> QED BY <2>1 DEF Store!Next
<1>7. ASSUME RunImmediate PROVE UNCHANGED Store!storeVars
  BY <1>7 DEF RunImmediate
<1>8. CASE UNCHANGED vars
  BY <1>8 DEF vars, dbVars
<1> QED BY <1>1, <1>2, <1>3, <1>4, <1>5, <1>6, <1>7, <1>8 DEF Next

\* The write queue, with its batches, slots, failures and late writes, keeps
\* every promise of the abstract store to its callers.
THEOREM Refinement == Spec => ImplementsStore
<1>1. Init => Store!Init
  BY DEF Init, Store!Init
<1>2. IInv /\ [Next]_vars => [Store!Next]_(Store!storeVars)
  BY StepRefinement
<1> QED BY <1>1, <1>2, Invariance, PTL DEF Spec, ImplementsStore, Store!Spec

-----------------------------------------------------------------------------
(***************************************************************************)
(* What the callers can rely on from then on.                              *)
(***************************************************************************)

\* A settled call is not settled again, and a row that is there stays.
LEMMA StoreStands ==
    ASSUME IInv, [Store!Next]_(Store!storeVars)
    PROVE  /\ \A c \in Callers : outcome[c] \in Store!Settled => outcome'[c] = outcome[c]
           /\ \A i \in MessageIds : row[i] # NoRow => row'[i] = row[i]
<1>1. /\ outcome \in [Callers -> {"idle", "waiting"} \cup Store!Settled]
      /\ msg \in [Callers -> MessageIds]
      /\ row \in [MessageIds -> Callers \cup {NoRow, Elsewhere}]
  BY DEF IInv, TypeOK, Settled, Store!Settled
<1>2. CASE UNCHANGED Store!storeVars
  BY <1>2 DEF Store!storeVars
<1>3. ASSUME NEW c \in Callers, Store!Submit(c) \/ Store!Store(c)
      PROVE  /\ \A d \in Callers : outcome[d] \in Store!Settled => outcome'[d] = outcome[d]
             /\ \A i \in MessageIds : row[i] # NoRow => row'[i] = row[i]
  BY <1>1, <1>3 DEF Store!Submit, Store!Store, Store!Settled
<1>4. ASSUME NEW i \in MessageIds, Store!StoreElsewhere(i)
      PROVE  outcome' = outcome /\ \A k \in MessageIds : row[k] # NoRow => row'[k] = row[k]
  BY <1>1, <1>4 DEF Store!StoreElsewhere
<1>5. CASE Store!Settle
  BY <1>5 DEF Store!Settle, Store!Settled
<1> QED BY <1>2, <1>3, <1>4, <1>5 DEF Store!Next

\* A promise of insert() settles once: no late verdict of a batch that failed
\* changes what its callers were told, and no row changes hands.
THEOREM SettledOnce == Spec => Store!VerdictsStand
<1>1. IInv /\ [Next]_vars
        => [ /\ \A c \in Callers : outcome[c] \in Store!Settled => outcome'[c] = outcome[c]
             /\ \A i \in MessageIds : row[i] # NoRow => row'[i] = row[i] ]_(Store!storeVars)
  BY StepRefinement, StoreStands
<1> QED BY <1>1, Invariance, PTL DEF Spec, Store!VerdictsStand

-----------------------------------------------------------------------------
(***************************************************************************)
(* How much the queue, the event loop and the database still have to do    *)
(* for the documents they have been given: send each of them, write it,    *)
(* settle each batch and run each callback.  What remains of               *)
(* EveryInsertSettles without fairness.                                    *)
(***************************************************************************)
Wire == Cardinality(onWire)

Work == 3 * Len(pending) + 2 * inFlight + Wire + immediates

\* As long as there is work there is somebody to do it, and when there is none
\* every caller has been answered.
WorkIsDone ==
    /\ Work \in Nat
    /\ Work # 0 => immediates > 0 \/ onWire # {} \/ batches # {}
    /\ Work = 0 => \A c \in Callers : outcome[c] # "waiting"

\* A call brings work for four steps at most, other backends bring none, and
\* every other step does some.
WorkGoesDown ==
    \/ \E c \in Callers : Insert(c) /\ Work' <= Work + 4
    \/ \E i \in MessageIds : WriteElsewhere(i) /\ Work' = Work
    \/ Work' < Work

LEMMA WorkTypes ==
    ASSUME TypeOK
    PROVE  /\ Len(pending) \in Nat /\ inFlight \in Nat /\ immediates \in Nat
           /\ IsFiniteSet(onWire) /\ Wire \in Nat
<1>1. IsFiniteSet(onWire)
  BY FS_Subset, WriteQueueAssumption DEF TypeOK
<1> QED BY <1>1, FS_CardinalityType, LenProperties DEF TypeOK, Wire

\* flush() up to its await brings no work, whatever it finds.
LEMMA FlushWorks ==
    ASSUME TypeOK, NEW queue \in Seq(Callers), IsInjective(queue),
           NEW reported, Flush(queue, reported)
    PROVE  /\ Len(pending') \in Nat /\ inFlight' \in Nat /\ Wire' \in Nat
           /\ 3 * Len(pending') + 2 * inFlight' + Wire'
                 <= 3 * Len(queue) + 2 * inFlight + Wire
<1>1. /\ inFlight \in Nat /\ IsFiniteSet(onWire) /\ Wire \in Nat
      /\ Len(queue) \in Nat
  BY WorkTypes, LenProperties
<1>2. CASE FlushReturns(queue, reported)
  <2>1. pending' = queue /\ inFlight' = inFlight /\ onWire' = onWire
    BY <1>2 DEF FlushReturns
  <2> QED BY <1>1, <2>1 DEF Wire
<1>3. CASE FlushSends(queue)
  <2> DEFINE size  == BatchSize(queue)
             front == SubSeq(queue, 1, size)
             batch == Range(front)
  <2>1. /\ pending' = SubSeq(queue, size + 1, Len(queue))
        /\ onWire' = onWire \cup batch
        /\ inFlight' = inFlight + 1
        /\ queue # <<>>
    BY <1>3 DEF FlushSends, Left
  <2>2. Len(queue) \in Nat \ {0}
    BY <2>1, EmptySeq
  <2>3. size \in 1..Len(queue) /\ size \in 0..Len(queue)
    BY <2>2, WriteQueueAssumption DEF BatchSize
  <2> HIDE DEF size
  <2>4. front \in Seq(Callers) /\ Len(front) = size /\ Len(pending') = Len(queue) - size
    BY <2>1, <2>3, CutSequence
  <2> HIDE DEF front
  <2>5. IsFiniteSet(batch) /\ Cardinality(batch) \in 0..size
    BY <2>4, RangeSize
  <2> HIDE DEF batch
  <2>6. Wire' \in Nat /\ Wire' <= Wire + Cardinality(batch)
    <3>1. /\ Wire' = Wire + Cardinality(batch) - Cardinality(onWire \cap batch)
          /\ IsFiniteSet(onWire \cup batch)
      BY <1>1, <2>1, <2>5, FS_Union DEF Wire
    <3>2. Cardinality(onWire \cap batch) \in Nat /\ Wire' \in Nat
      BY <1>1, <2>1, <3>1, FS_Subset, FS_CardinalityType DEF Wire
    <3>3. Cardinality(batch) \in Int
      BY <2>3, <2>5
    <3> QED BY ONLY <1>1, <3>1, <3>2, <3>3
  <2>7. Len(pending') \in Nat /\ inFlight' \in Nat
    BY <1>1, <2>1, <2>3, <2>4
  <2>8. \A l, f, w, s, k, v \in Nat :
           s >= 1 /\ s <= l /\ k <= s /\ v <= w + k
               => 3 * (l - s) + 2 * (f + 1) + v <= 3 * l + 2 * f + w
    OBVIOUS
  <2>9. /\ size \in Nat /\ size >= 1 /\ size <= Len(queue)
        /\ Cardinality(batch) \in Nat /\ Cardinality(batch) <= size
    BY ONLY <1>1, <2>3, <2>5
  <2> HIDE DEF Wire
  <2> QED BY <1>1, <2>1, <2>4, <2>6, <2>7, <2>8, <2>9
<1> QED BY <1>2, <1>3 DEF Flush

\* A batch that comes back takes more work with it than drain() brings.
LEMMA SettleWorks ==
    ASSUME TypeOK, inFlight' = inFlight - 1, Drain, UNCHANGED <<pending, onWire>>
    PROVE  Work' < Work
<1>1. Len(pending') = Len(pending) /\ Wire' = Wire
  BY DEF Wire
<1>2. immediates' <= immediates + 1 /\ immediates' \in Nat
  BY DEF Drain, TypeOK
<1>3. Len(pending) \in Nat /\ inFlight \in Nat /\ immediates \in Nat /\ Wire \in Nat
  BY WorkTypes
<1> HIDE DEF Wire
<1> QED BY <1>1, <1>2, <1>3 DEF Work

\* So does a document that the database has done with.
LEMMA DocumentWorks ==
    ASSUME TypeOK, NEW c \in onWire, onWire' = onWire \ {c},
           UNCHANGED <<pending, inFlight, immediates>>
    PROVE  Work' < Work
<1>1. Len(pending) \in Nat /\ inFlight \in Nat /\ immediates \in Nat
      /\ IsFiniteSet(onWire) /\ Wire \in Nat
  BY WorkTypes
<1>2. Wire' = Wire - 1
  BY <1>1, FS_RemoveElement DEF Wire
<1> HIDE DEF Wire
<1> QED BY <1>1, <1>2 DEF Work

LEMMA InsertWorks ==
    ASSUME IInv, NEW c \in Callers, Insert(c)
    PROVE  Work' <= Work + 4
<1>1. TypeOK
  BY DEF IInv
<1>2. Len(pending) \in Nat /\ inFlight \in Nat /\ immediates \in Nat /\ Wire \in Nat
  BY <1>1, WorkTypes
<1> DEFINE queue == Append(pending, c)
<1>3. queue \in Seq(Callers) /\ Len(queue) = Len(pending) + 1 /\ IsInjective(queue)
  <2>1. outcome[c] = "idle"
    BY DEF Insert, InsertFull, InsertScheduling, Enqueue
  <2>2. c \notin Range(pending) /\ pending \in Seq(Callers) /\ IsInjective(pending)
    BY <1>1, <2>1 DEF IInv, NobodyForgotten, TypeOK
  <2> QED BY <2>2, AppendNew
<1>4. CASE InsertFull(c)
  <2>1. Flush(queue, Len(pending) + 1) /\ immediates' = immediates
    BY <1>4 DEF InsertFull
  <2> HIDE DEF queue
  <2>2. /\ Len(pending') \in Nat /\ inFlight' \in Nat /\ Wire' \in Nat
        /\ 3 * Len(pending') + 2 * inFlight' + Wire'
              <= 3 * Len(queue) + 2 * inFlight + Wire
    BY <1>1, <1>3, <2>1, FlushWorks
  <2> HIDE DEF Wire
  <2> QED BY <1>2, <1>3, <2>1, <2>2 DEF Work
<1>5. CASE InsertScheduling(c)
  <2>1. /\ Len(pending') = Len(pending) + 1 /\ inFlight' = inFlight /\ Wire' = Wire
        /\ immediates' \in {immediates, immediates + 1}
    BY <1>3, <1>5 DEF InsertScheduling, Wire
  <2> HIDE DEF Wire
  <2> QED BY <1>2, <2>1 DEF Work
<1> QED BY <1>4, <1>5 DEF Insert

LEMMA StepWorks == IInv /\ [Next]_vars => [WorkGoesDown]_vars
<1> SUFFICES ASSUME IInv, Next
             PROVE  WorkGoesDown
  OBVIOUS
<1>1. TypeOK
  BY DEF IInv
<1>2. ASSUME NEW c \in Callers, Insert(c) PROVE WorkGoesDown
  BY <1>2, InsertWorks DEF WorkGoesDown
<1>3. ASSUME NEW c \in Callers, WriteDocument(c) \/ RefuseDocument(c)
      PROVE  Work' < Work
  BY <1>1, <1>3, DocumentWorks DEF WriteDocument, RefuseDocument, queueVars
<1>4. ASSUME NEW b \in batches, BatchAnswered(b) \/ BatchFailed(b)
      PROVE  Work' < Work
  BY <1>1, <1>4, SettleWorks DEF BatchAnswered, BatchFailed, FreeSlot, dbVars
<1>5. ASSUME NEW i \in MessageIds, WriteElsewhere(i) PROVE WorkGoesDown
  <2>1. UNCHANGED <<pending, inFlight, onWire, immediates>>
    BY <1>5 DEF WriteElsewhere, queueVars
  <2>2. Work' = Work
    BY <2>1 DEF Work, Wire
  <2> QED BY <1>5, <2>2 DEF WorkGoesDown
<1>6. CASE RunImmediate
  <2>1. Flush(pending, depth) /\ immediates > 0 /\ immediates' = immediates - 1
    BY <1>6 DEF RunImmediate
  <2>2. pending \in Seq(Callers) /\ IsInjective(pending)
    BY DEF IInv, NobodyForgotten, TypeOK
  <2>3. /\ Len(pending') \in Nat /\ inFlight' \in Nat /\ Wire' \in Nat
        /\ 3 * Len(pending') + 2 * inFlight' + Wire'
              <= 3 * Len(pending) + 2 * inFlight + Wire
    BY <1>1, <2>1, <2>2, FlushWorks
  <2>4. Len(pending) \in Nat /\ inFlight \in Nat /\ immediates \in Nat /\ Wire \in Nat
    BY <1>1, WorkTypes
  <2>5. Work' < Work
    BY ONLY <2>1, <2>3, <2>4 DEF Work
  <2> QED BY <2>5 DEF WorkGoesDown
<1> QED BY <1>2, <1>3, <1>4, <1>5, <1>6 DEF Next, WorkGoesDown

LEMMA WorkLeft == IInv => WorkIsDone
<1> SUFFICES ASSUME IInv
             PROVE  WorkIsDone
  OBVIOUS
<1>1. /\ Len(pending) \in Nat /\ inFlight \in Nat /\ immediates \in Nat
      /\ IsFiniteSet(onWire) /\ Wire \in Nat
  BY WorkTypes DEF IInv
<1>2. /\ inFlight = Cardinality(batches) /\ IsFiniteSet(batches)
      /\ pending # <<>> => immediates > 0 \/ inFlight > 0
      /\ pending \in Seq(Callers)
  BY BatchesFinite DEF IInv, SlotsAccounted, NoLostWakeup, TypeOK
<1>3. /\ inFlight = 0 <=> batches = {}
      /\ Wire = 0 <=> onWire = {}
      /\ Len(pending) = 0 <=> pending = <<>>
  BY <1>1, <1>2, FS_EmptySet, EmptySeq DEF Wire
<1> HIDE DEF Wire
<1>4. Work \in Nat
  BY <1>1 DEF Work
<1>5. Work = 0 <=> Len(pending) = 0 /\ inFlight = 0 /\ Wire = 0 /\ immediates = 0
  BY <1>1 DEF Work
<1>6. ASSUME Work # 0 PROVE immediates > 0 \/ onWire # {} \/ batches # {}
  BY <1>1, <1>2, <1>3, <1>5, <1>6
<1>7. ASSUME Work = 0, NEW c \in Callers PROVE outcome[c] # "waiting"
  <2>1. batches = {} /\ pending = <<>>
    BY <1>3, <1>5, <1>7
  <2>2. Range(pending) = {} /\ Sent = {}
    BY <2>1 DEF Range, Sent
  <2> QED BY <2>2 DEF IInv, NobodyForgotten
<1> QED BY <1>4, <1>6, <1>7 DEF WorkIsDone

\* flush(), drain() and setImmediate() cannot send each other round for ever: a
\* call of insert() costs the event loop and the database four steps at most,
\* however the batches fall and whichever of them fail; until they are taken
\* something is there to take them, and then every caller has been answered.
THEOREM QueueWindsDown == Spec => []WorkIsDone /\ [][WorkGoesDown]_vars
BY WorkLeft, StepWorks, Invariance, PTL DEF Spec
=============================================================================
