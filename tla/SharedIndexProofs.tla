------------------------- MODULE SharedIndexProofs -------------------------
(***************************************************************************)
(* Proof that the write queues of any number of backends, each of which    *)
(* keeps the promise of MessageStore as far as it can see, keep it         *)
(* together.                                                               *)
(***************************************************************************)
EXTENDS SharedIndex, TLAPS

\* The values that stand for rows nobody here has written.
Values == NoRow \notin Callers /\ Elsewhere \notin Callers /\ NoRow # Elsewhere

\* A backend's step, as far as it sees: its callers move, or a row appears.
CallsMove(b) ==
    /\ UNCHANGED RowsSeenBy(b)
    /\ \/ \E c \in CallersOf(b) : QueueOf(b)!Submit(c)
       \/ QueueOf(b)!Settle

RowAppears(b, i) ==
    /\ UNCHANGED OutcomesOf(b)
    /\ row[i] = NoRow /\ row'[i] # NoRow
    /\ \A k \in MessageIds \ {i} : RowsSeenBy(b)'[k] = RowsSeenBy(b)[k]

-----------------------------------------------------------------------------
(* The index as one backend sees it.                                       *)

LEMMA CallersAreOf ==
    /\ \A b \in Backends : CallersOf(b) \subseteq Callers
    /\ \A c \in Callers : c[1] \in Backends /\ c \in CallersOf(c[1])
    /\ \A a, b \in Backends : a # b => CallersOf(a) \cap CallersOf(b) = {}
BY DEF Callers, CallersOf

LEMMA Types ==
    ASSUME TypeOK
    PROVE  /\ outcome \in [Callers -> {"idle", "waiting", "new", "duplicate", "rejected"}]
           /\ msg \in [Callers -> MessageIds]
           /\ row \in [MessageIds -> Callers \cup {NoRow, Elsewhere}]
BY DEF TypeOK, All!TypeOK, All!Settled

LEMMA TypesAfter ==
    ASSUME TypeOK'
    PROVE  /\ outcome' \in [Callers -> {"idle", "waiting", "new", "duplicate", "rejected"}]
           /\ msg' \in [Callers -> MessageIds]
           /\ row' \in [MessageIds -> Callers \cup {NoRow, Elsewhere}]
BY DEF TypeOK, All!TypeOK, All!Settled

\* A backend knows which rows are free, and which are its own.
LEMMA Seen ==
    ASSUME Values, NEW b \in Backends, NEW i \in MessageIds
    PROVE  /\ RowsSeenBy(b)[i] = NoRow <=> row[i] = NoRow
           /\ \A c \in CallersOf(b) : RowsSeenBy(b)[i] = c <=> row[i] = c
BY CallersAreOf DEF RowsSeenBy, Values

\* Of a step of one queue the index changes at most where it was free.
LEMMA QueueStep ==
    ASSUME Values, TypeOK, TypeOK', NEW b \in Backends,
           [QueueOf(b)!Next]_(QueueOf(b)!storeVars)
    PROVE  /\ \A c \in CallersOf(b) : msg'[c] = msg[c]
           /\ \/ UNCHANGED <<OutcomesOf(b), RowsSeenBy(b)>>
              \/ CallsMove(b)
              \/ \E i \in MessageIds : RowAppears(b, i)
<1> USE Types, TypesAfter, CallersAreOf
<1> DEFINE mine == [c \in CallersOf(b) |-> msg[c]]
<1>1. mine' = mine
  BY DEF QueueOf!Next, QueueOf!storeVars, QueueOf!Submit, QueueOf!Store,
         QueueOf!StoreElsewhere, QueueOf!Settle
<1>2. \A c \in CallersOf(b) : msg'[c] = msg[c]
  BY <1>1
<1>3. ASSUME NEW i \in MessageIds, NEW x, x # NoRow,
             RowsSeenBy(b)[i] = NoRow, UNCHANGED OutcomesOf(b),
             RowsSeenBy(b)' = [RowsSeenBy(b) EXCEPT ![i] = x]
      PROVE  RowAppears(b, i)
  <2>1. RowsSeenBy(b)'[i] = x
    BY <1>3 DEF RowsSeenBy
  <2>2. row[i] = NoRow
    BY <1>3, Seen
  <2>3. row'[i] # NoRow
    BY <1>3, <2>1 DEF RowsSeenBy
  <2>4. \A k \in MessageIds \ {i} : RowsSeenBy(b)'[k] = RowsSeenBy(b)[k]
    BY <1>3
  <2> QED BY <1>3, <2>2, <2>3, <2>4 DEF RowAppears
<1>4. CASE UNCHANGED QueueOf(b)!storeVars
  BY <1>2, <1>4 DEF QueueOf!storeVars
<1>5. ASSUME NEW c \in CallersOf(b), QueueOf(b)!Submit(c) PROVE CallsMove(b)
  BY <1>5 DEF CallsMove, QueueOf!Submit
<1>6. ASSUME NEW c \in CallersOf(b), QueueOf(b)!Store(c)
      PROVE  \E i \in MessageIds : RowAppears(b, i)
  <2>1. /\ mine[c] \in MessageIds /\ c # NoRow
        /\ RowsSeenBy(b)[mine[c]] = NoRow
        /\ RowsSeenBy(b)' = [RowsSeenBy(b) EXCEPT ![mine[c]] = c]
        /\ UNCHANGED OutcomesOf(b)
    BY <1>6 DEF QueueOf!Store, Values
  <2> QED BY <1>3, <2>1
<1>7. ASSUME NEW i \in MessageIds, QueueOf(b)!StoreElsewhere(i) PROVE RowAppears(b, i)
  <2>1. /\ RowsSeenBy(b)[i] = NoRow /\ Elsewhere # NoRow
        /\ RowsSeenBy(b)' = [RowsSeenBy(b) EXCEPT ![i] = Elsewhere]
        /\ UNCHANGED OutcomesOf(b)
    BY <1>7 DEF QueueOf!StoreElsewhere, Values
  <2> QED BY <1>3, <2>1
<1>8. CASE QueueOf(b)!Settle
  BY <1>8 DEF CallsMove, QueueOf!Settle
<1> QED BY <1>2, <1>4, <1>5, <1>6, <1>7, <1>8 DEF QueueOf!Next

\* A row that changes was free, and no caller is told anything meanwhile.
LEMMA RowsOnlyAppear ==
    ASSUME Values, Backends # {}, TypeOK, Next, NEW i \in MessageIds, row'[i] # row[i]
    PROVE  /\ row[i] = NoRow /\ row'[i] # NoRow
           /\ outcome' = outcome
           /\ \A k \in MessageIds \ {i} : row'[k] = row[k]
<1> USE CallersAreOf, Types, TypesAfter
<1>0. TypeOK'
  BY DEF Next
<1>1. ASSUME NEW b \in Backends
      PROVE  /\ \/ UNCHANGED <<OutcomesOf(b), RowsSeenBy(b)>>
                \/ CallsMove(b)
                \/ \E k \in MessageIds : RowAppears(b, k)
  BY <1>0, QueueStep DEF Next
<1>2. ASSUME NEW k \in MessageIds, row'[k] # row[k]
      PROVE  row[k] = NoRow /\ row'[k] # NoRow
  <2>1. \E b \in Backends : RowsSeenBy(b)'[k] # RowsSeenBy(b)[k]
    <3>1. CASE row[k] \in Callers
      <4>1. PICK b \in Backends : row[k] \in CallersOf(b)
        BY <3>1
      <4>2. RowsSeenBy(b)[k] = row[k]
        BY <4>1 DEF RowsSeenBy
      <4>3. RowsSeenBy(b)'[k] # row[k]
        BY <1>2, <3>1, <4>1 DEF RowsSeenBy, Values
      <4> QED BY <4>2, <4>3
    <3>2. CASE row'[k] \in Callers
      <4>1. PICK b \in Backends : row'[k] \in CallersOf(b)
        BY <3>2
      <4>2. RowsSeenBy(b)'[k] = row'[k]
        BY <4>1 DEF RowsSeenBy
      <4>3. RowsSeenBy(b)[k] # row'[k]
        BY <1>2, <3>2, <4>1 DEF RowsSeenBy, Values
      <4> QED BY <4>2, <4>3
    <3>3. CASE row[k] \notin Callers /\ row'[k] \notin Callers
      <4>1. {row[k], row'[k]} \subseteq {NoRow, Elsewhere}
        BY <1>0, <3>3
      <4>2. PICK b \in Backends : TRUE
        OBVIOUS
      <4>3. RowsSeenBy(b)[k] = row[k] /\ RowsSeenBy(b)'[k] = row'[k]
        BY <3>3, <4>1, <4>2 DEF RowsSeenBy
      <4> QED BY <1>2, <4>2, <4>3
    <3> QED BY <3>1, <3>2, <3>3
  <2>2. PICK b \in Backends : RowsSeenBy(b)'[k] # RowsSeenBy(b)[k]
    BY <2>1
  <2>3. PICK j \in MessageIds : RowAppears(b, j)
    BY <1>1, <2>2 DEF CallsMove
  <2>4. j = k
    BY <2>2, <2>3 DEF RowAppears
  <2> QED BY <2>3, <2>4 DEF RowAppears
<1>3. row[i] = NoRow /\ row'[i] # NoRow
  BY <1>2
<1>4. ASSUME NEW b \in Backends PROVE RowAppears(b, i)
  <2>1. RowsSeenBy(b)[i] = NoRow /\ RowsSeenBy(b)'[i] # NoRow
    BY <1>3 DEF RowsSeenBy, Values
  <2>2. PICK j \in MessageIds : RowAppears(b, j)
    BY <1>1, <2>1 DEF CallsMove
  <2>3. j = i
    BY <2>1, <2>2 DEF RowAppears
  <2> QED BY <2>2, <2>3
<1>5. outcome' = outcome
  <2>1. ASSUME NEW c \in Callers PROVE outcome'[c] = outcome[c]
    <3>1. c[1] \in Backends /\ c \in CallersOf(c[1])
      OBVIOUS
    <3>2. PICK b \in Backends : b = c[1]
      BY <3>1
    <3>3. UNCHANGED OutcomesOf(b)
      BY <1>4 DEF RowAppears
    <3> QED BY <3>1, <3>2, <3>3 DEF OutcomesOf
  <2> QED BY <1>0, <2>1
<1>6. ASSUME NEW k \in MessageIds \ {i} PROVE row'[k] = row[k]
  <2>1. SUFFICES ASSUME row'[k] # row[k] PROVE FALSE
    OBVIOUS
  <2>2. row[k] = NoRow /\ row'[k] # NoRow
    BY <1>2, <2>1
  <2>3. PICK b \in Backends : TRUE
    OBVIOUS
  <2>4. RowsSeenBy(b)[k] = NoRow /\ RowsSeenBy(b)'[k] # NoRow
    BY <2>2 DEF RowsSeenBy, Values
  <2>5. RowsSeenBy(b)'[k] = RowsSeenBy(b)[k]
    BY <1>4 DEF RowAppears
  <2> QED BY <2>4, <2>5
<1> QED BY <1>3, <1>5, <1>6

-----------------------------------------------------------------------------
(* The refinement.                                                         *)

LEMMA NoMsgChanges ==
    ASSUME Values, TypeOK, Next
    PROVE  msg' = msg
<1> USE CallersAreOf, Types, TypesAfter
<1>0. TypeOK'
  BY DEF Next
<1>1. ASSUME NEW c \in Callers PROVE msg'[c] = msg[c]
  <2>1. PICK b \in Backends : c \in CallersOf(b)
    OBVIOUS
  <2> QED BY <1>0, <2>1, QueueStep DEF Next
<1> QED BY <1>0, <1>1

\* A row appears: a call of one backend stores its document, and the others see
\* one stored elsewhere; or none of the backends has written it.
LEMMA RowStep ==
    ASSUME Values, Backends # {}, TypeOK, Next, row' # row
    PROVE  All!Next
<1> USE CallersAreOf, Types, TypesAfter
<1>0. TypeOK' /\ msg' = msg
  BY NoMsgChanges DEF Next
<1>1. PICK i \in MessageIds : row'[i] # row[i]
  BY <1>0
<1>2. /\ row[i] = NoRow /\ row'[i] # NoRow
      /\ outcome' = outcome
      /\ \A k \in MessageIds \ {i} : row'[k] = row[k]
  BY <1>1, RowsOnlyAppear
<1>3. row' = [row EXCEPT ![i] = row'[i]]
  BY <1>0, <1>2
<1>4. CASE row'[i] = Elsewhere
  <2>1. All!StoreElsewhere(i)
    BY <1>0, <1>2, <1>3, <1>4 DEF All!StoreElsewhere
  <2> QED BY <2>1 DEF All!Next
<1>5. CASE row'[i] \in Callers
  <2>1. PICK c \in Callers, b \in Backends : c = row'[i] /\ c \in CallersOf(b)
    BY <1>5
  <2>2. RowsSeenBy(b)[i] = NoRow /\ RowsSeenBy(b)'[i] = c /\ c # NoRow /\ c # Elsewhere
    BY <1>2, <2>1 DEF RowsSeenBy, Values
  <2>3. [QueueOf(b)!Next]_(QueueOf(b)!storeVars)
    BY DEF Next
  <2>4. PICK d \in CallersOf(b) : QueueOf(b)!Store(d)
    <3>1. ~UNCHANGED RowsSeenBy(b)
      BY <2>2
    <3>2. ASSUME NEW j \in MessageIds, QueueOf(b)!StoreElsewhere(j) PROVE FALSE
      <4>1. RowsSeenBy(b)' = [RowsSeenBy(b) EXCEPT ![j] = Elsewhere]
        BY <3>2 DEF QueueOf!StoreElsewhere
      <4>2. RowsSeenBy(b)'[i] \in {RowsSeenBy(b)[i], Elsewhere}
        BY <4>1 DEF RowsSeenBy
      <4> QED BY <2>2, <4>2
    <3> QED BY <2>3, <3>1, <3>2
            DEF QueueOf!Next, QueueOf!storeVars, QueueOf!Submit, QueueOf!Settle
  <2>5. d = c /\ msg[c] = i /\ outcome[c] \in {"waiting", "rejected"}
    <3> DEFINE mine == [x \in CallersOf(b) |-> msg[x]]
    <3>1. /\ OutcomesOf(b)[d] \in {"waiting", "rejected"}
          /\ RowsSeenBy(b)' = [RowsSeenBy(b) EXCEPT ![mine[d]] = d]
      BY <2>4 DEF QueueOf!Store
    <3>2. mine[d] = msg[d] /\ OutcomesOf(b)[d] = outcome[d]
      BY DEF OutcomesOf
    <3>3. RowsSeenBy(b)'[i] = IF i = msg[d] THEN d ELSE RowsSeenBy(b)[i]
      BY <3>1, <3>2 DEF RowsSeenBy
    <3> QED BY <2>2, <3>1, <3>2, <3>3
  <2>6. All!Store(c)
    BY <1>0, <1>2, <1>3, <2>1, <2>5 DEF All!Store
  <2> QED BY <2>6 DEF All!Next
<1> QED BY <1>0, <1>2, <1>4, <1>5

\* Callers of one backend are called back, or one more waits.
LEMMA CallsStep ==
    ASSUME Values, TypeOK, Next, row' = row, outcome' # outcome
    PROVE  All!Next
<1> USE CallersAreOf, Types, TypesAfter
<1>0. TypeOK' /\ msg' = msg
  BY NoMsgChanges DEF Next
<1>1. PICK e \in Callers : outcome'[e] # outcome[e]
  BY <1>0
<1>2. PICK b \in Backends : e \in CallersOf(b)
  OBVIOUS
<1>3. ~UNCHANGED OutcomesOf(b)
  <2>1. OutcomesOf(b)[e] = outcome[e] /\ OutcomesOf(b)'[e] = outcome'[e]
    BY <1>2 DEF OutcomesOf
  <2> QED BY <1>1, <2>1
<1>4. ASSUME NEW c \in Callers, c \notin CallersOf(b) PROVE outcome'[c] = outcome[c]
  <2>1. PICK a \in Backends : c \in CallersOf(a)
    OBVIOUS
  <2>2. UNCHANGED OutcomesOf(a)
    BY <1>3, <1>4, <2>1 DEF Next
  <2>3. OutcomesOf(a)[c] = outcome[c] /\ OutcomesOf(a)'[c] = outcome'[c]
    BY <2>1 DEF OutcomesOf
  <2> QED BY <2>2, <2>3
<1>5. UNCHANGED RowsSeenBy(b)
  BY DEF RowsSeenBy
<1>6. CallsMove(b)
  <2>1. \A i \in MessageIds : ~RowAppears(b, i)
    BY DEF RowAppears
  <2> QED BY <1>0, <1>3, <2>1, QueueStep DEF Next
<1>7. ASSUME NEW c \in CallersOf(b), QueueOf(b)!Submit(c) PROVE All!Submit(c)
  <2>1. OutcomesOf(b)[c] = "idle" /\ OutcomesOf(b)' = [OutcomesOf(b) EXCEPT ![c] = "waiting"]
    BY <1>7 DEF QueueOf!Submit
  <2>2. ASSUME NEW x \in CallersOf(b)
        PROVE  outcome'[x] = IF x = c THEN "waiting" ELSE outcome[x]
    BY <2>1 DEF OutcomesOf
  <2>3. outcome' = [outcome EXCEPT ![c] = "waiting"]
    BY <1>0, <1>4, <2>2
  <2> QED BY <1>0, <2>1, <2>3 DEF All!Submit, OutcomesOf
<1>8. ASSUME QueueOf(b)!Settle PROVE All!Settle
  <2>1. ASSUME NEW c \in CallersOf(b)
        PROVE  \/ outcome'[c] = outcome[c]
               \/ outcome[c] = "waiting" /\ outcome'[c] \in All!Verdicts(c)
    <3> DEFINE mine == [x \in CallersOf(b) |-> msg[x]]
    <3>1. \/ OutcomesOf(b)'[c] = OutcomesOf(b)[c]
          \/ OutcomesOf(b)[c] = "waiting" /\ OutcomesOf(b)'[c] \in QueueOf(b)!Verdicts(c)
      BY <1>8 DEF QueueOf!Settle
    <3>2. OutcomesOf(b)[c] = outcome[c] /\ OutcomesOf(b)'[c] = outcome'[c] /\ mine[c] = msg[c]
      BY DEF OutcomesOf
    <3>3. msg[c] \in MessageIds
      OBVIOUS
    <3>4. /\ RowsSeenBy(b)[msg[c]] = c <=> row[msg[c]] = c
          /\ RowsSeenBy(b)[msg[c]] = NoRow <=> row[msg[c]] = NoRow
      BY <3>3, Seen
    <3>5. QueueOf(b)!Verdicts(c) \subseteq All!Verdicts(c)
      BY <3>2, <3>4 DEF QueueOf!Verdicts, All!Verdicts
    <3> QED BY <3>1, <3>2, <3>5
  <2> QED BY <1>0, <1>4, <2>1 DEF All!Settle, All!Settled
<1> QED BY <1>6, <1>7, <1>8 DEF CallsMove, All!Next

LEMMA QueuesBegin ==
    ASSUME Values, Backends # {}, Init
    PROVE  All!Init
<1> USE CallersAreOf, Types
<1>0. TypeOK /\ \A b \in Backends : QueueOf(b)!Init
  BY DEF Init
<1>1. ASSUME NEW c \in Callers PROVE outcome[c] = "idle"
  <2>1. PICK b \in Backends : c \in CallersOf(b)
    OBVIOUS
  <2>2. OutcomesOf(b) = [x \in CallersOf(b) |-> "idle"]
    BY <1>0 DEF QueueOf!Init
  <2> QED BY <2>1, <2>2 DEF OutcomesOf
<1>2. ASSUME NEW i \in MessageIds PROVE row[i] = NoRow
  <2>1. PICK b \in Backends : TRUE
    OBVIOUS
  <2>2. RowsSeenBy(b) = [k \in MessageIds |-> NoRow]
    BY <1>0 DEF QueueOf!Init
  <2> QED BY <2>2, Seen
<1> QED BY <1>0, <1>1, <1>2 DEF All!Init

\* While every queue keeps its promise, the promise of them all holds.
LEMMA QueuesStep ==
    ASSUME Values, Backends # {}, TypeOK, [Next]_vars
    PROVE  TypeOK' /\ [All!Next]_(All!storeVars)
<1>1. CASE UNCHANGED vars
  BY <1>1 DEF vars, All!storeVars, TypeOK, All!TypeOK
<1>2. CASE Next
  <2>1. TypeOK' /\ msg' = msg
    BY <1>2, NoMsgChanges DEF Next
  <2>2. CASE row' = row /\ outcome' = outcome
    BY <2>1, <2>2 DEF All!storeVars
  <2> QED BY <1>2, <2>1, <2>2, RowStep, CallsStep
<1> QED BY <1>1, <1>2

\* Any number of backends, each keeping the promise of MessageStore as far as it
\* can see, keep it together: MessagePath may take them for one store.
THEOREM QueuesAreOneStore ==
    ASSUME Values, Backends # {}
    PROVE  Spec => ImplementsStore
<1>1. Init => TypeOK /\ All!Init
  BY QueuesBegin DEF Init
<1>2. TypeOK /\ [Next]_vars => TypeOK' /\ [All!Next]_(All!storeVars)
  BY QueuesStep
<1> QED BY <1>1, <1>2, PTL DEF Spec, ImplementsStore, All!Spec

-----------------------------------------------------------------------------
(* What follows for the callers of all backends.                           *)

LEMMA StoreHolds ==
    ASSUME Values, TypeOK, TypeOK', All!VerdictsHold, [All!Next]_(All!storeVars)
    PROVE  /\ All!VerdictsHold'
           /\ \A c \in Callers : outcome[c] \in All!Settled => outcome'[c] = outcome[c]
           /\ \A i \in MessageIds : row[i] # NoRow => row'[i] = row[i]
<1> USE Types, TypesAfter DEF All!Settled
<1>1. ASSUME TypeOK, All!VerdictsHold, NEW c \in Callers
      PROVE  /\ outcome[c] = "new" => row[msg[c]] = c
             /\ outcome[c] = "duplicate" => row[msg[c]] \notin {NoRow, c}
  BY <1>1 DEF All!VerdictsHold, All!Verdicts
<1>2. ASSUME \A c \in Callers :
                /\ outcome'[c] = "new" => row'[msg'[c]] = c
                /\ outcome'[c] = "duplicate" => row'[msg'[c]] \notin {NoRow, c}
      PROVE  All!VerdictsHold'
  BY <1>2 DEF All!VerdictsHold, All!Verdicts
<1>3. ASSUME NEW i \in MessageIds, NEW x, row[i] = NoRow, row' = [row EXCEPT ![i] = x],
             UNCHANGED <<outcome, msg>>
      PROVE  All!VerdictsHold' /\ \A k \in MessageIds : row[k] # NoRow => row'[k] = row[k]
  BY <1>1, <1>2, <1>3 DEF Values
<1>4. CASE UNCHANGED All!storeVars
  BY <1>1, <1>2, <1>4 DEF All!storeVars
<1>5. ASSUME NEW c \in Callers, All!Submit(c)
      PROVE  /\ All!VerdictsHold'
             /\ \A d \in Callers : outcome[d] \in All!Settled => outcome'[d] = outcome[d]
             /\ row' = row
  BY <1>1, <1>2, <1>5 DEF All!Submit
<1>6. ASSUME NEW c \in Callers, All!Store(c)
      PROVE  /\ All!VerdictsHold' /\ outcome' = outcome
             /\ \A k \in MessageIds : row[k] # NoRow => row'[k] = row[k]
  BY <1>3, <1>6 DEF All!Store
<1>7. ASSUME NEW i \in MessageIds, All!StoreElsewhere(i)
      PROVE  /\ All!VerdictsHold' /\ outcome' = outcome
             /\ \A k \in MessageIds : row[k] # NoRow => row'[k] = row[k]
  BY <1>3, <1>7 DEF All!StoreElsewhere
<1>8. CASE All!Settle
  <2>1. ASSUME NEW c \in Callers
        PROVE  /\ outcome'[c] = "new" => row[msg[c]] = c
               /\ outcome'[c] = "duplicate" => row[msg[c]] \notin {NoRow, c}
               /\ outcome[c] # "waiting" => outcome'[c] = outcome[c]
    BY <1>1, <1>8 DEF All!Settle, All!Verdicts
  <2>2. msg' = msg /\ row' = row
    BY <1>8 DEF All!Settle
  <2> QED BY <1>2, <2>1, <2>2
<1> QED BY <1>4, <1>5, <1>6, <1>7, <1>8 DEF All!Next

LEMMA QueuesInvariance ==
    ASSUME Values, Backends # {}
    PROVE  Spec => [](TypeOK /\ All!VerdictsHold)
<1>1. Init => TypeOK /\ All!VerdictsHold
  BY QueuesBegin DEF Init, All!Init, All!VerdictsHold
<1>2. TypeOK /\ All!VerdictsHold /\ [Next]_vars => TypeOK' /\ All!VerdictsHold'
  BY QueuesStep, StoreHolds
<1> QED BY <1>1, <1>2, PTL DEF Spec

\* Of all the calls with one id on all backends, at most one is told "new".
THEOREM OneWinnerAnywhere ==
    ASSUME Values, Backends # {}
    PROVE  Spec => []All!OneWinner
<1>1. TypeOK /\ All!VerdictsHold => All!OneWinner
  <2> SUFFICES ASSUME TypeOK, All!VerdictsHold, NEW c \in Callers, NEW d \in Callers,
                      outcome[c] = "new", outcome[d] = "new", msg[c] = msg[d]
               PROVE  c = d
    BY DEF All!OneWinner
  <2>1. row[msg[c]] = c /\ row[msg[d]] = d
    BY DEF All!VerdictsHold, All!Verdicts
  <2> QED BY <2>1
<1> QED BY <1>1, QueuesInvariance, PTL

\* What a caller has been told stays true whatever the other backends store: its
\* verdict is final, and no row gives way to another.
THEOREM VerdictsStandAnywhere ==
    ASSUME Values, Backends # {}
    PROVE  Spec => All!VerdictsStand
<1>1. TypeOK /\ All!VerdictsHold /\ [Next]_vars
        => [ /\ \A c \in Callers : outcome[c] \in All!Settled => outcome'[c] = outcome[c]
             /\ \A i \in MessageIds : row[i] # NoRow => row'[i] = row[i] ]_(All!storeVars)
  BY QueuesStep, StoreHolds
<1> QED BY <1>1, QueuesInvariance, PTL DEF Spec, All!VerdictsStand
=============================================================================
