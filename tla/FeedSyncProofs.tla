--------------------------- MODULE FeedSyncProofs ---------------------------
(***************************************************************************)
(* Proofs about FeedSync for any sizes of the room, its slack and its      *)
(* chunks, any number of messages and any number of faults.                *)
(***************************************************************************)
EXTENDS FeedSync, TLAPS

\* While this.stream is the only open stream, the token is the place it has
\* come to, so reopening at the token goes on where it stopped.
TokenIsStream == others = NoOthers /\ token # NoToken => stream \in {token, Closed}

IInv == TypeOK /\ NeverLeftDeaf /\ TokenIsStream

-----------------------------------------------------------------------------
(* The operators.                                                          *)

LEMMA Sizes == MaxRows \in Nat /\ MaxFaults \in Nat
BY FeedSyncAssumption

\* Positions and tokens: where a stream can be, and that it is then not closed.
LEMMA OpenedIsPosition ==
    ASSUME NEW t \in {NoToken} \cup Messages
    PROVE  /\ OpenedAt(t) \in Positions
           /\ OpenedAt(t) # Closed
           /\ t # NoToken => OpenedAt(t) = t
BY Sizes DEF OpenedAt, Positions, Opening, Closed, NoToken, Messages

LEMMA PositionIsOpen == \A p \in Positions : p # Closed
BY Sizes DEF Positions, Opening, Closed

LEMMA NewestIsMessages == ASSUME TypeOK PROVE Newest \in SUBSET Messages
BY Sizes, FeedSyncAssumption DEF Newest, Messages, TypeOK

\* What watch() leaves: a stream at the token, or a timer.
LEMMA WatchTypes ==
    ASSUME TypeOK, NEW t \in {NoToken} \cup Messages, NEW timers \in Nat, Watch(t, timers)
    PROVE  /\ stream' \in Positions \cup {Closed}
           /\ others' \in [Positions -> Nat]
           /\ resyncTimers' \in Nat
           /\ faults' \in 0..MaxFaults
           /\ stream' # Closed \/ resyncTimers' > 0
<1>1. CASE WatchOpens(t, timers)
  BY <1>1, OpenedIsPosition DEF WatchOpens, TypeOK
<1>2. CASE WatchThrows(timers)
  BY <1>2, Sizes DEF WatchThrows, Fault, TypeOK
<1> QED BY <1>1, <1>2 DEF Watch

\* A process that is not there has nothing open and nothing to do.
LEMMA NoProcessKeeps ==
    ASSUME IInv, NEW p \in Phases \ {"up"}, NoProcess(p), rows' = rows,
           faults' \in 0..MaxFaults
    PROVE  IInv'
<1> USE Sizes DEF NoProcess
<1>1. others' \in [Positions -> Nat]
  BY DEF NoOthers
<1>2. checking' \in BOOLEAN /\ wasShort' \in BOOLEAN /\ cooled' \in BOOLEAN
  OBVIOUS
<1>3. held' \in SUBSET Messages /\ written' \in SUBSET Messages
      /\ prepared' \in SUBSET (SUBSET Messages)
  OBVIOUS
<1>4. TypeOK'
  BY <1>1, <1>2, <1>3 DEF IInv, TypeOK
<1>5. NeverLeftDeaf' /\ TokenIsStream'
  BY DEF NeverLeftDeaf, TokenIsStream
<1> QED BY <1>4, <1>5 DEF IInv

LEMMA FaultCounts == ASSUME TypeOK, Fault PROVE faults' \in 0..MaxFaults
BY Sizes DEF TypeOK, Fault

LEMMA InitEstablishes == Init => IInv
<1> SUFFICES ASSUME Init PROVE IInv
  OBVIOUS
<1>1. checking \in BOOLEAN /\ wasShort \in BOOLEAN /\ cooled \in BOOLEAN
  BY DEF Init
<1>2. held \in SUBSET Messages /\ written \in SUBSET Messages
      /\ prepared \in SUBSET (SUBSET Messages)
  BY DEF Init
<1>3. TypeOK
  BY <1>1, <1>2, Sizes DEF Init, TypeOK, Phases, NoOthers
<1> QED BY <1>3 DEF Init, IInv, NeverLeftDeaf, TokenIsStream

-----------------------------------------------------------------------------
(* Steps that leave the streams alone and take away no timer.              *)

LEMMA QuietKeeps ==
    ASSUME IInv, TypeOK', UNCHANGED <<stream, others, token>>,
           phase' = "up" => phase = "up",
           watchTimers' >= watchTimers, resyncTimers' >= resyncTimers
    PROVE  IInv'
<1>1. NeverLeftDeaf'
  BY DEF IInv, TypeOK, NeverLeftDeaf, Deaf
<1>2. TokenIsStream'
  BY DEF IInv, TokenIsStream
<1> QED BY <1>1, <1>2 DEF IInv

LEMMA StartupKeeps ==
    ASSUME IInv, Startup
    PROVE  IInv'
<1>1. CASE Start
  BY <1>1, NoProcessKeeps DEF Start, Phases, IInv, TypeOK
<1>2. CASE LoadReads
  <2>1. Newest \in SUBSET Messages
    BY NewestIsMessages DEF IInv
  <2>2. TypeOK'
    BY <1>2, <2>1 DEF LoadReads, roomVars, streamVars, checkVars, IInv, TypeOK, Phases
  <2> QED BY <1>2, <2>2, QuietKeeps DEF LoadReads, streamVars, IInv, TypeOK
<1>3. CASE LoadFails
  BY <1>3, NoProcessKeeps, FaultCounts DEF LoadFails, Phases, IInv
<1>4. CASE LoadEnds
  <2>1. token \in {NoToken} \cup Messages /\ resyncTimers \in Nat
    BY DEF IInv, TypeOK
  <2>2. /\ stream' \in Positions \cup {Closed}
        /\ others' \in [Positions -> Nat]
        /\ resyncTimers' \in Nat
        /\ faults' \in 0..MaxFaults
        /\ stream' # Closed \/ resyncTimers' > 0
    BY <1>4, <2>1, WatchTypes DEF LoadEnds, IInv
  <2>3. held' \in SUBSET Messages /\ prepared' \in SUBSET (SUBSET Messages)
    BY <1>4 DEF LoadEnds, IInv, TypeOK
  <2>4. TypeOK'
    BY <1>4, <2>2, <2>3 DEF LoadEnds, checkVars, IInv, TypeOK, Phases
  <2>5. NeverLeftDeaf'
    BY <2>2 DEF NeverLeftDeaf, Deaf
  <2>6. TokenIsStream'
    BY <1>4, <2>1, OpenedIsPosition
       DEF LoadEnds, Watch, WatchOpens, WatchThrows, IInv, TokenIsStream
  <2> QED BY <2>4, <2>5, <2>6 DEF IInv
<1> QED BY <1>1, <1>2, <1>3, <1>4 DEF Startup

LEMMA MessagesKeep ==
    ASSUME IInv, StoreElsewhere \/ StoreOwn \/ \E i \in Messages : AddLocal(i)
    PROVE  IInv'
<1> USE Sizes
<1>1. CASE StoreElsewhere
  <2>1. TypeOK'
    BY <1>1 DEF StoreElsewhere, processVars, roomVars, resyncVars, streamVars, checkVars,
                IInv, TypeOK
  <2> QED BY <1>1, <2>1, QuietKeeps
          DEF StoreElsewhere, processVars, resyncVars, streamVars, IInv, TypeOK
<1>2. CASE StoreOwn
  <2>1. rows' \in 0..MaxRows /\ written' \in SUBSET Messages
    BY <1>2 DEF StoreOwn, IInv, TypeOK, Messages
  <2>2. TypeOK'
    BY <1>2, <2>1 DEF StoreOwn, resyncVars, streamVars, checkVars, IInv, TypeOK
  <2> QED BY <1>2, <2>2, QuietKeeps DEF StoreOwn, resyncVars, streamVars, IInv, TypeOK
<1>3. ASSUME NEW i \in Messages, AddLocal(i) PROVE IInv'
  <2>1. TypeOK'
    BY <1>3 DEF AddLocal, resyncVars, streamVars, checkVars, IInv, TypeOK
  <2> QED BY <1>3, <2>1, QuietKeeps DEF AddLocal, resyncVars, streamVars, IInv, TypeOK
<1> QED BY <1>1, <1>2, <1>3

-----------------------------------------------------------------------------
(* The change streams.                                                     *)

\* A stream that moves stays open, and another one besides this.stream leaves
\* nothing to be said about the token.
LEMMA OtherMovesTypes ==
    ASSUME TypeOK, NEW p \in Positions, NEW q \in Positions, OtherMoves(p, q)
    PROVE  others' \in [Positions -> Nat] /\ others' # NoOthers
<1>1. others[p] \in Nat /\ others[p] > 0 /\ others[q] \in Nat
  BY DEF OtherMoves, TypeOK
<1>2. others' \in [Positions -> Nat] /\ others'[q] > 0
  BY <1>1 DEF OtherMoves, TypeOK
<1> QED BY <1>2 DEF NoOthers

LEMMA NewsKeeps ==
    ASSUME IInv, News
    PROVE  IInv'
<1> USE Sizes
<1>1. CASE StreamBegins
  <2>1. rows \in Positions /\ Opening \in Positions
    BY DEF IInv, TypeOK, Positions
  <2>2. CASE stream = Opening /\ stream' = rows /\ UNCHANGED others
    <3>1. TypeOK'
      BY <1>1, <2>1, <2>2
         DEF StreamBegins, roomVars, resyncVars, checkVars, IInv, TypeOK
    <3>2. NeverLeftDeaf'
      BY <2>1, <2>2, PositionIsOpen DEF NeverLeftDeaf, Deaf
    <3>3. TokenIsStream'
      BY <1>1, <2>2 DEF StreamBegins, IInv, TypeOK, TokenIsStream, Opening, Closed,
                        Messages, NoToken
    <3> QED BY <3>1, <3>2, <3>3 DEF IInv
  <2>3. CASE OtherMoves(Opening, rows)
    <3>1. others' \in [Positions -> Nat] /\ others' # NoOthers
      BY <2>1, <2>3, OtherMovesTypes DEF IInv
    <3>2. TypeOK'
      BY <1>1, <2>3, <3>1
         DEF StreamBegins, OtherMoves, roomVars, resyncVars, checkVars, IInv, TypeOK
    <3> QED BY <3>1, <3>2 DEF IInv, NeverLeftDeaf, Deaf, TokenIsStream
  <2> QED BY <1>1, <2>2, <2>3 DEF StreamBegins
<1>2. ASSUME NEW i \in Messages, StreamDelivers(i) PROVE IInv'
  <2>1. i \in Positions /\ i - 1 \in Positions
    BY DEF Positions, Messages
  <2>2. held' \in SUBSET Messages
    BY <1>2 DEF StreamDelivers, IInv, TypeOK
  <2>3. CASE stream = i - 1 /\ stream' = i /\ UNCHANGED others
    <3>1. TypeOK'
      BY <1>2, <2>1, <2>2, <2>3 DEF StreamDelivers, resyncVars, checkVars, IInv, TypeOK
    <3>2. NeverLeftDeaf'
      BY <2>1, <2>3, PositionIsOpen DEF NeverLeftDeaf, Deaf
    <3>3. TokenIsStream'
      BY <1>2, <2>3 DEF StreamDelivers, TokenIsStream
    <3> QED BY <3>1, <3>2, <3>3 DEF IInv
  <2>4. CASE OtherMoves(i - 1, i)
    <3>1. others' \in [Positions -> Nat] /\ others' # NoOthers
      BY <2>1, <2>4, OtherMovesTypes DEF IInv
    <3>2. TypeOK'
      BY <1>2, <2>2, <2>4, <3>1
         DEF StreamDelivers, OtherMoves, resyncVars, checkVars, IInv, TypeOK
    <3> QED BY <3>1, <3>2 DEF IInv, NeverLeftDeaf, Deaf, TokenIsStream
  <2> QED BY <1>2, <2>3, <2>4 DEF StreamDelivers
<1> QED BY <1>1, <1>2, MessagesKeep DEF News

\* Once a stream has been closed a timer runs, whichever the handler chose.
LEMMA ReopenTypes ==
    ASSUME TypeOK, Reopen
    PROVE  watchTimers' \in Nat /\ resyncTimers' \in Nat
           /\ (watchTimers' > 0 \/ resyncTimers' > 0)
BY DEF TypeOK, Reopen

LEMMA BreaksKeep ==
    ASSUME IInv, Breaks
    PROVE  IInv'
<1> USE Sizes, FaultCounts
<1>1. CASE StreamFails
  <2>1. TypeOK'
    BY <1>1, ReopenTypes DEF StreamFails, roomVars, checkVars, IInv, TypeOK
  <2> QED BY <1>1, <2>1, ReopenTypes DEF StreamFails, IInv, NeverLeftDeaf, TokenIsStream
<1>2. ASSUME NEW p \in Positions, OtherFails(p) PROVE IInv'
  <2>1. others' \in [Positions -> Nat]
    BY <1>2 DEF OtherFails, IInv, TypeOK
  <2>2. TypeOK'
    BY <1>2, <2>1, ReopenTypes DEF OtherFails, roomVars, checkVars, IInv, TypeOK
  <2> QED BY <1>2, <2>2, ReopenTypes DEF OtherFails, IInv, NeverLeftDeaf, TokenIsStream
<1>3. ASSUME NEW p \in Positions, HandlerThrows(p) PROVE IInv'
  BY <1>3, NoProcessKeeps DEF HandlerThrows, Phases, IInv
<1> QED BY <1>1, <1>2, <1>3 DEF Breaks

\* watch() at the token, and resync() without one.
LEMMA WatchKeeps ==
    ASSUME IInv, NEW timers \in Nat, Watch(token', timers), TypeOK',
           token' \in {token, NoToken}
    PROVE  IInv'
<1>1. token \in {NoToken} \cup Messages /\ token' \in {NoToken} \cup Messages
  BY DEF IInv, TypeOK
<1>2. NeverLeftDeaf'
  BY <1>1, WatchTypes DEF IInv, NeverLeftDeaf, Deaf
<1>3. TokenIsStream'
  BY <1>1, OpenedIsPosition DEF Watch, WatchOpens, WatchThrows, IInv, TokenIsStream
<1> QED BY <1>2, <1>3 DEF IInv

LEMMA TimersKeep ==
    ASSUME IInv, Timers
    PROVE  IInv'
<1>0. /\ token \in {NoToken} \cup Messages
      /\ NoToken \in {NoToken} \cup Messages
      /\ watchTimers \in Nat /\ resyncTimers \in Nat /\ reading \in Nat
  BY DEF IInv, TypeOK
<1>1. CASE WatchTimer
  <2>1. TypeOK'
    BY <1>0, <1>1, WatchTypes DEF WatchTimer, roomVars, checkVars, IInv, TypeOK
  <2> QED BY <1>0, <1>1, <2>1, WatchKeeps DEF WatchTimer
<1>2. CASE ResyncTimer
  <2>1. resyncTimers - 1 \in Nat
    BY <1>0, <1>2 DEF ResyncTimer
  <2>2. TypeOK'
    BY <1>0, <1>2, <2>1, WatchTypes
       DEF ResyncTimer, Resync, roomVars, checkVars, IInv, TypeOK
  <2> QED BY <1>2, <2>1, <2>2, WatchKeeps DEF ResyncTimer, Resync
<1> QED BY <1>1, <1>2 DEF Timers

-----------------------------------------------------------------------------
(* The resync and the reconciler.                                          *)

LEMMA ResyncKeeps ==
    ASSUME IInv, ResyncGoesOn
    PROVE  IInv'
<1> USE Sizes, FaultCounts
<1>1. CASE ResyncReads
  <2>1. Missing \in SUBSET Messages
    BY NewestIsMessages DEF Missing, IInv
  <2>2. TypeOK'
    BY <1>1, <2>1 DEF ResyncReads, roomVars, streamVars, checkVars, IInv, TypeOK
  <2> QED BY <1>1, <2>2, QuietKeeps DEF ResyncReads, streamVars, IInv, TypeOK
<1>2. CASE ResyncFails
  <2>1. TypeOK'
    BY <1>2 DEF ResyncFails, roomVars, streamVars, checkVars, IInv, TypeOK
  <2> QED BY <1>2, <2>1, QuietKeeps DEF ResyncFails, streamVars, IInv, TypeOK
<1>3. ASSUME NEW p \in prepared, ResyncPushes(p) PROVE IInv'
  <2>1. Slice(p) \subseteq p /\ p \in SUBSET Messages
    BY DEF Slice, IInv, TypeOK
  <2>2. held' \in SUBSET Messages /\ prepared' \in SUBSET (SUBSET Messages)
    BY <1>3, <2>1 DEF ResyncPushes, Pushed, IInv, TypeOK
  <2>3. TypeOK'
    BY <1>3, <2>2 DEF ResyncPushes, streamVars, checkVars, IInv, TypeOK
  <2> QED BY <1>3, <2>3, QuietKeeps DEF ResyncPushes, streamVars, IInv, TypeOK
<1> QED BY <1>1, <1>2, <1>3 DEF ResyncGoesOn

LEMMA ShortIsBoolean == Short \in BOOLEAN
BY DEF Short

LEMMA ReconcilerKeeps ==
    ASSUME IInv, Check \/ CoolDown
    PROVE  IInv'
<1> USE Sizes, FaultCounts
<1>1. CASE CheckCounts
  <2>1. TypeOK'
    BY <1>1 DEF CheckCounts, roomVars, resyncVars, streamVars, IInv, TypeOK
  <2> QED BY <1>1, <2>1, QuietKeeps DEF CheckCounts, resyncVars, streamVars, IInv, TypeOK
<1>2. CASE CheckFails
  <2>1. checking' \in BOOLEAN
    BY <1>2 DEF CheckFails, CheckEnds
  <2>2. TypeOK'
    BY <1>2, <2>1 DEF CheckFails, CheckEnds, roomVars, streamVars, IInv, TypeOK
  <2> QED BY <1>2, <2>2, QuietKeeps DEF CheckFails, CheckEnds, streamVars, IInv, TypeOK
<1>3. CASE CheckResyncs
  <2>1. resyncTimers \in Nat /\ reading \in Nat /\ NoToken \in {NoToken} \cup Messages
    BY DEF IInv, TypeOK
  <2>2. wasShort' \in BOOLEAN /\ cooled' \in BOOLEAN /\ checking' \in BOOLEAN
    BY <1>3 DEF CheckResyncs, CheckEnds
  <2>3. TypeOK'
    BY <1>3, <2>1, <2>2, WatchTypes
       DEF CheckResyncs, CheckEnds, Resync, roomVars, IInv, TypeOK
  <2> QED BY <1>3, <2>1, <2>3, WatchKeeps DEF CheckResyncs, CheckEnds, Resync
<1>4. CASE CheckWaits
  <2>1. wasShort' \in BOOLEAN /\ checking' \in BOOLEAN
    BY <1>4, ShortIsBoolean DEF CheckWaits, CheckEnds, ShortRemembered
  <2>2. TypeOK'
    BY <1>4, <2>1 DEF CheckWaits, CheckEnds, roomVars, streamVars, IInv, TypeOK
  <2> QED BY <1>4, <2>2, QuietKeeps DEF CheckWaits, CheckEnds, streamVars, IInv, TypeOK
<1>5. CASE CoolDown
  <2>1. cooled' \in BOOLEAN
    BY <1>5 DEF CoolDown
  <2>2. TypeOK'
    BY <1>5, <2>1 DEF CoolDown, roomVars, resyncVars, streamVars, IInv, TypeOK
  <2> QED BY <1>5, <2>2, QuietKeeps DEF CoolDown, resyncVars, streamVars, IInv, TypeOK
<1> QED BY <1>1, <1>2, <1>3, <1>4, <1>5 DEF Check

LEMMA StepKeeps == IInv /\ [Next]_vars => IInv'
<1> SUFFICES ASSUME IInv, [Next]_vars PROVE IInv'
  OBVIOUS
<1>1. CASE Die
  BY <1>1, NoProcessKeeps, FaultCounts DEF Die, Phases, IInv
<1>2. CASE UNCHANGED vars
  <2>1. TypeOK'
    BY <1>2 DEF vars, processVars, roomVars, resyncVars, streamVars, checkVars, IInv, TypeOK
  <2> QED BY <1>2, <2>1, QuietKeeps
          DEF vars, processVars, resyncVars, streamVars, IInv, TypeOK
<1> QED BY <1>1, <1>2, StartupKeeps, MessagesKeep, NewsKeeps, BreaksKeep, TimersKeep,
           ResyncKeeps, ReconcilerKeeps DEF Next

THEOREM SyncInvariance == Spec => []IInv
BY InitEstablishes, StepKeeps, PTL DEF Spec

\* The backend keeps its type.
THEOREM SyncType == Spec => []TypeOK
BY SyncInvariance, PTL DEF IInv

\* A backend that is up and hears nothing has a timer that will open a stream,
\* for any number of faults.
THEOREM SyncNeverDeaf == Spec => []NeverLeftDeaf
BY SyncInvariance, PTL DEF IInv

-----------------------------------------------------------------------------
(* What a break does not lose.                                             *)

\* Message i is in the room or will be.
Safe(i) == i \in held \/ OnItsWay(i)

\* A stream short of i, or at worst a timer, is on the way to i wherever
\* watch() was called from.
LEMMA WatchLosesNothing ==
    ASSUME TypeOK, TokenIsStream, NEW i \in Messages, others = NoOthers, token # NoToken,
           Safe(i), NEW timers \in Nat, Watch(token, timers),
           timers >= resyncTimers,
           UNCHANGED <<held, written, prepared, reading>>
    PROVE  Safe(i)'
<1> USE Sizes
<1>1. token \in Messages /\ token \in Positions /\ stream \in Positions \cup {Closed}
      /\ others \in [Positions -> Nat] /\ resyncTimers \in Nat /\ reading \in Nat
  BY DEF TypeOK, Positions, Messages
<1>2. CASE WatchThrows(timers)
  BY <1>1, <1>2 DEF WatchThrows, Safe, OnItsWay
<1>3. CASE WatchOpens(token, timers)
  <2>1. stream' = token /\ resyncTimers' = timers
    BY <1>1, <1>3, OpenedIsPosition DEF WatchOpens
  <2>2. CASE stream \in 0..i - 1
    <3>1. stream # Closed
      BY <2>2 DEF Closed
    <3>2. stream \in Positions
      BY <1>1, <3>1
    <3>3. others'[stream] = others[stream] + 1 /\ others[stream] \in Nat
      BY <1>1, <1>3, <3>1, <3>2 DEF WatchOpens
    <3> QED BY <2>2, <3>3 DEF Safe, OnItsWay
  <2>3. CASE token \in 1..i - 1
    BY <2>1, <2>3 DEF Safe, OnItsWay
  <2>4. ASSUME NEW p \in 0..i - 1 PROVE ~(others[p] > 0)
    BY DEF NoOthers, Positions, Messages
  <2> QED BY <1>1, <2>1, <2>2, <2>3, <2>4 DEF Safe, OnItsWay
<1> QED BY <1>2, <1>3 DEF Watch

LEMMA StepLosesNothing ==
    ASSUME TypeOK, TokenIsStream, [Next]_vars, phase = "up", phase' = "up",
           token # NoToken, others = NoOthers,
           NEW i \in Newest, Safe(i)
    PROVE  Safe(i)'
<1> USE Sizes
<1>1. i \in Messages
  BY NewestIsMessages
<1>2. /\ reading \in Nat /\ watchTimers \in Nat /\ resyncTimers \in Nat
      /\ token \in Messages /\ stream \in Positions \cup {Closed}
  BY DEF TypeOK
<1>3. \A p \in Positions : ~(others[p] > 0)
  BY DEF NoOthers
<1>4. ASSUME UNCHANGED <<stream, others, token>>,
             watchTimers > 0 => watchTimers' > 0,
             resyncTimers > 0 => resyncTimers' > 0, reading > 0 => reading' > 0,
             held \subseteq held', written \subseteq written' \cup held',
             \A p \in prepared : i \in p => i \in held' \/ \E q \in prepared' : i \in q
      PROVE  Safe(i)'
  <2>1. CASE i \in held \/ i \in written
    BY <1>4, <2>1 DEF Safe, OnItsWay
  <2>2. CASE \/ stream \in 0..i - 1
             \/ \E p \in 0..i - 1 : others[p] > 0
             \/ watchTimers > 0 /\ token \in 1..i - 1
             \/ reading > 0 \/ resyncTimers > 0
    BY <1>4, <2>2 DEF OnItsWay, Safe
  <2>3. CASE \E p \in prepared : i \in p
    BY <1>4, <2>3 DEF Safe, OnItsWay
  <2> QED BY <2>1, <2>2, <2>3 DEF Safe, OnItsWay
<1>5. CASE Startup
  BY <1>5 DEF Startup, Start, LoadReads, LoadFails, LoadEnds, NoProcess
<1>6. CASE Die
  BY <1>6 DEF Die, NoProcess
<1>7. CASE StoreElsewhere \/ StoreOwn \/ UNCHANGED vars
  <2>1. UNCHANGED <<held, resyncVars, watchTimers, streamVars>> /\ written \subseteq written'
    BY <1>7 DEF StoreElsewhere, StoreOwn, vars, processVars, roomVars
  <2> QED BY <1>2, <1>4, <2>1 DEF resyncVars, streamVars
<1>8. ASSUME NEW j \in Messages, AddLocal(j) PROVE Safe(i)'
  BY <1>2, <1>4, <1>8 DEF AddLocal, resyncVars, streamVars
<1>9. ASSUME NEW j \in Messages, StreamDelivers(j) PROVE Safe(i)'
  <2>1. j - 1 \in Positions
    BY DEF Positions, Messages
  <2>2. stream = j - 1 /\ stream' = j /\ UNCHANGED others
    BY <1>3, <1>9, <2>1 DEF StreamDelivers, OtherMoves
  <2>3. token = stream
    BY <2>2 DEF TokenIsStream, Closed, Messages
  <2>4. CASE i = j
    BY <1>9, <2>4 DEF StreamDelivers, Safe
  <2>5. CASE i > j
    BY <1>1, <2>2, <2>5 DEF Safe, OnItsWay, Messages
  <2>6. CASE i < j
    <3>1. /\ ~(stream \in 0..i - 1)
          /\ ~(token \in 1..i - 1)
      BY <1>1, <2>2, <2>3, <2>6 DEF Messages
    <3>2. ASSUME NEW p \in 0..i - 1 PROVE ~(others[p] > 0)
      BY <1>1, <1>3 DEF Positions, Messages
    <3>3. UNCHANGED <<written, prepared, reading, resyncTimers>> /\ held \subseteq held'
      BY <1>9 DEF StreamDelivers, resyncVars
    <3> QED BY <3>1, <3>2, <3>3 DEF Safe, OnItsWay
  <2> QED BY <1>1, <2>4, <2>5, <2>6 DEF Messages
<1>10. CASE StreamBegins
  <2>1. Opening \in Positions
    BY DEF Positions
  <2>2. stream = Opening
    BY <1>3, <1>10, <2>1 DEF StreamBegins, OtherMoves
  <2> QED BY <1>2, <2>2 DEF TokenIsStream, Opening, Closed, Messages
<1>11. CASE StreamFails
  <2>1. UNCHANGED <<held, written, prepared, reading, others, token>> /\ Reopen
        /\ stream # Closed
    BY <1>11 DEF StreamFails, roomVars
  <2>2. token = stream
    BY <2>1 DEF TokenIsStream
  <2>3. CASE resyncTimers' = resyncTimers + 1
    BY <1>2, <2>3 DEF Safe, OnItsWay
  <2>4. CASE watchTimers' = watchTimers + 1 /\ UNCHANGED resyncTimers
    BY <1>1, <1>2, <2>1, <2>2, <2>4 DEF Safe, OnItsWay, Messages
  <2> QED BY <2>1, <2>3, <2>4 DEF Reopen
<1>12. ASSUME NEW p \in Positions, OtherFails(p) \/ HandlerThrows(p) PROVE Safe(i)'
  BY <1>3, <1>12 DEF OtherFails, HandlerThrows
<1>13. CASE WatchTimer
  <2>1. UNCHANGED <<held, written, prepared, reading>> /\ Watch(token, resyncTimers)
    BY <1>13 DEF WatchTimer, roomVars
  <2> QED BY <1>1, <1>2, <2>1, WatchLosesNothing
<1>14. CASE ResyncTimer \/ CheckResyncs
  <2>1. reading' = reading + 1
    BY <1>14 DEF ResyncTimer, CheckResyncs, Resync
  <2> QED BY <1>2, <2>1 DEF Safe, OnItsWay
<1>15. CASE ResyncReads
  <2>1. i \in held \/ i \in Missing
    BY DEF Missing
  <2>2. held' = held /\ prepared' = prepared \cup ({Missing} \ {{}})
    BY <1>15 DEF ResyncReads, roomVars
  <2> QED BY <2>1, <2>2 DEF Safe, OnItsWay
<1>16. CASE ResyncFails
  BY <1>2, <1>16 DEF ResyncFails, Safe, OnItsWay
<1>17. ASSUME NEW p \in prepared, ResyncPushes(p) PROVE Safe(i)'
  <2>1. /\ UNCHANGED <<written, reading, resyncTimers, watchTimers, stream, others, token>>
        /\ held' = held \cup Slice(p)
        /\ prepared' = (prepared \ {p}) \cup ({p \ Slice(p)} \ {{}})
    BY <1>17 DEF ResyncPushes, Pushed, streamVars
  <2>2. \A q \in prepared : i \in q => i \in held' \/ \E r \in prepared' : i \in r
    BY <2>1
  <2> QED BY <1>2, <1>4, <2>1, <2>2
<1>18. CASE CheckCounts \/ CheckFails \/ CheckWaits \/ CoolDown
  <2>1. UNCHANGED <<held, written, prepared, reading, resyncTimers, watchTimers, stream,
                    others, token>>
    BY <1>18 DEF CheckCounts, CheckFails, CheckWaits, CheckEnds, CoolDown, roomVars,
                 resyncVars, streamVars
  <2> QED BY <1>2, <1>4, <2>1
<1> QED BY <1>5, <1>6, <1>7, <1>8, <1>9, <1>10, <1>11, <1>12, <1>13, <1>14, <1>15, <1>16,
           <1>17, <1>18 DEF Next, News, Breaks, Timers, ResyncGoesOn, Check

\* A break of the only stream loses nothing of what is held or on its way, for
\* any number of breaks and faults.
THEOREM SyncLosesNothing == Spec => BreaksLoseNothing
<1>1. IInv /\ [Next]_vars =>
        [ phase = "up" /\ phase' = "up" /\ token # NoToken /\ others = NoOthers
             => \A i \in Newest \cap Newest' :
                   i \in held \/ OnItsWay(i) => i \in held' \/ OnItsWay(i)' ]_vars
  BY StepLosesNothing DEF IInv, Safe
<1> QED BY <1>1, SyncInvariance, PTL DEF Spec, BreaksLoseNothing

-----------------------------------------------------------------------------
(* FeedSync implements Room.                                               *)

\* What a process that is not up can have: no messages, no reads, no timers, no
\* streams; a process that is starting has read nothing either.
IdleUnlessUp ==
    /\ phase # "up" =>
          /\ held = {} /\ written = {} /\ reading = 0
          /\ watchTimers = 0 /\ resyncTimers = 0
          /\ stream = Closed /\ others = NoOthers
          /\ ~checking
    /\ phase \notin {"loaded", "up"} => prepared = {}

\* Whatever the room holds, or is about to be given, is in the database.
OnlyStored ==
    /\ held \subseteq 1..rows
    /\ written \subseteq 1..rows
    /\ \A p \in prepared : p \subseteq 1..rows

RInv == IInv /\ IdleUnlessUp /\ OnlyStored

\* What the promise sees of the backend.
View == IF phase = "loaded" THEN UNION prepared ELSE held

LEMMA MoreStored ==
    ASSUME TypeOK, NEW n \in {rows, rows + 1}
    PROVE  1..rows \subseteq 1..n
BY Sizes DEF TypeOK

LEMMA NewestIsStored ==
    ASSUME TypeOK
    PROVE  /\ Newest \subseteq 1..rows
           /\ MaxRows <= MaxEntries => Newest = 1..rows
BY Sizes, FeedSyncAssumption DEF Newest, TypeOK

\* A process that is not there keeps both.
LEMMA NothingKept ==
    ASSUME NEW p \in Phases \ {"loaded", "up"}, NoProcess(p)
    PROVE  IdleUnlessUp' /\ OnlyStored'
BY DEF NoProcess, IdleUnlessUp, OnlyStored

\* So does a step of a process that is up, if what it adds to the room, or reads
\* for it, is stored.
LEMMA UpKeepsRoom ==
    ASSUME phase' = "up", held' \subseteq 1..rows', written' \subseteq 1..rows',
           \A p \in prepared' : p \subseteq 1..rows'
    PROVE  IdleUnlessUp' /\ OnlyStored'
BY DEF IdleUnlessUp, OnlyStored

LEMMA InitFillsNothing == Init => RInv
<1> SUFFICES ASSUME Init PROVE RInv
  OBVIOUS
<1>1. IInv
  BY InitEstablishes
<1>2. IdleUnlessUp /\ OnlyStored
  BY DEF Init, IdleUnlessUp, OnlyStored
<1> QED BY <1>1, <1>2 DEF RInv

\* What a stream, a timer, a read or a check can only do when the process is up.
LEMMA OnlyWhenUp ==
    ASSUME RInv, News \/ Breaks \/ Timers \/ ResyncGoesOn \/ Check
    PROVE  phase = "up"
<1> SUFFICES ASSUME phase # "up" PROVE FALSE
  OBVIOUS
<1>1. /\ written = {} /\ reading = 0 /\ watchTimers = 0 /\ resyncTimers = 0
      /\ stream = Closed /\ ~checking
  BY DEF RInv, IdleUnlessUp
<1>2. \A p \in Positions : ~(others[p] > 0)
  BY DEF RInv, IdleUnlessUp, NoOthers
<1>3. rows \in Positions /\ Opening \in Positions
  BY DEF RInv, IInv, TypeOK, Positions
<1>4. \A i \in Messages : i \in Positions /\ i - 1 \in Positions /\ i - 1 # Closed
  BY Sizes DEF Messages, Positions, Closed
<1>5. ~News
  <2>1. \A i \in Messages : ~AddLocal(i)
    BY <1>1 DEF AddLocal
  <2>2. ASSUME NEW i \in Messages PROVE ~StreamDelivers(i)
    BY <1>1, <1>2, <1>4 DEF StreamDelivers, OtherMoves
  <2>3. ~StreamBegins
    BY <1>1, <1>2, <1>3 DEF StreamBegins, OtherMoves, Opening, Closed
  <2> QED BY <2>1, <2>2, <2>3 DEF News
<1>6. ~Breaks
  BY <1>1, <1>2 DEF Breaks, StreamFails, OtherFails, HandlerThrows
<1>7. ~Timers /\ ~ResyncGoesOn /\ ~Check
  BY <1>1 DEF Timers, WatchTimer, ResyncTimer, ResyncGoesOn, ResyncReads, ResyncFails,
              ResyncPushes, Check, CheckCounts, CheckFails, CheckResyncs, CheckWaits,
              CheckEnds
<1> QED BY <1>5, <1>6, <1>7

\* The room after a step that is neither its process's beginning nor its end:
\* the stored messages it had, and perhaps more that are stored.
LEMMA StepLearns ==
    ASSUME RInv, News \/ Breaks \/ Timers \/ ResyncGoesOn \/ Check, phase' = "up"
    PROVE  /\ rows' = rows /\ phase = "up"
           /\ held \subseteq held'
           /\ held' \subseteq 1..rows' /\ written' \subseteq 1..rows'
           /\ \A p \in prepared' : p \subseteq 1..rows'
<1> USE DEF roomVars, resyncVars, checkVars
<1>0. phase = "up" /\ OnlyStored /\ TypeOK
  BY OnlyWhenUp DEF RInv, IInv
<1>1. ASSUME UNCHANGED <<rows, held, written, prepared>>
      PROVE  /\ rows' = rows
             /\ held \subseteq held'
             /\ held' \subseteq 1..rows' /\ written' \subseteq 1..rows'
             /\ \A p \in prepared' : p \subseteq 1..rows'
  BY <1>0, <1>1 DEF OnlyStored
<1>2. CASE News
  <2>1. ASSUME NEW i \in Messages, AddLocal(i)
        PROVE  /\ rows' = rows
               /\ held \subseteq held'
               /\ held' \subseteq 1..rows' /\ written' \subseteq 1..rows'
               /\ \A p \in prepared' : p \subseteq 1..rows'
    BY <1>0, <2>1 DEF AddLocal, OnlyStored
  <2>2. ASSUME NEW i \in Messages, StreamDelivers(i)
        PROVE  /\ rows' = rows
               /\ held \subseteq held'
               /\ held' \subseteq 1..rows' /\ written' \subseteq 1..rows'
               /\ \A p \in prepared' : p \subseteq 1..rows'
    <3>1. i \in 1..rows
      BY <1>0, <2>2 DEF StreamDelivers, Messages, TypeOK
    <3> QED BY <1>0, <2>2, <3>1 DEF StreamDelivers, OnlyStored
  <2>3. CASE StreamBegins
    BY <1>1, <2>3 DEF StreamBegins
  <2> QED BY <1>0, <1>2, <2>1, <2>2, <1>1, <2>3 DEF News
<1>3. CASE Breaks
  BY <1>0, <1>1, <1>3 DEF Breaks, StreamFails, OtherFails, HandlerThrows, NoProcess
<1>4. CASE Timers
  BY <1>0, <1>1, <1>4 DEF Timers, WatchTimer, ResyncTimer
<1>5. CASE ResyncGoesOn
  <2>1. CASE ResyncReads
    BY <1>0, <2>1, NewestIsStored DEF ResyncReads, Missing, OnlyStored
  <2>2. CASE ResyncFails
    BY <1>0, <1>1, <2>2 DEF ResyncFails
  <2>3. ASSUME NEW p \in prepared, ResyncPushes(p)
        PROVE  /\ rows' = rows
               /\ held \subseteq held'
               /\ held' \subseteq 1..rows' /\ written' \subseteq 1..rows'
               /\ \A q \in prepared' : q \subseteq 1..rows'
    <3>1. Slice(p) \subseteq 1..rows /\ p \subseteq 1..rows
      BY <1>0 DEF Slice, OnlyStored
    <3> QED BY <1>0, <2>3, <3>1 DEF ResyncPushes, Pushed, OnlyStored
  <2> QED BY <1>0, <1>5, <2>1, <2>2, <2>3 DEF ResyncGoesOn
<1>6. CASE Check
  BY <1>0, <1>1, <1>6 DEF Check, CheckCounts, CheckFails, CheckResyncs, CheckWaits, CheckEnds
<1> QED BY <1>2, <1>3, <1>4, <1>5, <1>6

LEMMA StepKeepsStored == RInv /\ [Next]_vars => IdleUnlessUp' /\ OnlyStored'
<1> SUFFICES ASSUME RInv, [Next]_vars PROVE IdleUnlessUp' /\ OnlyStored'
  OBVIOUS
<1>0. TypeOK /\ IdleUnlessUp /\ OnlyStored
  BY DEF RInv, IInv
<1>1. CASE Start \/ LoadFails \/ Die
  BY <1>1, NothingKept DEF Start, LoadFails, Die, Phases
<1>2. CASE LoadReads
  <2>1. /\ phase' = "loaded" /\ prepared' = {Newest}
        /\ UNCHANGED <<rows, held, written, reading, watchTimers, resyncTimers, stream,
                       others, checking>>
        /\ phase = "starting"
    BY <1>2 DEF LoadReads, roomVars, streamVars, checkVars
  <2>2. OnlyStored'
    BY <1>0, <2>1, NewestIsStored DEF OnlyStored
  <2>3. IdleUnlessUp'
    BY <1>0, <2>1 DEF IdleUnlessUp
  <2> QED BY <2>2, <2>3
<1>3. CASE LoadEnds
  <2>1. /\ phase' = "up" /\ held' = UNION prepared /\ prepared' = {}
        /\ UNCHANGED <<rows, written>>
    BY <1>3 DEF LoadEnds
  <2>2. UNION prepared \subseteq 1..rows
    BY <1>0 DEF OnlyStored
  <2>3. written' \subseteq 1..rows'
    BY <1>0, <2>1 DEF OnlyStored
  <2> QED BY <2>1, <2>2, <2>3, UpKeepsRoom
<1>4. CASE StoreElsewhere \/ StoreOwn
  <2>1. rows + 1 \in 1..rows + 1 /\ 1..rows \subseteq 1..rows + 1 /\ rows' = rows + 1
    BY <1>0, <1>4, MoreStored DEF TypeOK, StoreElsewhere, StoreOwn
  <2>2. OnlyStored'
    BY <1>0, <1>4, <2>1
       DEF StoreElsewhere, StoreOwn, OnlyStored, processVars, roomVars, resyncVars
  <2>3. IdleUnlessUp'
    <3>1. CASE StoreElsewhere
      BY <1>0, <3>1 DEF StoreElsewhere, processVars, roomVars, resyncVars, streamVars,
                        checkVars, IdleUnlessUp
    <3>2. CASE StoreOwn
      BY <1>0, <3>2 DEF StoreOwn, resyncVars, streamVars, checkVars, IdleUnlessUp
    <3> QED BY <1>4, <3>1, <3>2
  <2> QED BY <2>2, <2>3
<1>5. CASE UNCHANGED vars
  BY <1>0, <1>5 DEF vars, processVars, roomVars, resyncVars, streamVars, checkVars,
                    IdleUnlessUp, OnlyStored
<1>6. CASE CoolDown
  BY <1>0, <1>6 DEF CoolDown, roomVars, resyncVars, streamVars, checkVars, IdleUnlessUp,
                    OnlyStored
<1>7. CASE News \/ Breaks \/ Timers \/ ResyncGoesOn \/ Check
  <2>1. CASE phase' = "up"
    BY <1>7, <2>1, StepLearns, UpKeepsRoom
  <2>2. CASE phase' # "up"
    <3>1. phase = "up"
      BY <1>7, OnlyWhenUp
    <3>2. NoProcess("threw")
      BY <1>7, <2>2, <3>1
         DEF News, AddLocal, StreamDelivers, StreamBegins, Breaks, StreamFails, OtherFails,
             HandlerThrows, Timers, WatchTimer, ResyncTimer, ResyncGoesOn, ResyncReads,
             ResyncFails, ResyncPushes, Check, CheckCounts, CheckFails, CheckResyncs,
             CheckWaits, CheckEnds
    <3> QED BY <3>2, NothingKept DEF Phases
  <2> QED BY <2>1, <2>2
<1> QED BY <1>1, <1>2, <1>3, <1>4, <1>5, <1>6, <1>7 DEF Next, Startup

\* The promise's own view of the four ways the room changes.
LEMMA RoomEnds ==
    ASSUME RInv, phase' \notin {"loaded", "up"}, NoProcess(phase'), rows' = rows
    PROVE  [Promise!Next]_(Promise!roomVars)
<1> DEFINE up == phase \in {"loaded", "up"}
<1>1. View' = {} /\ ~up' /\ (1..rows)' = 1..rows
  BY DEF NoProcess, View
<1>2. CASE up
  <2>1. Promise!End
    BY <1>1, <1>2 DEF Promise!End, View
  <2> QED BY <2>1 DEF Promise!Next
<1>3. CASE ~up
  <2>1. View = {}
    BY <1>3 DEF View, RInv, IdleUnlessUp
  <2> QED BY <1>1, <1>3, <2>1 DEF Promise!roomVars, View
<1> QED BY <1>2, <1>3

LEMMA StepKeepsRoom == RInv /\ [Next]_vars => [Promise!Next]_(Promise!roomVars)
<1> SUFFICES ASSUME RInv, [Next]_vars PROVE [Promise!Next]_(Promise!roomVars)
  OBVIOUS
<1>0. TypeOK /\ IdleUnlessUp /\ OnlyStored
  BY DEF RInv, IInv
<1>1. CASE Start \/ LoadFails \/ Die
  <2>1. phase' \notin {"loaded", "up"} /\ NoProcess(phase') /\ rows' = rows
    BY <1>1 DEF Start, LoadFails, Die, NoProcess
  <2> QED BY <2>1, RoomEnds
<1>2. CASE LoadReads
  <2>1. phase = "starting" /\ phase' = "loaded" /\ prepared' = {Newest} /\ rows' = rows
    BY <1>2 DEF LoadReads
  <2>2. View' = Newest
    BY <2>1 DEF View
  <2>3. Promise!Load
    BY <1>0, <2>1, <2>2, NewestIsStored DEF Promise!Load, View
  <2> QED BY <2>3 DEF Promise!Next
<1>3. CASE LoadEnds
  <2>1. phase = "loaded" /\ phase' = "up" /\ held' = UNION prepared /\ rows' = rows
    BY <1>3 DEF LoadEnds
  <2> QED BY <2>1 DEF Promise!roomVars
<1>4. CASE StoreElsewhere \/ StoreOwn
  <2>1. /\ rows' = rows + 1 /\ rows + 1 \in Messages
        /\ UNCHANGED <<phase, held, prepared>>
    BY <1>0, <1>4, Sizes DEF StoreElsewhere, StoreOwn, processVars, roomVars, resyncVars,
                             TypeOK, Messages
  <2>2. (1..rows)' = 1..rows \cup {rows + 1}
    BY <1>0, <2>1 DEF TypeOK
  <2>3. Promise!Store(rows + 1)
    BY <2>1, <2>2 DEF Promise!Store
  <2> QED BY <2>1, <2>3 DEF Promise!Next
<1>5. CASE UNCHANGED vars
  BY <1>5 DEF vars, processVars, roomVars, resyncVars, Promise!roomVars
<1>6. CASE CoolDown
  BY <1>6 DEF CoolDown, roomVars, resyncVars, Promise!roomVars
<1>7. CASE News \/ Breaks \/ Timers \/ ResyncGoesOn \/ Check
  <2>1. CASE phase' = "up"
    <3>1. /\ rows' = rows /\ phase = "up" /\ held \subseteq held' /\ held' \subseteq 1..rows
      BY <1>7, <2>1, StepLearns
    <3>2. Promise!Learn
      BY <2>1, <3>1 DEF Promise!Learn
    <3> QED BY <3>2 DEF Promise!Next
  <2>2. CASE phase' # "up"
    <3>1. phase = "up"
      BY <1>7, OnlyWhenUp
    <3>2. NoProcess("threw") /\ rows' = rows
      BY <1>7, <2>2, <3>1
         DEF News, AddLocal, StreamDelivers, StreamBegins, Breaks, StreamFails, OtherFails,
             HandlerThrows, Timers, WatchTimer, ResyncTimer, ResyncGoesOn, ResyncReads,
             ResyncFails, ResyncPushes, Check, CheckCounts, CheckFails, CheckResyncs,
             CheckWaits, CheckEnds
    <3> QED BY <3>2, RoomEnds DEF NoProcess
  <2> QED BY <2>1, <2>2
<1> QED BY <1>1, <1>2, <1>3, <1>4, <1>5, <1>6, <1>7 DEF Next, Startup

\* Through breaks, resyncs, faults and restarts the room is what Room promises:
\* filled by load(), made of stored messages only, and never smaller until the
\* process ends; when a find returns every message there can be, load() fills it
\* with all of them.
THEOREM SyncKeepsRoom == Spec => ImplementsRoom
<1>1. Init => Promise!Init
  BY Sizes DEF Init, Promise!Init
<1>2. RInv /\ [Next]_vars => RInv'
  BY StepKeeps, StepKeepsStored DEF RInv
<1>3. Spec => []RInv
  BY <1>2, InitFillsNothing, PTL DEF Spec
<1> QED BY <1>1, <1>3, StepKeepsRoom, PTL DEF Spec, ImplementsRoom, Promise!Spec

-----------------------------------------------------------------------------
(* The handler that throws.  HandlerThrows needs a stream that has         *)
(* outlived this.stream, and only watch() can leave one behind, when it is *)
(* called while a stream is open.  Two things do that: a resync that the   *)
(* reconciler asks for, and the timer that a resync sets when its read     *)
(* fails, its stream being open by then.                                   *)

\* A step in which neither happens.
OpensNoSecond == ~CheckResyncs /\ ~ResyncFails

\* A process that is up has one stream, or one timer that will open it.
OneStream ==
    /\ others = NoOthers
    /\ phase = "up" => watchTimers + resyncTimers = (IF stream = Closed THEN 1 ELSE 0)
    /\ phase # "up" => stream = Closed /\ watchTimers = 0 /\ resyncTimers = 0
    /\ BrokenStreamSurvived

LEMMA NoProcessHasNone ==
    ASSUME NEW p \in Phases \ {"up", "threw"}, NoProcess(p)
    PROVE  OneStream'
BY DEF NoProcess, OneStream, BrokenStreamSurvived

LEMMA SameOneStream ==
    ASSUME OneStream,
           UNCHANGED <<phase, stream, others, watchTimers, resyncTimers>>
    PROVE  OneStream'
BY DEF OneStream, BrokenStreamSurvived

\* watch() with no stream open and no timer left but the one it was called from.
LEMMA WatchOpensOne ==
    ASSUME TypeOK, others = NoOthers, stream = Closed, watchTimers' = 0, phase' = "up",
           NEW t \in {NoToken} \cup Messages, Watch(t, 0)
    PROVE  OneStream'
<1>1. CASE WatchOpens(t, 0)
  BY <1>1, OpenedIsPosition DEF WatchOpens, OneStream, BrokenStreamSurvived
<1>2. CASE WatchThrows(0)
  BY <1>2 DEF WatchThrows, OneStream, BrokenStreamSurvived
<1> QED BY <1>1, <1>2 DEF Watch

LEMMA TimersOpenOne ==
    ASSUME IInv, OneStream, Timers
    PROVE  OneStream'
<1>1. /\ watchTimers \in Nat /\ resyncTimers \in Nat
      /\ token \in {NoToken} \cup Messages /\ NoToken \in {NoToken} \cup Messages
  BY DEF IInv, TypeOK
<1>2. TypeOK
  BY DEF IInv
<1>3. CASE WatchTimer
  <2>1. phase = "up" /\ stream = Closed /\ watchTimers = 1 /\ resyncTimers = 0
    BY <1>1, <1>3 DEF WatchTimer, OneStream
  <2>2. others = NoOthers /\ watchTimers' = 0 /\ phase' = "up" /\ Watch(token, 0)
    BY <1>3, <2>1 DEF WatchTimer, OneStream
  <2> QED BY <1>1, <1>2, <2>1, <2>2, WatchOpensOne
<1>4. CASE ResyncTimer
  <2>1. phase = "up" /\ stream = Closed /\ watchTimers = 0 /\ resyncTimers = 1
    BY <1>1, <1>4 DEF ResyncTimer, OneStream
  <2>2. others = NoOthers /\ watchTimers' = 0 /\ phase' = "up" /\ Watch(NoToken, 0)
    BY <1>4, <2>1 DEF ResyncTimer, Resync, OneStream
  <2> QED BY <1>1, <1>2, <2>1, <2>2, WatchOpensOne
<1> QED BY <1>3, <1>4 DEF Timers

\* A stream that breaks leaves one timer, and there is no other to break.
LEMMA BreaksLeaveOne ==
    ASSUME IInv, OneStream, Breaks
    PROVE  OneStream'
<1>1. watchTimers \in Nat /\ resyncTimers \in Nat
  BY DEF IInv, TypeOK
<1>2. \A p \in Positions : ~(others[p] > 0)
  BY DEF OneStream, NoOthers
<1>3. StreamFails
  BY <1>2 DEF Breaks, OtherFails, HandlerThrows
<1>4. /\ phase = "up" /\ watchTimers = 0 /\ resyncTimers = 0
      /\ phase' = "up" /\ stream' = Closed /\ others' = NoOthers
  BY <1>1, <1>3 DEF StreamFails, roomVars, OneStream
<1>5. watchTimers' + resyncTimers' = 1
  BY <1>3, <1>4 DEF StreamFails, Reopen
<1> QED BY <1>4, <1>5 DEF OneStream, BrokenStreamSurvived

LEMMA NewsFindsOne ==
    ASSUME IInv, OneStream, News
    PROVE  OneStream'
<1>1. Opening \in Positions /\ \A i \in Messages : i - 1 \in Positions
  BY Sizes DEF Positions, Messages
<1>2. \A p \in Positions : \A q : ~OtherMoves(p, q)
  BY DEF OtherMoves, OneStream, NoOthers
<1>3. rows \in Nat
  BY Sizes DEF IInv, TypeOK
<1>4. CASE StreamBegins
  <2>1. stream = Opening /\ stream' = rows /\ UNCHANGED others
    BY <1>1, <1>2, <1>4 DEF StreamBegins
  <2>2. UNCHANGED <<phase, watchTimers, resyncTimers>>
    BY <1>4 DEF StreamBegins, resyncVars
  <2>3. stream # Closed /\ stream' # Closed
    BY <1>3, <2>1 DEF Opening, Closed
  <2> QED BY <2>1, <2>2, <2>3 DEF OneStream, BrokenStreamSurvived
<1>5. ASSUME NEW i \in Messages, StreamDelivers(i) PROVE OneStream'
  <2>1. stream = i - 1 /\ stream' = i /\ UNCHANGED others
    BY <1>1, <1>2, <1>5 DEF StreamDelivers
  <2>2. UNCHANGED <<phase, watchTimers, resyncTimers>>
    BY <1>5 DEF StreamDelivers, resyncVars
  <2>3. stream # Closed /\ stream' # Closed
    BY <2>1, Sizes DEF Messages, Closed
  <2> QED BY <2>1, <2>2, <2>3 DEF OneStream, BrokenStreamSurvived
<1>6. ASSUME NEW i \in Messages, AddLocal(i) PROVE OneStream'
  BY <1>6, SameOneStream DEF AddLocal, resyncVars, streamVars
<1> QED BY <1>4, <1>5, <1>6 DEF News

LEMMA StartupOpensOne ==
    ASSUME IInv, OneStream, Startup
    PROVE  OneStream'
<1>1. CASE Start
  BY <1>1, NoProcessHasNone DEF Start, Phases
<1>2. CASE LoadReads
  BY <1>2 DEF LoadReads, streamVars, OneStream, BrokenStreamSurvived
<1>3. CASE LoadFails
  BY <1>3, NoProcessHasNone DEF LoadFails, Phases
<1>4. CASE LoadEnds
  <2>1. /\ stream = Closed /\ others = NoOthers /\ resyncTimers = 0
        /\ watchTimers' = 0 /\ phase' = "up" /\ Watch(token, 0)
    BY <1>4 DEF LoadEnds, OneStream
  <2>2. TypeOK /\ token \in {NoToken} \cup Messages
    BY DEF IInv, TypeOK
  <2> QED BY <2>1, <2>2, WatchOpensOne
<1> QED BY <1>1, <1>2, <1>3, <1>4 DEF Startup

LEMMA StepKeepsOne == IInv /\ OneStream /\ [Next /\ OpensNoSecond]_vars => OneStream'
<1> SUFFICES ASSUME IInv, OneStream, [Next /\ OpensNoSecond]_vars
             PROVE  OneStream'
  OBVIOUS
<1>1. CASE UNCHANGED vars
  BY <1>1, SameOneStream DEF vars, processVars, resyncVars, streamVars
<1>2. CASE Die
  BY <1>2, NoProcessHasNone DEF Die, Phases
<1>3. CASE StoreElsewhere \/ StoreOwn
  BY <1>3, SameOneStream
     DEF StoreElsewhere, StoreOwn, processVars, resyncVars, streamVars
<1>4. CASE ResyncReads
  BY <1>4, SameOneStream DEF ResyncReads, streamVars
<1>5. ASSUME NEW p \in prepared, ResyncPushes(p) PROVE OneStream'
  BY <1>5, SameOneStream DEF ResyncPushes, streamVars
<1>6. CASE CheckCounts \/ CoolDown
  BY <1>6, SameOneStream DEF CheckCounts, CoolDown, resyncVars, streamVars
<1>7. CASE CheckFails \/ CheckWaits
  BY <1>7, SameOneStream DEF CheckFails, CheckWaits, CheckEnds, streamVars
<1> QED BY <1>1, <1>2, <1>3, <1>4, <1>5, <1>6, <1>7, StartupOpensOne, NewsFindsOne,
           BreaksLeaveOne, TimersOpenOne DEF Next, ResyncGoesOn, Check, OpensNoSecond

\* As long as the reconciler asks for no resync and no resync fails to read the
\* room, a process has at most one stream, and the handler of a stream that
\* breaks never ends it, however many streams break or fail to open: those two
\* steps are the only ways to the exception of the handler.
THEOREM OneStreamSurvives == Spec /\ [][OpensNoSecond]_vars => []BrokenStreamSurvived
<1>1. Init => OneStream
  BY DEF Init, OneStream, BrokenStreamSurvived
<1>2. IInv /\ OneStream /\ [Next]_vars /\ [OpensNoSecond]_vars => OneStream'
  BY StepKeepsOne
<1>3. OneStream => BrokenStreamSurvived
  BY DEF OneStream
<1> QED BY <1>1, <1>2, <1>3, SyncInvariance, PTL DEF Spec
=============================================================================
