------------------------- MODULE MessagePathProofs -------------------------
(***************************************************************************)
(* Proofs about MessagePath for any numbers of requests, backends and      *)
(* crashes: its type, that what a backend has answered for is served, and  *)
(* that the path implements Posting.                                       *)
(***************************************************************************)
EXTENDS MessagePath, TLAPS

\* The copies of a request carry one id.
OneId == \A r \in Requests : msg[<<r, 1>>] = msg[<<r, 2>>]

\* A stored document is under the id of the copy it came from, and that copy
\* has been submitted.
RowsOwned ==
    \A i \in MessageIds :
        row[i] # NoRow => msg[row[i]] = i /\ outcome[row[i]] # "idle"

\* A copy is submitted only once forwarded, and forwarded only for a request
\* that has been sent.  The balancer waits for one copy at a time, and only
\* until the request is answered.
InOrder ==
    /\ \A a \in Attempts :
          /\ outcome[a] # "idle" => at[a] # Nowhere
          /\ at[a] # Nowhere => answer[a[1]] # "idle"
          /\ a \in listening => answer[a[1]] = "waiting"
    /\ \A r \in Requests : <<r, 1>> \in listening => <<r, 2>> \notin listening

\* A handler answers only for what is stored.
AnsweredIsStored ==
    \A a \in Attempts :
        /\ reply[a] = "ok" => row[msg[a]] # NoRow
        /\ outcome[a] \in {"new", "duplicate"} => row[msg[a]] # NoRow

IInv == TypeOK /\ OneId /\ RowsOwned /\ InOrder /\ AnsweredIsStored /\ AnsweredIsServed

-----------------------------------------------------------------------------
\* An attempt is the first or the second copy of its request.
LEMMA AttemptIsCopy ==
    /\ \A a \in Attempts : a[1] \in Requests /\ a[2] \in {1, 2} /\ a = <<a[1], a[2]>>
    /\ \A r \in Requests : <<r, 1>> \in Attempts /\ <<r, 2>> \in Attempts
    /\ \A a \in Attempts : a = <<a[1], 1>> \/ a = <<a[1], 2>>
BY DEF Attempts

\* What the type invariant says, with the store's part of it spelt out.
LEMMA Types ==
    ASSUME TypeOK
    PROVE  /\ answer \in [Requests -> {"idle", "waiting", "ok", "failed"}]
           /\ listening \in SUBSET Attempts
           /\ at \in [Attempts -> Backends \cup {Nowhere}]
           /\ reply \in [Attempts -> {"none", "ok", "refused", "lost"}]
           /\ alive \in SUBSET Backends
           /\ room \in [Backends -> SUBSET MessageIds]
           /\ deaths \in 0..MaxDeaths
           /\ outcome \in [Attempts -> {"idle", "waiting", "new", "duplicate", "rejected"}]
           /\ msg \in [Attempts -> MessageIds]
           /\ row \in [MessageIds -> Attempts \cup {NoRow}]
BY DEF TypeOK, Queue!TypeOK, Queue!Settled

LEMMA TypesBack ==
    ASSUME answer' \in [Requests -> {"idle", "waiting", "ok", "failed"}],
           listening' \in SUBSET Attempts,
           at' \in [Attempts -> Backends \cup {Nowhere}],
           reply' \in [Attempts -> {"none", "ok", "refused", "lost"}],
           alive' \in SUBSET Backends,
           room' \in [Backends -> SUBSET MessageIds],
           deaths' \in 0..MaxDeaths,
           outcome' \in [Attempts -> {"idle", "waiting", "new", "duplicate", "rejected"}],
           msg' \in [Attempts -> MessageIds],
           row' \in [MessageIds -> Attempts \cup {NoRow}]
    PROVE  TypeOK'
BY DEF TypeOK, Queue!TypeOK, Queue!Settled

LEMMA InitEstablishes == Init => IInv
<1> SUFFICES ASSUME Init PROVE IInv
  OBVIOUS
<1> PICK supplied \in [Requests -> CallerIds \cup {NoId}] :
        msg = [a \in Attempts |-> MessageId(supplied, a)]
  BY DEF Init
<1>1. \A a \in Attempts : MessageId(supplied, a) \in MessageIds
  BY AttemptIsCopy, MessagePathAssumption DEF MessageId, Stamp, MessageIds
<1>2. TypeOK
  BY <1>1, MessagePathAssumption DEF Init, TypeOK, Queue!TypeOK, Queue!Settled
<1>3. OneId
  BY AttemptIsCopy DEF OneId, MessageId, Stamp
<1>4. RowsOwned /\ InOrder /\ AnsweredIsStored /\ AnsweredIsServed
  BY AttemptIsCopy DEF Init, RowsOwned, InOrder, AnsweredIsStored, AnsweredIsServed
<1> QED BY <1>2, <1>3, <1>4 DEF IInv

-----------------------------------------------------------------------------
(* The steps of the balancer.                                              *)

\* Forwarding a copy that has not been forwarded, of a request that waits.
LEMMA ForwardKeeps ==
    ASSUME IInv, NEW a \in Attempts, NEW b \in Backends, Forward(a, b),
           at[a] = Nowhere,
           answer' = [answer EXCEPT ![a[1]] = "waiting"],
           \A x \in Attempts : x[1] = a[1] => x \notin listening
    PROVE  IInv'
<1> USE AttemptIsCopy, Types, MessagePathAssumption DEF IInv
<1>1. TypeOK'
  BY TypesBack DEF Forward, backendVars
<1>2. OneId' /\ RowsOwned'
  BY DEF Forward, backendVars, OneId, RowsOwned
<1>3. outcome[a] = "idle"
  BY DEF InOrder
<1>4. InOrder'
  BY <1>3 DEF Forward, InOrder
<1>5. AnsweredIsStored'
  BY DEF Forward, AnsweredIsStored
<1>6. AnsweredIsServed'
  BY <1>3 DEF Forward, backendVars, AnsweredIsServed
<1> QED BY <1>1, <1>2, <1>4, <1>5, <1>6

\* The balancer and the client turn away from copies, perhaps with an answer.
LEMMA TurningAwayKeeps ==
    ASSUME IInv, NEW r \in Requests,
           UNCHANGED <<at, handlerVars, backendVars>>,
           listening' \in SUBSET listening,
           answer' \in [Requests -> {"idle", "waiting", "ok", "failed"}],
           \A q \in Requests \ {r} : answer'[q] = answer[q],
           answer'[r] # "idle" \/ answer'[r] = answer[r],
           answer'[r] = answer[r] \/ \A a \in listening' : a[1] # r
    PROVE  IInv'
<1> USE AttemptIsCopy, Types, MessagePathAssumption DEF IInv, handlerVars, backendVars
<1>1. TypeOK'
  BY TypesBack
<1>2. OneId' /\ RowsOwned' /\ AnsweredIsStored' /\ AnsweredIsServed'
  BY DEF OneId, RowsOwned, AnsweredIsStored, AnsweredIsServed
<1>3. InOrder'
  BY DEF InOrder
<1> QED BY <1>1, <1>2, <1>3

LEMMA RequestStepKeeps ==
    ASSUME IInv, NEW r \in Requests, RequestStep(r)
    PROVE  IInv'
<1> USE AttemptIsCopy
<1>1. ASSUME NEW b \in Backends, Send(r, b) PROVE IInv'
  <2>1. at[<<r, 1>>] = Nowhere /\ \A x \in Attempts : x[1] = r => x \notin listening
    BY <1>1 DEF Send, IInv, InOrder
  <2> QED BY <1>1, <2>1, ForwardKeeps DEF Send
<1>2. ASSUME NEW b \in Backends, Retry(r, b) PROVE IInv'
  <2>1. answer' = [answer EXCEPT ![r] = "waiting"]
    BY <1>2, Types DEF Retry, Unanswered, IInv
  <2>2. \A x \in Attempts : x[1] = r => x \notin listening
    BY <1>2 DEF Retry, Unanswered
  <2> QED BY <1>2, <2>1, <2>2, ForwardKeeps DEF Retry
<1>3. CASE GivesUp(r)
  <2>1. \A a \in listening : a[1] # r
    <3> SUFFICES ASSUME NEW a \in listening PROVE a[1] # r
      OBVIOUS
    <3>1. a \in Attempts /\ answer[a[1]] = "waiting"
      BY Types DEF IInv, InOrder
    <3> QED BY <1>3, <3>1 DEF GivesUp, Unanswered
  <2> QED BY <1>3, <2>1, TurningAwayKeeps, Types DEF GivesUp, Answers, IInv
<1>4. CASE ClientLeaves(r)
  <2>1. \A a \in listening' : a \in listening /\ a[1] # r
    BY <1>4, Types DEF ClientLeaves, IInv
  <2> QED BY <1>4, <2>1, TurningAwayKeeps, Types DEF ClientLeaves, Answers, IInv
<1> QED BY <1>1, <1>2, <1>3, <1>4 DEF RequestStep

\* While the balancer listens to a copy it does not listen to the other.
LEMMA ListensToOne ==
    ASSUME IInv, NEW a \in listening
    PROVE  \A x \in listening : x[1] = a[1] => x = a
BY AttemptIsCopy, Types DEF IInv, InOrder

-----------------------------------------------------------------------------
(* The steps of the handlers and of the database.                          *)

\* A document is stored under an id that was free.
LEMMA StoresKeeps ==
    ASSUME IInv, NEW a \in Attempts, Stores(a)
    PROVE  IInv'
<1> USE AttemptIsCopy, Types DEF IInv
<1>1. /\ outcome[a] \in {"waiting", "rejected"}
      /\ row[msg[a]] = NoRow
      /\ row' = [row EXCEPT ![msg[a]] = a]
      /\ UNCHANGED <<requestVars, reply, outcome, msg, backendVars>>
  BY DEF Stores, Queue!Store
<1> USE DEF requestVars, backendVars
<1>2. TypeOK'
  BY <1>1, TypesBack
<1>3. OneId' /\ InOrder' /\ AnsweredIsServed'
  BY <1>1 DEF OneId, InOrder, AnsweredIsServed
<1>4. RowsOwned'
  BY <1>1 DEF RowsOwned
<1>5. \A i \in MessageIds : row[i] # NoRow => row'[i] # NoRow
  BY <1>1
<1>6. AnsweredIsStored'
  BY <1>1, <1>5 DEF AnsweredIsStored
<1> QED BY <1>2, <1>3, <1>4, <1>6

\* A handler whose insert() succeeds finds the message stored and adds it.
LEMMA SucceedsKeeps ==
    ASSUME IInv, NEW a \in Attempts, Succeeds(a)
    PROVE  IInv'
<1> USE AttemptIsCopy, Types DEF IInv
<1>1. PICK verdict \in {"new", "duplicate"} :
          /\ Settles(a, verdict)
          /\ room' = [room EXCEPT ![at[a]] = @ \cup Added(a, verdict)]
          /\ reply' = [reply EXCEPT ![a] = "ok"]
  BY DEF Succeeds
<1>2. /\ at[a] \in alive
      /\ outcome[a] = "waiting"
      /\ outcome' = [outcome EXCEPT ![a] = verdict]
      /\ room' = [room EXCEPT ![at[a]] = @ \cup {msg[a]}]
      /\ UNCHANGED <<answer, listening, at, msg, row, alive, deaths>>
  BY <1>1 DEF Settles, Arrived, Added, requestVars
<1>3. row[msg[a]] # NoRow
  BY <1>1, MessagePathAssumption DEF Settles, Queue!Verdicts, Attempts
<1>4. TypeOK'
  BY <1>1, <1>2, TypesBack
<1>5. OneId' /\ RowsOwned' /\ InOrder'
  BY <1>2 DEF OneId, RowsOwned, InOrder
<1>6. AnsweredIsStored'
  BY <1>1, <1>2, <1>3 DEF AnsweredIsStored
<1>7. AnsweredIsServed'
  BY <1>2 DEF AnsweredIsServed
<1> QED BY <1>4, <1>5, <1>6, <1>7

LEMMA AttemptStepKeeps ==
    ASSUME IInv, NEW a \in Attempts, AttemptStep(a)
    PROVE  IInv'
<1> USE AttemptIsCopy, Types
<1>1. CASE Breaks(a)
  <2>1. listening' \in SUBSET listening /\ UNCHANGED <<answer, at, handlerVars, backendVars>>
    BY <1>1 DEF Breaks
  <2> QED BY <2>1, TurningAwayKeeps DEF IInv
<1>2. CASE Delivers(a)
  <2>1. \A x \in listening' : x \in listening /\ x[1] # a[1]
    BY <1>2, ListensToOne DEF Delivers, IInv
  <2>2. answer' = [answer EXCEPT ![a[1]] = Says(a)] /\ Says(a) \in {"ok", "failed"}
    BY <1>2 DEF Delivers, Answers, Says
  <2> QED BY <1>2, <2>1, <2>2, TurningAwayKeeps DEF Delivers, Answers, IInv
<1>3. CASE Declines(a)
  <2>1. /\ reply' = [reply EXCEPT ![a] = "refused"]
        /\ UNCHANGED <<requestVars, outcome, msg, row, backendVars>>
    BY <1>3 DEF Declines
  <2>2. TypeOK'
    BY <2>1, TypesBack DEF IInv, requestVars, backendVars
  <2> QED BY <2>1, <2>2 DEF IInv, requestVars, backendVars, OneId, RowsOwned, InOrder,
                            AnsweredIsStored, AnsweredIsServed
<1>4. CASE Handles(a)
  <2>1. /\ at[a] \in alive
        /\ outcome[a] = "idle"
        /\ outcome' = [outcome EXCEPT ![a] = "waiting"]
        /\ UNCHANGED <<requestVars, reply, msg, row, backendVars>>
    BY <1>4 DEF Handles, Arrived, Queue!Submit
  <2>2. at[a] # Nowhere
    BY <2>1, MessagePathAssumption DEF IInv
  <2>3. TypeOK'
    BY <2>1, TypesBack DEF IInv, requestVars, backendVars
  <2> QED BY <2>1, <2>2, <2>3 DEF IInv, requestVars, backendVars, OneId, RowsOwned, InOrder,
                                  AnsweredIsStored, AnsweredIsServed
<1>5. CASE Stores(a)
  BY <1>5, StoresKeeps
<1>6. CASE Succeeds(a)
  BY <1>6, SucceedsKeeps
<1>7. CASE NotStored(a)
  <2>1. /\ outcome[a] = "waiting"
        /\ outcome' = [outcome EXCEPT ![a] = "rejected"]
        /\ reply' = [reply EXCEPT ![a] = "refused"]
        /\ UNCHANGED <<requestVars, msg, row, backendVars>>
    BY <1>7 DEF NotStored, Settles, backendVars
  <2>2. TypeOK'
    BY <2>1, TypesBack DEF IInv, requestVars, backendVars
  <2> QED BY <2>1, <2>2 DEF IInv, requestVars, backendVars, OneId, RowsOwned, InOrder,
                            AnsweredIsStored, AnsweredIsServed
<1> QED BY <1>1, <1>2, <1>3, <1>4, <1>5, <1>6, <1>7 DEF AttemptStep

-----------------------------------------------------------------------------
(* The steps of the backends, and the theorems.                            *)

LEMMA BackendStepKeeps ==
    ASSUME IInv, NEW b \in Backends, BackendStep(b)
    PROVE  IInv'
<1> USE AttemptIsCopy, Types
<1> USE DEF IInv, requestVars, handlerVars
<1>1. CASE Starts(b)
  <2>1. TypeOK'
    BY <1>1, TypesBack DEF Starts, Stored
  <2>2. AnsweredIsServed'
    BY <1>1 DEF Starts, Stored, AnsweredIsServed, AnsweredIsStored
  <2> QED BY <1>1, <2>1, <2>2 DEF Starts, OneId, RowsOwned, InOrder, AnsweredIsStored
<1>2. ASSUME NEW i \in MessageIds, Learns(b, i) PROVE IInv'
  <2>1. TypeOK'
    BY <1>2, TypesBack DEF Learns
  <2>2. AnsweredIsServed'
    BY <1>2 DEF Learns, AnsweredIsServed
  <2> QED BY <1>2, <2>1, <2>2 DEF Learns, OneId, RowsOwned, InOrder, AnsweredIsStored
<1>3. CASE Dies(b)
  <2>1. /\ alive' = alive \ {b}
        /\ room' = [room EXCEPT ![b] = {}]
        /\ UNCHANGED <<requestVars, msg, row>>
        /\ \A a \in Attempts : reply'[a] = reply[a] \/ reply'[a] = "lost"
        /\ \A a \in Attempts :
              \/ outcome'[a] = outcome[a]
              \/ outcome[a] = "waiting" /\ outcome'[a] = "rejected"
    BY <1>3 DEF Dies
  <2>2. deaths' \in 0..MaxDeaths
    BY <1>3, MessagePathAssumption DEF Dies
  <2>3. /\ reply' \in [Attempts -> {"none", "ok", "refused", "lost"}]
        /\ outcome' \in [Attempts -> {"idle", "waiting", "new", "duplicate", "rejected"}]
    BY <1>3 DEF Dies
  <2>4. TypeOK'
    BY <2>1, <2>2, <2>3, TypesBack
  <2>5. AnsweredIsServed'
    BY <2>1 DEF AnsweredIsServed
  <2>6. RowsOwned' /\ OneId'
    BY <2>1 DEF RowsOwned, OneId
  <2>7. InOrder' /\ AnsweredIsStored'
    BY <2>1 DEF InOrder, AnsweredIsStored
  <2> QED BY <2>4, <2>5, <2>6, <2>7
<1> QED BY <1>1, <1>2, <1>3 DEF BackendStep

LEMMA StepKeeps == IInv /\ [Next]_vars => IInv'
<1> SUFFICES ASSUME IInv, [Next]_vars PROVE IInv'
  OBVIOUS
<1>1. CASE UNCHANGED vars
  <2>1. TypeOK'
    BY <1>1, Types, TypesBack DEF IInv, vars, requestVars, handlerVars, backendVars
  <2> QED BY <1>1, <2>1 DEF IInv, vars, requestVars, handlerVars, backendVars, OneId,
                            RowsOwned, InOrder, AnsweredIsStored, AnsweredIsServed
<1> QED BY <1>1, RequestStepKeeps, AttemptStepKeeps, BackendStepKeeps DEF Next

THEOREM PathInvariance == Spec => []IInv
BY InitEstablishes, StepKeeps, PTL DEF Spec

\* The path keeps its type.
THEOREM PathType == Spec => []TypeOK
BY PathInvariance, PTL DEF IInv

\* A backend serves whatever it has answered for, for any number of backends,
\* requests and crashes.
THEOREM PathServes == Spec => []AnsweredIsServed
BY PathInvariance, PTL DEF IInv

-----------------------------------------------------------------------------
(* The refinement.                                                         *)

Kept == {row[i] : i \in Stored}

\* The message of r is stored exactly when the row of its id is.
LEMMA KeptIsStored ==
    ASSUME IInv, NEW r \in Requests
    PROVE  Abstract!IsKept(r) <=> row[msg[<<r, 1>>]] # NoRow
<1> USE AttemptIsCopy, Types DEF IInv
<1> DEFINE id(q) == [s \in Requests |-> msg[<<s, 1>>]][q]
<1>1. Abstract!IsKept(r) <=> \E x \in Kept : id(x[1]) = id(r)
  BY DEF Abstract!IsKept, Kept
<1>2. \A x \in Kept : /\ x \in Attempts
                      /\ row[msg[x]] = x
                      /\ id(x[1]) = msg[x]
  BY DEF Kept, Stored, RowsOwned, OneId
<1>3. ASSUME row[msg[<<r, 1>>]] # NoRow PROVE \E x \in Kept : id(x[1]) = id(r)
  <2>1. row[msg[<<r, 1>>]] \in Kept
    BY <1>3 DEF Kept, Stored
  <2>2. msg[row[msg[<<r, 1>>]]] = msg[<<r, 1>>]
    BY <1>3 DEF RowsOwned
  <2>3. id(row[msg[<<r, 1>>]][1]) = msg[row[msg[<<r, 1>>]]]
    BY <2>1, <1>2
  <2>4. id(r) = msg[<<r, 1>>]
    OBVIOUS
  <2>5. id(row[msg[<<r, 1>>]][1]) = id(r)
    BY <2>2, <2>3, <2>4
  <2> QED BY <2>1, <2>5
<1>4. ASSUME NEW x \in Kept, id(x[1]) = id(r) PROVE row[msg[<<r, 1>>]] # NoRow
  BY <1>2, <1>4, MessagePathAssumption DEF Attempts
<1> QED BY <1>1, <1>3, <1>4

LEMMA StepRefines == IInv /\ [Next]_vars => [Abstract!Next]_(Abstract!postingVars)
<1> SUFFICES ASSUME IInv, [Next]_vars
             PROVE  Abstract!Next \/ UNCHANGED Abstract!postingVars
  OBVIOUS
<1> USE AttemptIsCopy, Types
<1>1. ASSUME UNCHANGED <<answer, msg, row>> PROVE UNCHANGED Abstract!postingVars
  BY <1>1 DEF Abstract!postingVars, Stored
<1>2. ASSUME NEW r \in Requests, NEW b \in Backends, Send(r, b) PROVE Abstract!Next
  <2>1. Abstract!Post(r)
    BY <1>2 DEF Send, Forward, Abstract!Post, Stored
  <2> QED BY <2>1 DEF Abstract!Next
<1>3. ASSUME NEW r \in Requests, answer[r] \in {"idle", "waiting"}, Answers(r, "failed")
      PROVE  Abstract!Next
  <2>1. Abstract!Fail(r)
    BY <1>3 DEF Answers, handlerVars, Abstract!Fail, Stored
  <2> QED BY <2>1 DEF Abstract!Next
<1>4. ASSUME NEW a \in Attempts, Delivers(a) PROVE Abstract!Next
  <2>1. answer[a[1]] = "waiting"
    BY <1>4 DEF Delivers, IInv, InOrder
  <2>2. CASE reply[a] = "ok"
    <3>1. row[msg[a]] # NoRow /\ msg[a] = msg[<<a[1], 1>>]
      BY <2>2 DEF IInv, AnsweredIsStored, OneId
    <3>2. Abstract!IsKept(a[1])
      BY <3>1, KeptIsStored
    <3>3. Abstract!Acknowledge(a[1])
      BY <1>4, <2>1, <2>2, <3>2
         DEF Delivers, Answers, Says, handlerVars, Abstract!Acknowledge, Stored
    <3> QED BY <3>3 DEF Abstract!Next
  <2>3. CASE reply[a] # "ok"
    BY <1>3, <1>4, <2>1, <2>3 DEF Delivers, Says
  <2> QED BY <2>2, <2>3
<1>5. ASSUME NEW a \in Attempts, Stores(a) PROVE Abstract!Next
  <2>1. /\ outcome[a] \in {"waiting", "rejected"}
        /\ row[msg[a]] = NoRow
        /\ row' = [row EXCEPT ![msg[a]] = a]
        /\ UNCHANGED <<answer, msg>>
    BY <1>5 DEF Stores, Queue!Store, requestVars
  <2>2. answer[a[1]] # "idle"
    BY <2>1 DEF IInv, InOrder
  <2>3. ~Abstract!IsKept(a[1])
    <3>1. msg[<<a[1], 1>>] = msg[a]
      BY DEF IInv, OneId
    <3> QED BY <2>1, <3>1, KeptIsStored
  <2>4. {row[i] : i \in Stored}' = {row[i] : i \in Stored} \cup {a}
    BY <2>1, MessagePathAssumption DEF Stored, Attempts, IInv
  <2>5. Abstract!Keep(a[1], a[2])
    BY <2>1, <2>2, <2>3, <2>4 DEF Abstract!Keep
  <2> QED BY <2>5 DEF Abstract!Next
<1>6. ASSUME NEW r \in Requests, RequestStep(r)
      PROVE  Abstract!Next \/ UNCHANGED Abstract!postingVars
  <2>1. ASSUME NEW b \in Backends, Retry(r, b) PROVE UNCHANGED Abstract!postingVars
    BY <1>1, <2>1 DEF Retry, Forward
  <2>2. CASE GivesUp(r)
    BY <1>3, <2>2 DEF GivesUp, Unanswered
  <2>3. CASE ClientLeaves(r)
    BY <1>3, <2>3 DEF ClientLeaves
  <2> QED BY <1>2, <1>6, <2>1, <2>2, <2>3 DEF RequestStep
<1>7. ASSUME NEW a \in Attempts, AttemptStep(a)
      PROVE  Abstract!Next \/ UNCHANGED Abstract!postingVars
  <2>1. ASSUME Breaks(a) \/ Declines(a) \/ Handles(a) \/ Succeeds(a) \/ NotStored(a)
        PROVE  UNCHANGED <<answer, msg, row>>
    BY <2>1 DEF Breaks, Declines, Handles, Queue!Submit, Succeeds, NotStored, Settles,
                requestVars, handlerVars
  <2> QED BY <1>1, <1>4, <1>5, <1>7, <2>1 DEF AttemptStep
<1>8. ASSUME NEW b \in Backends, BackendStep(b) PROVE UNCHANGED Abstract!postingVars
  <2>1. UNCHANGED <<answer, msg, row>>
    BY <1>8 DEF BackendStep, Starts, Learns, Dies, requestVars, handlerVars
  <2> QED BY <1>1, <2>1
<1>9. CASE UNCHANGED vars
  BY <1>1, <1>9 DEF vars, requestVars, handlerVars
<1> QED BY <1>6, <1>7, <1>8, <1>9 DEF Next

\* Whatever dies, breaks and is replayed: every request has at most one stored
\* message, and one that is answered "ok" has it.
THEOREM PathImplementsPosting == Spec => ImplementsPosting
<1>1. Init => Abstract!Init
  <2> SUFFICES ASSUME Init PROVE Abstract!Init
    OBVIOUS
  <2>1. msg \in [Attempts -> MessageIds] /\ row = [i \in MessageIds |-> NoRow]
    BY InitEstablishes, Types DEF Init, IInv
  <2>2. Stored = {}
    BY <2>1 DEF Stored
  <2> QED BY <2>1, <2>2, AttemptIsCopy DEF Init, Abstract!Init
<1> QED BY <1>1, StepRefines, PathInvariance, PTL DEF Spec, ImplementsPosting, Abstract!Spec

\* Along the steps of the promise an answer and what is stored only grow.
LEMMA PromiseHolds ==
    ASSUME answer \in [Requests -> {"idle", "waiting", "ok", "failed"}],
           Abstract!AcknowledgedIsKept, Abstract!KeptOnce,
           [Abstract!Next]_(Abstract!postingVars)
    PROVE  /\ Abstract!AcknowledgedIsKept' /\ Abstract!KeptOnce'
           /\ \A r \in Requests : answer[r] \in {"ok", "failed"} => answer'[r] = answer[r]
           /\ Kept \subseteq Kept'
<1> DEFINE id == [r \in Requests |-> msg[<<r, 1>>]]
<1>1. /\ Abstract!AcknowledgedIsKept
             <=> \A r \in Requests : answer[r] = "ok" => \E x \in Kept : id[x[1]] = id[r]
      /\ Abstract!KeptOnce <=> \A x, y \in Kept : id[x[1]] = id[y[1]] => x = y
  BY DEF Abstract!AcknowledgedIsKept, Abstract!KeptOnce, Abstract!IsKept, Kept
<1>2. /\ Abstract!AcknowledgedIsKept'
             <=> \A r \in Requests : answer'[r] = "ok" => \E x \in Kept' : id'[x[1]] = id'[r]
      /\ Abstract!KeptOnce' <=> \A x, y \in Kept' : id'[x[1]] = id'[y[1]] => x = y
  BY DEF Abstract!AcknowledgedIsKept, Abstract!KeptOnce, Abstract!IsKept, Kept
<1>3. CASE UNCHANGED Abstract!postingVars
  <2>1. answer' = answer /\ id' = id /\ Kept' = Kept
    BY <1>3 DEF Abstract!postingVars, Kept
  <2> HIDE DEF id
  <2> QED BY <1>1, <1>2, <2>1
<1>4. ASSUME NEW r \in Requests, Abstract!Post(r) \/ Abstract!Fail(r) \/ Abstract!Acknowledge(r)
      PROVE  /\ Abstract!AcknowledgedIsKept' /\ Abstract!KeptOnce'
             /\ \A q \in Requests : answer[q] \in {"ok", "failed"} => answer'[q] = answer[q]
             /\ Kept \subseteq Kept'
  <2>1. /\ answer[r] \in {"idle", "waiting"} /\ id' = id /\ Kept' = Kept
        /\ \/ answer' = [answer EXCEPT ![r] = "waiting"]
           \/ answer' = [answer EXCEPT ![r] = "failed"]
           \/ /\ answer' = [answer EXCEPT ![r] = "ok"]
              /\ \E x \in Kept : id[x[1]] = id[r]
    BY <1>4 DEF Abstract!Post, Abstract!Fail, Abstract!Acknowledge, Abstract!IsKept, Kept
  <2> HIDE DEF id
  <2> QED BY <1>1, <1>2, <2>1
<1>5. ASSUME NEW r \in Requests, NEW copy \in {1, 2}, Abstract!Keep(r, copy)
      PROVE  /\ Abstract!AcknowledgedIsKept' /\ Abstract!KeptOnce'
             /\ \A q \in Requests : answer[q] \in {"ok", "failed"} => answer'[q] = answer[q]
             /\ Kept \subseteq Kept'
  <2>1. /\ ~\E x \in Kept : id[x[1]] = id[r]
        /\ Kept' = Kept \cup {<<r, copy>>}
        /\ answer' = answer /\ id' = id
    BY <1>5 DEF Abstract!Keep, Abstract!IsKept, Kept
  <2> HIDE DEF id
  <2>2. ASSUME NEW x \in Kept', NEW y \in Kept', id[x[1]] = id[y[1]] PROVE x = y
    BY <1>1, <2>1, <2>2
  <2> QED BY <1>1, <1>2, <2>1, <2>2
<1> QED BY <1>3, <1>4, <1>5 DEF Abstract!Next

LEMMA PromiseBegins == Init => Abstract!AcknowledgedIsKept /\ Abstract!KeptOnce
BY DEF Init, Stored, Abstract!AcknowledgedIsKept, Abstract!KeptOnce

\* "A 200 still means the database has the message", whichever copy of the
\* request stored it and whatever has died since.
THEOREM OkMeansKept == Spec => []Abstract!AcknowledgedIsKept
<1>1. IInv /\ [Next]_vars /\ Abstract!AcknowledgedIsKept /\ Abstract!KeptOnce
         => Abstract!AcknowledgedIsKept' /\ Abstract!KeptOnce'
  BY StepRefines, PromiseHolds, Types DEF IInv
<1> QED BY <1>1, PromiseBegins, PathInvariance, PTL DEF Spec

\* "No duplicates": of all requests with one id, all their copies and all the
\* backends that worked on them, one has stored its message.
THEOREM NoDuplicates == Spec => []Abstract!KeptOnce
<1>1. IInv /\ [Next]_vars /\ Abstract!AcknowledgedIsKept /\ Abstract!KeptOnce
         => Abstract!AcknowledgedIsKept' /\ Abstract!KeptOnce'
  BY StepRefines, PromiseHolds, Types DEF IInv
<1> QED BY <1>1, PromiseBegins, PathInvariance, PTL DEF Spec

\* A client is answered once, and no message that is stored disappears, though
\* the copies that were given up go on being worked on.
THEOREM AnswersAreFinal == Spec => Abstract!NothingTakenBack
<1>1. IInv /\ [Next]_vars /\ Abstract!AcknowledgedIsKept /\ Abstract!KeptOnce
         => [ /\ \A r \in Requests : answer[r] \in {"ok", "failed"} => answer'[r] = answer[r]
              /\ {row[i] : i \in Stored} \subseteq {row[i] : i \in Stored}' ]_(Abstract!postingVars)
  BY StepRefines, PromiseHolds, Types DEF IInv, Kept
<1> QED BY <1>1, OkMeansKept, NoDuplicates, PathInvariance, PTL
        DEF Spec, Abstract!NothingTakenBack

-----------------------------------------------------------------------------
(* The parts.                                                              *)

\* Told the same: nothing the store's promise speaks of changes.
LEMMA StepIsOfStore == IInv /\ [Next]_vars => [Queue!Next]_(Queue!storeVars)
<1> SUFFICES ASSUME IInv, [Next]_vars
             PROVE  Queue!Next \/ UNCHANGED Queue!storeVars
  OBVIOUS
<1> USE AttemptIsCopy, Types DEF IInv
<1>1. ASSUME UNCHANGED <<outcome, msg, row>> PROVE UNCHANGED Queue!storeVars
  BY <1>1 DEF Queue!storeVars
<1>2. ASSUME outcome' \in [Attempts -> {"idle", "waiting", "new", "duplicate", "rejected"}],
             \A a \in Attempts :
                \/ outcome'[a] = outcome[a]
                \/ outcome[a] = "waiting" /\ outcome'[a] \in Queue!Verdicts(a),
             UNCHANGED <<msg, row>>
      PROVE  Queue!Next
  <2>1. Queue!Settle
    BY <1>2 DEF Queue!Settle, Queue!Settled
  <2> QED BY <2>1 DEF Queue!Next
<1>3. ASSUME NEW a \in Attempts, NEW verdict \in {"new", "duplicate", "rejected"},
             Settles(a, verdict)
      PROVE  Queue!Next
  BY <1>2, <1>3 DEF Settles
<1>4. ASSUME NEW a \in Attempts, AttemptStep(a)
      PROVE  Queue!Next \/ UNCHANGED Queue!storeVars
  <2>1. CASE Breaks(a) \/ Delivers(a) \/ Declines(a)
    BY <1>1, <2>1 DEF Breaks, Delivers, Declines, Answers, handlerVars
  <2>2. CASE Handles(a)
    BY <2>2 DEF Handles, Queue!Next
  <2>3. CASE Stores(a)
    BY <2>3 DEF Stores, Queue!Next
  <2>4. CASE Succeeds(a)
    BY <1>3, <2>4 DEF Succeeds
  <2>5. CASE NotStored(a)
    BY <1>3, <2>5 DEF NotStored
  <2> QED BY <1>4, <2>1, <2>2, <2>3, <2>4, <2>5 DEF AttemptStep
<1>5. ASSUME NEW r \in Requests, RequestStep(r) PROVE UNCHANGED <<outcome, msg, row>>
  BY <1>5 DEF RequestStep, Send, Retry, Forward, GivesUp, ClientLeaves, Answers, handlerVars
<1>6. ASSUME NEW b \in Backends, BackendStep(b)
      PROVE  Queue!Next \/ UNCHANGED Queue!storeVars
  <2>1. CASE Dies(b)
    BY <1>2, <2>1 DEF Dies, Queue!Verdicts
  <2>2. CASE ~Dies(b)
    BY <1>1, <1>6, <2>2 DEF BackendStep, Starts, Learns, handlerVars
  <2> QED BY <2>1, <2>2
<1>7. CASE UNCHANGED vars
  BY <1>1, <1>7 DEF vars, handlerVars
<1> QED BY <1>4, <1>5, <1>6, <1>7, <1>1 DEF Next

\* The handlers of all backends, with the index they share, are one store as
\* WriteQueue implements it: a death settles the calls of a backend at once.
THEOREM PathImplementsStore == Spec => ImplementsStore
<1>1. Init => Queue!Init
  <2> SUFFICES ASSUME Init PROVE Queue!Init
    OBVIOUS
  <2>1. msg \in [Attempts -> MessageIds]
    BY InitEstablishes, Types DEF IInv
  <2> QED BY <2>1 DEF Init, Queue!Init
<1> QED BY <1>1, StepIsOfStore, PathInvariance, PTL DEF Spec, ImplementsStore, Queue!Spec

\* What Forwarding sees of the balancer.
First == [r \in Requests |-> at[<<r, 1>>]]
Second == [r \in Requests |-> at[<<r, 2>>]]
Awaited == {a[1] : a \in listening}

\* A copy is forwarded, and no other.
LEMMA ForwardedAt ==
    ASSUME at \in [Attempts -> Backends \cup {Nowhere}], NEW r \in Requests, NEW k \in {1, 2},
           NEW b \in Backends, at' = [at EXCEPT ![<<r, k>>] = b]
    PROVE  /\ \A q \in Requests : at'[<<q, k>>] = IF q = r THEN b ELSE at[<<q, k>>]
           /\ \A q \in Requests, n \in {1, 2} \ {k} : at'[<<q, n>>] = at[<<q, n>>]
BY DEF Attempts

LEMMA StepForwards == IInv /\ [Next]_vars => [Relay!Next]_(Relay!forwardingVars)
<1> SUFFICES ASSUME IInv, [Next]_vars
             PROVE  Relay!Next \/ UNCHANGED Relay!forwardingVars
  OBVIOUS
<1> USE AttemptIsCopy, Types DEF IInv
<1>1. ASSUME UNCHANGED requestVars PROVE UNCHANGED Relay!forwardingVars
  BY <1>1 DEF requestVars, Relay!forwardingVars
<1>2. ASSUME NEW r \in Requests, NEW b \in Backends, Send(r, b) PROVE Relay!Next
  <2>1. /\ answer[r] = "idle"
        /\ answer' = [answer EXCEPT ![r] = "waiting"]
        /\ at' = [at EXCEPT ![<<r, 1>>] = b]
        /\ listening' = listening \cup {<<r, 1>>}
    BY <1>2 DEF Send, Forward
  <2>2. First' = [First EXCEPT ![r] = b] /\ Second' = Second
    <3>1. /\ \A q \in Requests : at'[<<q, 1>>] = IF q = r THEN b ELSE at[<<q, 1>>]
          /\ \A q \in Requests : at'[<<q, 2>>] = at[<<q, 2>>]
      <4>1. at' = [at EXCEPT ![<<r, 1>>] = b] /\ 1 \in {1, 2} /\ 2 \in {1, 2} \ {1}
        BY <2>1
      <4>2. at \in [Attempts -> Backends \cup {Nowhere}]
        OBVIOUS
      <4> HIDE DEF IInv
      <4> QED BY <4>1, <4>2, ForwardedAt
    <3> QED BY <3>1 DEF First, Second
  <2>3. Awaited' = Awaited \cup {r}
    BY <2>1 DEF Awaited
  <2>4. Relay!Attempt(r, b)
    BY <2>1, <2>2, <2>3 DEF Relay!Attempt, First, Second, Awaited
  <2> QED BY <2>4 DEF Relay!Next
<1>3. ASSUME NEW r \in Requests, NEW b \in Backends, Retry(r, b) PROVE Relay!Next
  <2>1. /\ answer[r] = "waiting" /\ answer' = answer
        /\ at[<<r, 2>>] = Nowhere /\ b # at[<<r, 1>>]
        /\ at' = [at EXCEPT ![<<r, 2>>] = b]
        /\ listening' = listening \cup {<<r, 2>>}
        /\ <<r, 1>> \notin listening /\ <<r, 2>> \notin listening
    BY <1>3 DEF Retry, Unanswered, Forward
  <2>2. Second' = [Second EXCEPT ![r] = b] /\ First' = First
    <3>1. /\ \A q \in Requests : at'[<<q, 2>>] = IF q = r THEN b ELSE at[<<q, 2>>]
          /\ \A q \in Requests : at'[<<q, 1>>] = at[<<q, 1>>]
      BY <2>1, ForwardedAt
    <3> QED BY <3>1 DEF First, Second
  <2>3. Awaited' = Awaited \cup {r}
    BY <2>1 DEF Awaited
  <2>. r \notin Awaited
    <3> SUFFICES ASSUME NEW a \in listening, a[1] = r PROVE FALSE
      BY DEF Awaited
    <3>1. a = <<r, 1>> \/ a = <<r, 2>>
      BY AttemptIsCopy, Types
    <3> QED BY <2>1, <3>1
  <2>4. Relay!Retry(r, b)
    BY <2>1, <2>2, <2>3 DEF Relay!Retry, First, Second, Awaited
  <2> QED BY <2>4 DEF Relay!Next
<1>4. ASSUME NEW a \in listening, listening' = listening \ {a}
      PROVE  /\ a[1] \in Requests /\ a[1] \in Awaited
             /\ Awaited' = Awaited \ {a[1]}
             /\ answer[a[1]] = "waiting"
  BY <1>4, ListensToOne DEF Awaited, InOrder
<1>5. ASSUME NEW a \in Attempts, Breaks(a) PROVE Relay!Next
  <2>1. /\ a \in listening /\ listening' = listening \ {a}
        /\ UNCHANGED <<answer, at>>
    BY <1>5 DEF Breaks
  <2>2. Relay!Fails(a[1])
    BY <1>4, <2>1 DEF Relay!Fails, Awaited
  <2> QED BY <2>2 DEF Relay!Next
<1>6. ASSUME NEW a \in Attempts, Delivers(a) PROVE Relay!Next
  <2>1. /\ a \in listening /\ listening' = listening \ {a}
        /\ answer' = [answer EXCEPT ![a[1]] = Says(a)]
        /\ at' = at /\ Says(a) \in {"ok", "failed"}
    BY <1>6 DEF Delivers, Answers, Says
  <2>2. Relay!Succeeds(a[1]) \/ Relay!Ends(a[1])
    BY <1>4, <2>1 DEF Relay!Succeeds, Relay!Ends, Awaited
  <2> QED BY <2>2 DEF Relay!Next
<1>7. ASSUME NEW r \in Requests, GivesUp(r) \/ ClientLeaves(r) PROVE Relay!Next
  <2>1. /\ answer[r] \in {"idle", "waiting"}
        /\ answer' = [answer EXCEPT ![r] = "failed"]
        /\ at' = at
    BY <1>7 DEF GivesUp, ClientLeaves, Unanswered, Answers
  <2>2. Awaited' = Awaited \ {r}
    <3>1. CASE ClientLeaves(r)
      <4>1. listening' = {a \in listening : a[1] # r}
        BY <3>1 DEF ClientLeaves
      <4> QED BY <4>1 DEF Awaited
    <3>2. CASE GivesUp(r)
      <4>1. \A a \in listening : answer[a[1]] = "waiting" /\ (a = <<a[1], 1>> \/ a = <<a[1], 2>>)
        BY DEF InOrder
      <4>2. listening' = listening /\ \A a \in listening : a[1] # r
        <5>1. listening' = listening /\ (answer[r] = "idle" \/ Unanswered(r))
          BY <3>2 DEF GivesUp
        <5>2. ASSUME NEW a \in listening, a[1] = r PROVE FALSE
          <6>1. answer[r] = "waiting" /\ (<<r, 1>> \in listening \/ <<r, 2>> \in listening)
            BY <4>1, <5>2
          <6> QED BY <5>1, <6>1 DEF Unanswered
        <5> QED BY <5>1, <5>2
      <4> QED BY <4>2 DEF Awaited
    <3> QED BY <1>7, <3>1, <3>2
  <2>3. Relay!Ends(r)
    BY <2>1, <2>2 DEF Relay!Ends, Awaited
  <2> QED BY <2>3 DEF Relay!Next
<1>8. ASSUME NEW a \in Attempts, AttemptStep(a), ~Breaks(a), ~Delivers(a)
      PROVE  UNCHANGED requestVars
  BY <1>8 DEF AttemptStep, Declines, Handles, Stores, Succeeds, NotStored, Settles
<1>9. ASSUME NEW b \in Backends, BackendStep(b) PROVE UNCHANGED requestVars
  BY <1>9 DEF BackendStep, Starts, Learns, Dies
<1>10. CASE UNCHANGED vars
  BY <1>1, <1>10 DEF vars
<1> QED BY <1>1, <1>2, <1>3, <1>5, <1>6, <1>7, <1>8, <1>9, <1>10 DEF Next, RequestStep

\* The balancer is used through nothing but what Balancer is proved to
\* implement: see BalancerForwards.
THEOREM PathForwards == Spec => ImplementsForwarding
<1>1. Init => Relay!Init
  <2> SUFFICES ASSUME Init PROVE Relay!Init
    OBVIOUS
  <2>1. \A a \in Attempts : at[a] = Nowhere
    BY DEF Init
  <2>2. [r \in Requests |-> at[<<r, 1>>]] = [r \in Requests |-> Nowhere]
    BY <2>1, AttemptIsCopy
  <2>3. [r \in Requests |-> at[<<r, 2>>]] = [r \in Requests |-> Nowhere]
    BY <2>1, AttemptIsCopy
  <2>4. answer = [r \in Requests |-> "idle"] /\ listening = {}
    BY DEF Init
  <2>5. {a[1] : a \in listening} = {}
    BY <2>4
  <2> QED BY <2>2, <2>3, <2>4, <2>5 DEF Relay!Init
<1> QED BY <1>1, StepForwards, PathInvariance, PTL DEF Spec, ImplementsForwarding, Relay!Spec

\* What is stored stays, whatever a step does.
LEMMA StoredGrows ==
    ASSUME IInv, [Next]_vars
    PROVE  Stored' = Stored \/ \E i \in MessageIds : Stored' = Stored \cup {i}
<1> USE AttemptIsCopy, Types DEF IInv
<1>1. CASE UNCHANGED row
  BY <1>1 DEF Stored
<1>2. ASSUME NEW a \in Attempts, Stores(a)
      PROVE  \E i \in MessageIds : Stored' = Stored \cup {i}
  <2>1. row' = [row EXCEPT ![msg[a]] = a] /\ msg[a] \in MessageIds /\ a # NoRow
    BY <1>2, MessagePathAssumption DEF Stores, Queue!Store, Attempts
  <2>2. Stored' = Stored \cup {msg[a]}
    BY <2>1 DEF Stored
  <2> QED BY <2>1, <2>2
<1>3. UNCHANGED row \/ \E a \in Attempts : Stores(a)
  <2>1. ASSUME NEW a \in Attempts, AttemptStep(a), ~Stores(a) PROVE UNCHANGED row
    BY <2>1 DEF AttemptStep, Breaks, Delivers, Answers, Declines, Handles, Queue!Submit,
                Succeeds, NotStored, Settles, handlerVars
  <2>2. ASSUME NEW r \in Requests, RequestStep(r) PROVE UNCHANGED row
    BY <2>2 DEF RequestStep, Send, Retry, Forward, GivesUp, ClientLeaves, Answers, handlerVars
  <2>3. ASSUME NEW b \in Backends, BackendStep(b) PROVE UNCHANGED row
    BY <2>3 DEF BackendStep, Starts, Learns, Dies, handlerVars
  <2> QED BY <2>1, <2>2, <2>3 DEF Next, vars, handlerVars
<1> QED BY <1>1, <1>2, <1>3

\* The rooms of backends that do not live are empty, and hold nothing that is
\* not stored.
RoomsHonest ==
    \A b \in Backends : /\ room[b] \subseteq Stored
                        /\ b \notin alive => room[b] = {}

LEMMA RoomsStep == IInv /\ RoomsHonest /\ [Next]_vars => RoomsHonest'
<1> SUFFICES ASSUME IInv, RoomsHonest, [Next]_vars PROVE RoomsHonest'
  OBVIOUS
<1> USE AttemptIsCopy, Types DEF IInv
<1>0. Stored \subseteq Stored'
  BY StoredGrows
<1>1. ASSUME UNCHANGED <<alive, room>> PROVE RoomsHonest'
  BY <1>0, <1>1 DEF RoomsHonest
<1>2. ASSUME NEW b \in alive, NEW i \in Stored, room' = [room EXCEPT ![b] = @ \cup {i}],
             alive' = alive
      PROVE  RoomsHonest'
  BY <1>0, <1>2 DEF RoomsHonest
<1>3. ASSUME NEW a \in Attempts, Succeeds(a) PROVE RoomsHonest'
  <2>1. PICK verdict \in {"new", "duplicate"} :
            Settles(a, verdict) /\ room' = [room EXCEPT ![at[a]] = @ \cup Added(a, verdict)]
    BY <1>3 DEF Succeeds
  <2>2. at[a] \in alive /\ alive' = alive /\ Added(a, verdict) = {msg[a]}
    BY <2>1 DEF Settles, Arrived, Added
  <2>3. msg[a] \in Stored
    BY <2>1, MessagePathAssumption DEF Settles, Queue!Verdicts, Attempts, Stored
  <2> QED BY <1>2, <2>1, <2>2, <2>3
<1>4. ASSUME NEW a \in Attempts, AttemptStep(a), ~Succeeds(a) PROVE RoomsHonest'
  <2>1. UNCHANGED <<alive, room>>
    BY <1>4 DEF AttemptStep, Breaks, Delivers, Answers, Declines, Handles, Stores, NotStored,
                Settles, backendVars
  <2> QED BY <1>1, <2>1
<1>5. ASSUME NEW r \in Requests, RequestStep(r) PROVE RoomsHonest'
  <2>1. UNCHANGED <<alive, room>>
    BY <1>5 DEF RequestStep, Send, Retry, Forward, GivesUp, ClientLeaves, Answers, backendVars
  <2> QED BY <1>1, <2>1
<1>6. ASSUME NEW b \in Backends, BackendStep(b) PROVE RoomsHonest'
  <2>1. CASE Starts(b)
    BY <1>0, <2>1 DEF Starts, RoomsHonest
  <2>2. CASE Dies(b)
    BY <1>0, <2>2 DEF Dies, RoomsHonest
  <2>3. ASSUME NEW i \in MessageIds, Learns(b, i) PROVE RoomsHonest'
    BY <1>2, <2>3 DEF Learns
  <2> QED BY <1>6, <2>1, <2>2, <2>3 DEF BackendStep
<1>7. CASE UNCHANGED vars
  BY <1>1, <1>7 DEF vars, backendVars
<1> QED BY <1>3, <1>4, <1>5, <1>6, <1>7 DEF Next

LEMMA StepKeepsRoom ==
    ASSUME IInv, RoomsHonest, RoomsHonest', [Next]_vars, NEW b \in Backends
    PROVE  [RoomOf(b)!Next]_(RoomOf(b)!roomVars)
<1> SUFFICES RoomOf(b)!Next \/ UNCHANGED RoomOf(b)!roomVars
  OBVIOUS
<1> USE AttemptIsCopy, Types DEF IInv
<1>1. ASSUME UNCHANGED row, room'[b] = room[b], (b \in alive') <=> (b \in alive)
      PROVE  UNCHANGED RoomOf(b)!roomVars
  BY <1>1 DEF RoomOf!roomVars, Stored
<1>2. ASSUME UNCHANGED <<alive, room>> PROVE RoomOf(b)!Next \/ UNCHANGED RoomOf(b)!roomVars
  <2>1. CASE Stored' = Stored
    BY <1>2, <2>1 DEF RoomOf!roomVars
  <2>2. ASSUME NEW i \in MessageIds, Stored' = Stored \cup {i} PROVE RoomOf(b)!Store(i)
    BY <1>2, <2>2 DEF RoomOf!Store
  <2> QED BY <2>1, <2>2, StoredGrows DEF RoomOf!Next
<1>3. ASSUME UNCHANGED <<alive, row>>, NEW c \in alive, NEW i \in Stored,
             room' = [room EXCEPT ![c] = @ \cup {i}]
      PROVE  RoomOf(b)!Next \/ UNCHANGED RoomOf(b)!roomVars
  <2>1. Stored' = Stored
    BY <1>3 DEF Stored
  <2>2. CASE c = b
    <3>1. room'[b] = room[b] \cup {i} /\ room[b] \subseteq Stored
      BY <1>3, <2>2 DEF RoomsHonest
    <3>2. RoomOf(b)!Learn
      BY <1>3, <2>1, <2>2, <3>1 DEF RoomOf!Learn
    <3> QED BY <3>2 DEF RoomOf!Next
  <2>3. CASE c # b
    BY <1>1, <1>3, <2>1, <2>3
  <2> QED BY <2>2, <2>3
<1>4. ASSUME NEW a \in Attempts, Succeeds(a)
      PROVE  RoomOf(b)!Next \/ UNCHANGED RoomOf(b)!roomVars
  <2>1. PICK verdict \in {"new", "duplicate"} :
            Settles(a, verdict) /\ room' = [room EXCEPT ![at[a]] = @ \cup Added(a, verdict)]
    BY <1>4 DEF Succeeds
  <2>2. at[a] \in alive /\ UNCHANGED <<alive, row>> /\ Added(a, verdict) = {msg[a]}
    BY <2>1 DEF Settles, Arrived, Added
  <2>3. msg[a] \in Stored
    BY <2>1, MessagePathAssumption DEF Settles, Queue!Verdicts, Attempts, Stored
  <2> QED BY <1>3, <2>1, <2>2, <2>3
<1>5. ASSUME NEW a \in Attempts, AttemptStep(a), ~Succeeds(a) PROVE UNCHANGED <<alive, room>>
  BY <1>5 DEF AttemptStep, Breaks, Delivers, Answers, Declines, Handles, Stores, NotStored,
              Settles, backendVars
<1>6. ASSUME NEW r \in Requests, RequestStep(r) PROVE UNCHANGED <<alive, room>>
  BY <1>6 DEF RequestStep, Send, Retry, Forward, GivesUp, ClientLeaves, Answers, backendVars
<1>7. ASSUME NEW c \in Backends, BackendStep(c)
      PROVE  RoomOf(b)!Next \/ UNCHANGED RoomOf(b)!roomVars
  <2>1. UNCHANGED row /\ Stored' = Stored
    BY <1>7 DEF BackendStep, Starts, Learns, Dies, handlerVars, Stored
  <2>2. CASE Starts(c)
    <3>1. CASE c = b
      <4>1. RoomOf(b)!Load
        BY <2>1, <2>2, <3>1 DEF Starts, RoomOf!Load
      <4> QED BY <4>1 DEF RoomOf!Next
    <3>2. CASE c # b
      BY <1>1, <2>1, <2>2, <3>2 DEF Starts
    <3> QED BY <3>1, <3>2
  <2>3. CASE Dies(c)
    <3>1. CASE c = b
      <4>1. RoomOf(b)!End
        BY <2>1, <2>3, <3>1 DEF Dies, RoomOf!End
      <4> QED BY <4>1 DEF RoomOf!Next
    <3>2. CASE c # b
      BY <1>1, <2>1, <2>3, <3>2 DEF Dies
    <3> QED BY <3>1, <3>2
  <2>4. ASSUME NEW i \in MessageIds, Learns(c, i)
        PROVE  RoomOf(b)!Next \/ UNCHANGED RoomOf(b)!roomVars
    BY <1>3, <2>1, <2>4 DEF Learns
  <2> QED BY <1>7, <2>2, <2>3, <2>4 DEF BackendStep
<1>8. CASE UNCHANGED vars
  BY <1>2, <1>8 DEF vars, backendVars
<1> QED BY <1>2, <1>4, <1>5, <1>6, <1>7, <1>8 DEF Next

\* The feed of each backend, which MessagePath moves by hand, does what Room
\* promises, as FeedSync does: see SyncKeepsRoom.
THEOREM PathKeepsRooms == ASSUME NEW b \in Backends PROVE Spec => RoomOf(b)!Spec
<1>1. Init => RoomOf(b)!Init
  BY DEF Init, RoomOf!Init, Stored
<1>2. Init => RoomsHonest
  BY DEF Init, RoomsHonest
<1>3. IInv /\ RoomsHonest /\ IInv' /\ RoomsHonest' /\ [Next]_vars
         => [RoomOf(b)!Next]_(RoomOf(b)!roomVars)
  BY StepKeepsRoom
<1>4. Spec => [](IInv /\ RoomsHonest)
  BY <1>2, RoomsStep, PathInvariance, PTL DEF Spec
<1> QED BY <1>1, <1>3, <1>4, PTL DEF Spec, RoomOf!Spec
=============================================================================
