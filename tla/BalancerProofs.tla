--------------------------- MODULE BalancerProofs ---------------------------
(***************************************************************************)
(* Proofs about Balancer for any number of backends, any finite set of     *)
(* requests of any kinds, every policy, and any thresholds and bounds.     *)
(***************************************************************************)
EXTENDS Balancer, FiniteSetTheorems, TLAPS

\* The locals of pick(): what it collected, without the backend it excludes,
\* and a candidate as soon as it has compared one.
ScanOk(r) ==
    /\ fallback[r] \subseteq Backends
    /\ pool[r] \subseteq fallback[r]
    /\ Excluded(r) \notin fallback[r]
    /\ best[r] \in fallback[r] \cup {NoBackend}
    /\ ByLoad(r) =>
          \A b \in Candidates(r) : cursor[r] > NumBackends + b => best[r] # NoBackend
    /\ ~ByLoad(r) => cursor[r] <= NumBackends
    /\ pc[r] # "scan" => cursor[r] = 0 /\ fallback[r] = {} /\ best[r] = NoBackend

ScanInv == \A r \in Requests : ScanOk(r)

\* The attempts that have been made when a request is where it is.
TriedOk(r) ==
    /\ pc[r] \in {"idle", "body"} => tried[r] = <<>>
    /\ pc[r] = "scan" =>
          tried[r] = <<>> \/ (Len(tried[r]) = 1 /\ Replayable(r) /\ ~IsUpgrade(r))
    /\ pc[r] = "serving" => tried[r] # <<>>
    /\ pc[r] = "done" <=> reply[r] # "none"

TriedInv == \A r \in Requests : TriedOk(r)

\* What a request has found out about the backends is true: those its scan
\* passed over and the one whose attempt failed have had a fault.
FoundOut(r) ==
    /\ r \in broken => pc[r] = "serving" /\ At(r) \in faulted
    /\ \A b \in Backends :
          pc[r] = "scan" /\ b < cursor[r] /\ b \notin fallback[r] /\ b # Excluded(r)
              => b \in faulted
    /\ tried[r] # <<>> /\ (pc[r] = "scan" \/ Len(tried[r]) = 2)
          => tried[r][1] \in faulted
    /\ reply[r] = "unavailable" => faulted = Backends
    /\ reply[r] = "badGateway" /\ kind[r] \in {"plain", "poll"} =>
          NumBackends = 1 \/ \E a, b \in faulted : a # b

\* Whatever is held against a backend, it has had a fault.
FaultInv ==
    /\ \A b \in Backends : condition[b] # "up" => b \in faulted
    /\ \A b \in Backends : probe[b] = "failed" => b \in faulted
    /\ \A r \in Requests : FoundOut(r)

IInv ==
    /\ TypeOK /\ ScanInv /\ TriedInv /\ OneRetryElsewhere
    /\ FaultInv /\ HealthyStaysInRotation
    /\ FlagFollowsScore /\ InflightExact /\ CountersBalance

-----------------------------------------------------------------------------
(* Small facts.                                                            *)

LEMMA Parameters ==
    /\ NumBackends \in Nat \ {0} /\ FailureThreshold \in Nat \ {0}
    /\ RecoveryThreshold \in Nat \ {0} /\ ScoreMax \in Nat \ {0}
    /\ Threshold \in 0..ScoreMax /\ Hysteresis \in 0..Threshold
    /\ Loads \subseteq 0..ScoreMax /\ InflightReference \in Nat \ {0}
    /\ MaxFaults \in Nat /\ MaxResets \in Nat
    /\ IsFiniteSet(Requests) /\ Kinds \subseteq AllKinds
BY BalancerAssumption

LEMMA BackendNumbers ==
    /\ NoBackend \notin Backends
    /\ \A b \in Backends : b \in Nat /\ b < NumBackends
    /\ \A i \in Nat : i < NumBackends => i \in Backends
BY Parameters DEF Backends, NoBackend

LEMMA Products == \A m, n \in Nat : m * n \in Nat
OBVIOUS

\* The smoothed score stays on the scale.
LEMMA SmoothedOnScale ==
    ASSUME NEW raw \in 0..ScoreMax, NEW old \in 0..ScoreMax
    PROVE  Smoothed(raw, old) \subseteq 0..ScoreMax
<1>1. (9 * raw + 11 * old) \div 20 \in 0..ScoreMax
  BY Parameters
<1>2. (9 * raw + 11 * old + 19) \div 20 \in 0..ScoreMax
  BY Parameters
<1> QED BY <1>1, <1>2 DEF Smoothed

\* instantScore() is a number.
LEMMA InstantScoreIsNatural ==
    ASSUME TypeOK, NEW b \in Backends
    PROVE  InstantScore(b) \in Nat
<1>1. score[b] \in Nat /\ inflight[b] \in Nat
  BY Parameters DEF TypeOK
<1>2. Least(inflight[b], InflightReference) \in Nat
  BY <1>1, Parameters DEF Least
<1>3. 3 * InflightReference \in Nat
  BY Parameters
<1>4. 3 * InflightReference * score[b] \in Nat
  BY <1>1, <1>3, Products
<1>5. ScoreMax * Least(inflight[b], InflightReference) \in Nat
  BY <1>2, Parameters, Products
<1> QED BY <1>4, <1>5 DEF InstantScore

\* The backend of the attempt under way.
LEMMA AttemptAt ==
    ASSUME TypeOK, TriedInv, NEW r \in Requests, pc[r] = "serving"
    PROVE  At(r) \in Backends /\ Len(tried[r]) \in Nat \ {0}
<1>1. tried[r] \in Seq(Backends) /\ tried[r] # <<>>
  BY DEF TypeOK, TriedInv, TriedOk
<1> QED BY <1>1 DEF At

-----------------------------------------------------------------------------
(* In-flight counts.                                                       *)

Serving(b) == {r \in Requests : pc[r] = "serving" /\ At(r) = b}

LEMMA ServingFinite ==
    ASSUME NEW b
    PROVE  IsFiniteSet(Serving(b)) /\ Cardinality(Serving(b)) \in Nat
<1>1. Serving(b) \subseteq Requests
  BY DEF Serving
<1>2. IsFiniteSet(Serving(b))
  BY <1>1, FS_Subset, Parameters
<1> QED BY <1>2, FS_CardinalityType

LEMMA ServingCounted ==
    ASSUME TypeOK, TriedInv, InflightExact, NEW r \in Requests, pc[r] = "serving"
    PROVE  inflight[At(r)] \in Nat \ {0}
<1>1. r \in Serving(At(r)) /\ At(r) \in Backends
  BY AttemptAt DEF Serving
<1>2. Cardinality(Serving(At(r))) # 0
  BY <1>1, ServingFinite, FS_EmptySet
<1> QED BY <1>1, <1>2, ServingFinite DEF InflightExact, Serving

-----------------------------------------------------------------------------
(* Types.                                                                  *)

\* The variables that a step of the fault model, of the probers, of a request
\* may change, each with its part of the type.
HealthTypes ==
    /\ alive \in [Backends -> BOOLEAN]
    /\ overloaded \in [Backends -> BOOLEAN]
    /\ okStreak \in [Backends -> 0..RecoveryThreshold]
    /\ failStreak \in [Backends -> 0..FailureThreshold]
    /\ score \in [Backends -> 0..ScoreMax]

RequestTypes ==
    /\ pc \in [Requests -> {"idle", "body", "scan", "serving", "done"}]
    /\ kind \in [Requests -> Kinds]
    /\ cookie \in [Requests -> Backends \cup {NoBackend}]
    /\ tried \in [Requests -> Seq(Backends)]
    /\ setCookie \in [Requests -> Backends \cup {NoBackend}]
    /\ reply \in [Requests -> Replies]

PickTypes ==
    /\ cursor \in [Requests -> 0..(2 * NumBackends)]
    /\ pool \in [Requests -> SUBSET Backends]
    /\ fallback \in [Requests -> SUBSET Backends]
    /\ best \in [Requests -> Backends \cup {NoBackend}]
    /\ bestScore \in [Requests -> Nat]

OtherTypes ==
    /\ inflight \in [Backends -> Nat]
    /\ probe \in [Backends -> {"idle", "asked", "failed", "good"}]
    /\ load \in [Backends -> 0..ScoreMax]
    /\ requests \in Nat /\ succeeded \in Nat /\ failures \in Nat
    /\ abandoned \in Nat /\ retried \in Nat
    /\ condition \in [Backends -> {"up", "stalled", "down"}]
    /\ broken \subseteq Requests
    /\ faulted \subseteq Backends
    /\ faults \in 0..MaxFaults
    /\ resets \in 0..MaxResets

LEMMA TypeParts ==
    HealthTypes' /\ RequestTypes' /\ PickTypes' /\ OtherTypes' => TypeOK'
BY DEF TypeOK, HealthTypes, RequestTypes, PickTypes, OtherTypes

LEMMA TypeHasParts == TypeOK => HealthTypes /\ RequestTypes /\ PickTypes /\ OtherTypes
BY DEF TypeOK, HealthTypes, RequestTypes, PickTypes, OtherTypes

\* A step keeps the types of what it leaves alone.
LEMMA HealthUntouched == TypeOK /\ UNCHANGED health => HealthTypes'
BY DEF TypeOK, HealthTypes, health

LEMMA PickUntouched == TypeOK /\ UNCHANGED picking => PickTypes'
BY DEF TypeOK, PickTypes, picking

LEMMA RecordFailureTypes ==
    ASSUME TypeOK, NEW b \in Backends, RecordFailure(b)
    PROVE  HealthTypes'
<1>1. alive' \in [Backends -> BOOLEAN]
  BY DEF TypeOK, RecordFailure
<1>2. failStreak' \in [Backends -> 0..FailureThreshold]
  BY Parameters DEF TypeOK, RecordFailure, Least
<1>3. okStreak' \in [Backends -> 0..RecoveryThreshold]
  BY Parameters DEF TypeOK, RecordFailure
<1> QED BY <1>1, <1>2, <1>3 DEF TypeOK, RecordFailure, HealthTypes

LEMMA ProbeGoodTypes ==
    ASSUME TypeOK, NEW b \in Backends, ProbeGood(b)
    PROVE  TypeOK'
<1> USE DEF ProbeGood
<1>1. alive' \in [Backends -> BOOLEAN]
  <2>1. PICK x : alive' = [alive EXCEPT ![b] = alive[b] \/ x] 
    OBVIOUS
  <2>2. (alive[b] \/ x) \in BOOLEAN
    OBVIOUS
  <2> QED BY <2>1, <2>2 DEF TypeOK
<1>2. PICK s \in Smoothed(load[b], score[b]) :
         /\ score' = [score EXCEPT ![b] = s]
         /\ \E x : overloaded' = [overloaded EXCEPT ![b] = Over(b, s, x)]
  OBVIOUS
<1>3. score' \in [Backends -> 0..ScoreMax]
  BY <1>2, SmoothedOnScale DEF TypeOK
<1>4. overloaded' \in [Backends -> BOOLEAN]
  <2>1. \A x : Over(b, s, x) \in BOOLEAN
    BY DEF Over
  <2> QED BY <2>1, <1>2 DEF TypeOK
<1>5. /\ okStreak' \in [Backends -> 0..RecoveryThreshold]
      /\ failStreak' \in [Backends -> 0..FailureThreshold]
  <2>1. /\ okStreak \in [Backends -> 0..RecoveryThreshold]
        /\ failStreak \in [Backends -> 0..FailureThreshold]
    BY DEF TypeOK
  <2>2. /\ okStreak' = [okStreak EXCEPT ![b] = Least(okStreak[b] + 1, RecoveryThreshold)]
        /\ failStreak' = [failStreak EXCEPT ![b] = 0]
    OBVIOUS
  <2>3. /\ Least(okStreak[b] + 1, RecoveryThreshold) \in 0..RecoveryThreshold
        /\ 0 \in 0..FailureThreshold
    BY ONLY <2>1, Parameters, b \in Backends DEF Least
  <2> QED BY ONLY <2>1, <2>2, <2>3
<1>6. HealthTypes'
  BY <1>1, <1>3, <1>4, <1>5 DEF HealthTypes
<1>7. RequestTypes' /\ PickTypes'
  BY DEF TypeOK, RequestTypes, PickTypes, requestVars, picking
<1>8. OtherTypes'
  <2>1. /\ probe' = [probe EXCEPT ![b] = "idle"]
        /\ load' = [load EXCEPT ![b] = 0]
        /\ UNCHANGED <<inflight, counters, environment>>
    OBVIOUS
  <2>2. /\ probe' \in [Backends -> {"idle", "asked", "failed", "good"}]
        /\ load' \in [Backends -> 0..ScoreMax]
    BY <2>1, Parameters DEF TypeOK
  <2> HIDE DEF ProbeGood
  <2> QED BY <2>1, <2>2 DEF TypeOK, OtherTypes, counters, environment, surroundings
<1> QED BY <1>6, <1>7, <1>8, TypeParts

LEMMA FreshScanTypes ==
    ASSUME TypeOK, NEW r \in Requests, FreshScan(r)
    PROVE  PickTypes'
BY Parameters DEF TypeOK, FreshScan, PickTypes

LEMMA ReadBackendTypes ==
    ASSUME TypeOK, NEW r \in Requests, ReadBackend(r)
    PROVE  TypeOK'
<1>0. cursor[r] \in 0..(2 * NumBackends) /\ cursor[r] < NumBackends
  BY DEF TypeOK, ReadBackend
<1>1. cursor[r] \in Backends /\ cursor[r] + 1 \in 0..(2 * NumBackends)
  BY <1>0, Parameters DEF Backends
<1>2. PICK read \in SUBSET Backends :
         /\ fallback' = [fallback EXCEPT ![r] = @ \cup read]
         /\ pool' = [pool EXCEPT ![r] = @ \cup {c \in read : Calm(c)}]
         /\ cursor' = [cursor EXCEPT ![r] = @ + 1]
  <2> DEFINE read == IF Usable(r, cursor[r]) THEN {cursor[r]} ELSE {}
  <2>1. read \in SUBSET Backends
    BY <1>1
  <2>2. /\ fallback' = [fallback EXCEPT ![r] = @ \cup read]
        /\ pool' = [pool EXCEPT ![r] = @ \cup {c \in read : Calm(c)}]
        /\ cursor' = [cursor EXCEPT ![r] = @ + 1]
    BY DEF ReadBackend
  <2> HIDE DEF read
  <2> QED BY <2>1, <2>2
<1>3. PickTypes'
  <2>1. UNCHANGED <<best, bestScore>>
    BY DEF ReadBackend
  <2>2. fallback' \in [Requests -> SUBSET Backends] /\ pool' \in [Requests -> SUBSET Backends]
    BY <1>2 DEF TypeOK
  <2> QED BY <1>1, <1>2, <2>1, <2>2 DEF TypeOK, PickTypes
<1>4. HealthTypes' /\ RequestTypes' /\ OtherTypes'
  BY DEF ReadBackend, TypeOK, HealthTypes, RequestTypes, OtherTypes, health, probers, counters,
         environment, surroundings
<1> QED BY <1>3, <1>4, TypeParts

LEMMA CompareBackendTypes ==
    ASSUME TypeOK, NEW r \in Requests, CompareBackend(r)
    PROVE  TypeOK'
<1> USE DEF CompareBackend
<1>1. cursor[r] - NumBackends \in Backends /\ cursor[r] + 1 \in 0..(2 * NumBackends)
  BY Parameters DEF Backends
<1>2. InstantScore(cursor[r] - NumBackends) \in Nat
  BY <1>1, InstantScoreIsNatural
<1>3. PickTypes'
  BY <1>1, <1>2 DEF TypeOK, PickTypes
<1>4. HealthTypes' /\ RequestTypes' /\ OtherTypes'
  BY DEF TypeOK, HealthTypes, RequestTypes, OtherTypes, health, probers, counters,
         environment, surroundings
<1> QED BY <1>3, <1>4, TypeParts

\* The backend that pick() returns.
LEMMA ChoiceIsUsable ==
    ASSUME TypeOK, ScanInv, NEW r \in Requests, pc[r] = "scan",
           cursor[r] = ScanEnd(r), NEW b \in Choices(r)
    PROVE  b \in Backends /\ b \in fallback[r] /\ b # Excluded(r)
<1>1. CASE ByLoad(r)
  <2>1. b = best[r] /\ cursor[r] = 2 * NumBackends
    BY <1>1 DEF Choices, ScanEnd
  <2>2. Candidates(r) # {} /\ Candidates(r) \subseteq Backends
    BY <1>1 DEF ByLoad, Candidates, ScanInv, ScanOk
  <2>3. PICK c \in Candidates(r) : c \in Backends
    BY <2>2
  <2>4. cursor[r] > NumBackends + c
    BY <2>1, <2>3, BackendNumbers, Parameters
  <2>5. best[r] # NoBackend
    BY <1>1, <2>4 DEF ScanInv, ScanOk
  <2> QED BY <2>1, <2>5 DEF ScanInv, ScanOk
<1>2. CASE ~ByLoad(r)
  BY <1>2 DEF Choices, ScanInv, ScanOk
<1> QED BY <1>1, <1>2

\* The request ends.
LEMMA FinishTypes ==
    ASSUME TypeOK, NEW r \in Requests, NEW how \in Replies, Finish(r, how),
           UNCHANGED <<kind, cookie, tried, setCookie>>
    PROVE  RequestTypes'
<1>1. pc' \in [Requests -> {"idle", "body", "scan", "serving", "done"}]
  BY DEF TypeOK, Finish
<1>2. reply' \in [Requests -> Replies]
  BY DEF TypeOK, Finish
<1> QED BY <1>1, <1>2 DEF TypeOK, RequestTypes

\* The attempt ends.
LEMMA LeaveTypes ==
    ASSUME TypeOK, TriedInv, InflightExact, NEW r \in Requests, pc[r] = "serving",
           Leave(r)
    PROVE  inflight' \in [Backends -> Nat] /\ broken' \subseteq Requests
<1>1. inflight[At(r)] - 1 \in Nat /\ At(r) \in Backends
  BY ServingCounted, AttemptAt
<1> QED BY <1>1 DEF Leave, TypeOK

\* The attempt begins.
LEMMA ServeTypes ==
    ASSUME TypeOK, NEW r \in Requests, NEW b \in Backends, Serve(r, b)
    PROVE  /\ pc' \in [Requests -> {"idle", "body", "scan", "serving", "done"}]
           /\ tried' \in [Requests -> Seq(Backends)]
           /\ inflight' \in [Backends -> Nat]
<1>1. pc' \in [Requests -> {"idle", "body", "scan", "serving", "done"}]
  BY DEF TypeOK, Serve
<1>2. tried' \in [Requests -> Seq(Backends)]
  <2>1. Append(tried[r], b) \in Seq(Backends)
    BY DEF TypeOK
  <2> QED BY <2>1 DEF TypeOK, Serve
<1>3. inflight' \in [Backends -> Nat]
  <2>1. inflight \in [Backends -> Nat]
    BY DEF TypeOK
  <2>2. inflight' = [inflight EXCEPT ![b] = @ + 1]
    BY DEF Serve
  <2> QED BY ONLY <2>1, <2>2
<1> QED BY <1>1, <1>2, <1>3

\* What the actions are made of, other than the variables they leave alone.
LEMMA TypeStep ==
    ASSUME TypeOK, ScanInv, TriedInv, InflightExact, [Next]_vars
    PROVE  TypeOK'
<1>0. HealthTypes' /\ RequestTypes' /\ PickTypes' /\ OtherTypes' => TypeOK'
  BY TypeParts
<1>1. ASSUME NEW r \in Requests, RequestStep(r)  PROVE TypeOK'
  <2>1. CASE RoutePinned(r)
    <3>1. cookie[r] \in Backends /\ Serve(r, cookie[r])
      BY <2>1 DEF RoutePinned, Pinned
    <3>2. HealthTypes' /\ PickTypes'
      BY <2>1, HealthUntouched, PickUntouched DEF RoutePinned
    <3>3. RequestTypes'
      BY <2>1, <3>1, ServeTypes DEF RoutePinned, TypeOK, RequestTypes
    <3>4. OtherTypes'
      BY <2>1, <3>1, ServeTypes, TypeHasParts
         DEF RoutePinned, OtherTypes, probers, counters, environment, surroundings
    <3> QED BY <1>0, <3>2, <3>3, <3>4
  <2>2. CASE RouteFree(r)
    <3>1. HealthTypes' /\ PickTypes'
      BY <2>2, HealthUntouched, PickUntouched DEF RouteFree
    <3>2. RequestTypes'
      BY <2>2 DEF RouteFree, TypeOK, RequestTypes
    <3>3. OtherTypes'
      BY <2>2, TypeHasParts
         DEF RouteFree, OtherTypes, probers, counters, environment, surroundings
    <3> QED BY <1>0, <3>1, <3>2, <3>3
  <2>3. CASE ReadBackend(r)
    BY <2>3, ReadBackendTypes
  <2>4. CASE CompareBackend(r)
    BY <2>4, CompareBackendTypes
  <2>5. CASE Dispatch(r)
    <3>1. PICK b \in Choices(r) :
             /\ Serve(r, b)
             /\ setCookie' = [setCookie EXCEPT ![r] =
                                 IF IsSocketIO(r) /\ tried[r] = <<>> THEN b ELSE @]
      BY <2>5 DEF Dispatch
    <3>2. b \in Backends
      BY <2>5, <3>1, ChoiceIsUsable DEF Dispatch
    <3>3. HealthTypes' /\ PickTypes'
      BY <2>5, HealthUntouched, FreshScanTypes DEF Dispatch
    <3>4. RequestTypes'
      <4>1. setCookie' \in [Requests -> Backends \cup {NoBackend}]
        BY <3>1, <3>2 DEF TypeOK
      <4> QED BY <2>5, <3>1, <3>2, <4>1, ServeTypes DEF Dispatch, TypeOK, RequestTypes
    <3>5. OtherTypes'
      <4>1. retried' \in Nat
        BY <2>5, TypeHasParts DEF Dispatch, OtherTypes
      <4> QED BY <2>5, <3>1, <3>2, <4>1, ServeTypes, TypeHasParts
              DEF Dispatch, OtherTypes, probers, environment, surroundings
    <3> QED BY <1>0, <3>3, <3>4, <3>5
  <2>6. CASE NoBackendLeft(r)
    <3>1. HealthTypes' /\ PickTypes'
      BY <2>6, HealthUntouched, FreshScanTypes DEF NoBackendLeft
    <3>2. RequestTypes'
      BY <2>6, FinishTypes DEF NoBackendLeft, Refuse, Replies
    <3>3. OtherTypes'
      BY <2>6, TypeHasParts
         DEF NoBackendLeft, Refuse, OtherTypes, probers, environment, surroundings
    <3> QED BY <1>0, <3>1, <3>2, <3>3
  <2>7. CASE AttemptAnswered(r)
    <3>1. HealthTypes' /\ PickTypes'
      BY <2>7, HealthUntouched, PickUntouched DEF AttemptAnswered
    <3>2. RequestTypes'
      BY <2>7, FinishTypes DEF AttemptAnswered, Replies
    <3>3. succeeded' \in Nat /\ failures' \in Nat
      BY <2>7, TypeHasParts DEF AttemptAnswered, OtherTypes
    <3>4. OtherTypes'
      BY <2>7, <3>3, LeaveTypes, TypeHasParts
         DEF AttemptAnswered, OtherTypes, probers, surroundings
    <3> QED BY <1>0, <3>1, <3>2, <3>4
  <2>8. CASE AttemptFailed(r)
    <3>1. HealthTypes'
      BY <2>8, AttemptAt, RecordFailureTypes DEF AttemptFailed
    <3>2. PickTypes'
      BY <2>8, PickUntouched DEF AttemptFailed
    <3>3. RequestTypes'
      <4>1. CASE Retryable(r)
        BY <2>8, <4>1 DEF AttemptFailed, TypeOK, RequestTypes
      <4>2. CASE ~Retryable(r)
        BY <2>8, <4>2, FinishTypes DEF AttemptFailed, Replies
      <4> QED BY <4>1, <4>2
    <3>4. failures' \in Nat
      BY <2>8, TypeHasParts DEF AttemptFailed, OtherTypes
    <3>5. OtherTypes'
      BY <2>8, <3>4, LeaveTypes, TypeHasParts
         DEF AttemptFailed, OtherTypes, probers, surroundings
    <3> QED BY <1>0, <3>1, <3>2, <3>3, <3>5
  <2> QED BY <1>1, <2>1, <2>2, <2>3, <2>4, <2>5, <2>6, <2>7, <2>8 DEF RequestStep
<1>2. ASSUME NEW r \in Requests, ClientStep(r)  PROVE TypeOK'
  <2>0. HealthTypes' /\ PickTypes'
    BY <1>2, HealthUntouched, PickUntouched
       DEF ClientStep, Arrive, BodyFails, ClientGaveUp, SessionEnds, ResponseCut
  <2>1. CASE Arrive(r)
    <3>1. RequestTypes'
      BY <2>1 DEF Arrive, TypeOK, RequestTypes
    <3>2. OtherTypes'
      BY <2>1, TypeHasParts DEF Arrive, OtherTypes, probers, environment, surroundings
    <3> QED BY <1>0, <2>0, <3>1, <3>2
  <2>2. CASE BodyFails(r)
    <3>1. RequestTypes'
      BY <2>2, FinishTypes DEF BodyFails, Refuse, Replies
    <3>2. OtherTypes'
      BY <2>2, TypeHasParts
         DEF BodyFails, Refuse, OtherTypes, probers, environment, surroundings
    <3> QED BY <1>0, <2>0, <3>1, <3>2
  <2>3. CASE ClientGaveUp(r)
    <3>1. RequestTypes'
      BY <2>3, FinishTypes DEF ClientGaveUp, Replies
    <3>2. OtherTypes'
      BY <2>3, LeaveTypes, TypeHasParts DEF ClientGaveUp, OtherTypes, probers, surroundings
    <3> QED BY <1>0, <2>0, <3>1, <3>2
  <2>4. CASE SessionEnds(r)
    <3>1. RequestTypes'
      BY <2>4, FinishTypes DEF SessionEnds, Replies
    <3>2. OtherTypes'
      BY <2>4, LeaveTypes, TypeHasParts DEF SessionEnds, OtherTypes, probers, surroundings
    <3> QED BY <1>0, <2>0, <3>1, <3>2
  <2>5. CASE ResponseCut(r)
    <3>1. RequestTypes'
      BY <2>5, FinishTypes DEF ResponseCut, Replies
    <3>2. OtherTypes'
      BY <2>5, LeaveTypes, TypeHasParts
         DEF ResponseCut, OtherTypes, probers, counters, surroundings
    <3> QED BY <1>0, <2>0, <3>1, <3>2
  <2> QED BY <1>2, <2>1, <2>2, <2>3, <2>4, <2>5 DEF ClientStep
<1>3. ASSUME NEW b \in Backends, ProberStep(b)  PROVE TypeOK'
  <2>1. CASE ProbeAnswered(b)
    <3>1. HealthTypes' /\ PickTypes' /\ RequestTypes'
      BY <2>1, HealthUntouched, PickUntouched DEF ProbeAnswered, requestVars, TypeOK, RequestTypes
    <3>2. probe' \in [Backends -> {"idle", "asked", "failed", "good"}]
      <4>1. probe \in [Backends -> {"idle", "asked", "failed", "good"}]
        BY DEF TypeOK
      <4>2. \E answer \in {"failed", "good"} : probe' = [probe EXCEPT ![b] = answer]
        BY <2>1 DEF ProbeAnswered
      <4> QED BY ONLY <4>1, <4>2
    <3>3. load' \in [Backends -> 0..ScoreMax]
      BY <2>1, Parameters DEF ProbeAnswered, TypeOK
    <3>4. OtherTypes'
      BY <2>1, <3>2, <3>3, TypeHasParts
         DEF ProbeAnswered, OtherTypes, counters, environment, surroundings
    <3> QED BY <1>0, <3>1, <3>4
  <2>2. CASE ProbeFailed(b)
    <3>1. HealthTypes'
      BY <2>2, RecordFailureTypes DEF ProbeFailed
    <3>2. PickTypes' /\ RequestTypes'
      BY <2>2, PickUntouched DEF ProbeFailed, requestVars, TypeOK, RequestTypes
    <3>3. OtherTypes'
      BY <2>2, TypeHasParts
         DEF ProbeFailed, OtherTypes, counters, environment, surroundings
    <3> QED BY <1>0, <3>1, <3>2, <3>3
  <2>3. CASE ProbeGood(b)
    BY <2>3, ProbeGoodTypes
  <2> QED BY <1>3, <2>1, <2>2, <2>3 DEF ProberStep
<1>4. ASSUME NEW b \in Backends, Crash(b) \/ Stall(b) \/ Recover(b)  PROVE TypeOK'
  <2>1. HealthTypes' /\ PickTypes' /\ RequestTypes'
    BY <1>4, HealthUntouched, PickUntouched
       DEF Crash, Stall, Recover, requestVars, TypeOK, RequestTypes
  <2>2. /\ condition' \in [Backends -> {"up", "stalled", "down"}]
        /\ UNCHANGED <<inflight, probers, counters, resets>>
    BY <1>4 DEF Crash, Stall, Recover, TypeOK
  <2>3. faulted' \subseteq Backends /\ faults' \in 0..MaxFaults
    <3>1. faulted \subseteq Backends /\ faults \in 0..MaxFaults /\ MaxFaults \in Nat
      BY Parameters DEF TypeOK
    <3>2. \/ UNCHANGED <<faulted, faults>>
          \/ faults < MaxFaults /\ faults' = faults + 1 /\ faulted' = faulted \cup {b}
      BY <1>4 DEF Crash, Stall, Recover, Fault
    <3>3. faulted' \subseteq Backends
      BY <3>1, <3>2
    <3>4. faults' \in 0..MaxFaults
      BY ONLY <3>1, <3>2
    <3> QED BY <3>3, <3>4
  <2>4. broken' \subseteq Requests
    BY <1>4 DEF Crash, Stall, Recover, TypeOK
  <2>5. OtherTypes'
    BY <2>2, <2>3, <2>4, TypeHasParts DEF OtherTypes, probers, counters
  <2> QED BY <1>0, <2>1, <2>5
<1>5. CASE ProbeTick
  <2>1. HealthTypes' /\ PickTypes' /\ RequestTypes'
    BY <1>5, HealthUntouched, PickUntouched DEF ProbeTick, requestVars, TypeOK, RequestTypes
  <2>2. OtherTypes'
    BY <1>5, TypeHasParts DEF ProbeTick, OtherTypes, counters, environment, surroundings
  <2> QED BY <1>0, <2>1, <2>2
<1>6. CASE Reset
  <2>1. HealthTypes' /\ PickTypes' /\ RequestTypes'
    BY <1>6, HealthUntouched, PickUntouched DEF Reset, requestVars, TypeOK, RequestTypes
  <2>2. OtherTypes'
    BY <1>6, TypeHasParts, Parameters DEF Reset, OtherTypes, probers
  <2> QED BY <1>0, <2>1, <2>2
<1>7. CASE UNCHANGED vars
  BY <1>7 DEF vars, health, probers, requestVars, picking, counters, environment,
              surroundings, TypeOK
<1> QED BY <1>1, <1>2, <1>3, <1>4, <1>5, <1>6, <1>7 DEF Next

-----------------------------------------------------------------------------
(* What a step leaves alone.                                               *)

Same(q) ==
    /\ pc'[q] = pc[q] /\ kind'[q] = kind[q] /\ cookie'[q] = cookie[q]
    /\ cursor'[q] = cursor[q] /\ pool'[q] = pool[q] /\ fallback'[q] = fallback[q]
    /\ best'[q] = best[q] /\ bestScore'[q] = bestScore[q] /\ tried'[q] = tried[q]
    /\ setCookie'[q] = setCookie[q] /\ reply'[q] = reply[q]

\* A request's steps leave the other requests alone.
LEMMA OthersUntouched ==
    ASSUME TypeOK, NEW r \in Requests, RequestStep(r) \/ ClientStep(r),
           NEW q \in Requests, q # r
    PROVE  Same(q)
<1> USE DEF TypeOK, Same, picking
<1>1. CASE RoutePinned(r)
  BY <1>1 DEF RoutePinned, Serve
<1>2. CASE RouteFree(r)
  BY <1>2 DEF RouteFree
<1>3. CASE ReadBackend(r)
  BY <1>3 DEF ReadBackend
<1>4. CASE CompareBackend(r)
  BY <1>4 DEF CompareBackend
<1>5. CASE Dispatch(r)
  <2>1. FreshScan(r) /\ UNCHANGED <<kind, cookie, reply>>
    BY <1>5 DEF Dispatch
  <2>2. PICK b, c : Serve(r, b) /\ setCookie' = [setCookie EXCEPT ![r] = c]
    BY <1>5 DEF Dispatch
  <2>3. /\ cursor'[q] = cursor[q] /\ pool'[q] = pool[q] /\ fallback'[q] = fallback[q]
        /\ best'[q] = best[q] /\ bestScore'[q] = bestScore[q]
    BY <2>1 DEF FreshScan
  <2>4. pc'[q] = pc[q] /\ tried'[q] = tried[q] /\ setCookie'[q] = setCookie[q]
    BY <2>2 DEF Serve
  <2> QED BY <2>1, <2>3, <2>4
<1>6. CASE NoBackendLeft(r)
  BY <1>6 DEF NoBackendLeft, Refuse, Finish, FreshScan
<1>7. CASE AttemptAnswered(r)
  BY <1>7 DEF AttemptAnswered, Finish
<1>8. CASE AttemptFailed(r)
  BY <1>8 DEF AttemptFailed, Finish
<1>9. CASE ClientStep(r)
  BY <1>9 DEF ClientStep, Arrive, BodyFails, ClientGaveUp, SessionEnds, ResponseCut, Refuse,
              Finish
<1> QED BY <1>1, <1>2, <1>3, <1>4, <1>5, <1>6, <1>7, <1>8, <1>9 DEF RequestStep

\* A step is one of a request, or leaves every request alone.
LEMMA WhoSteps ==
    ASSUME [Next]_vars
    PROVE  \/ \E r \in Requests : RequestStep(r) \/ ClientStep(r)
           \/ \A q \in Requests : Same(q)
<1>1. CASE \E b \in Backends : ProberStep(b) \/ Crash(b) \/ Stall(b) \/ Recover(b)
  BY <1>1 DEF ProberStep, ProbeAnswered, ProbeFailed, ProbeGood, Crash, Stall, Recover,
              requestVars, picking, Same
<1>2. CASE ProbeTick \/ Reset \/ UNCHANGED vars
  BY <1>2 DEF ProbeTick, Reset, vars, requestVars, picking, Same
<1> QED BY <1>1, <1>2 DEF Next

-----------------------------------------------------------------------------
(* pick().                                                                 *)

LEMMA SameScan ==
    ASSUME NEW q \in Requests, ScanOk(q), Same(q)
    PROVE  ScanOk(q)'
BY DEF ScanOk, Same, Excluded, ByLoad, Candidates

\* A request that ends up outside pick() with its locals cleared.
LEMMA OutsideScan ==
    ASSUME NEW r \in Requests, cursor'[r] = 0, pool'[r] = {}, fallback'[r] = {},
           best'[r] = NoBackend
    PROVE  ScanOk(r)'
BY Parameters, BackendNumbers DEF ScanOk, ByLoad, Candidates

LEMMA ScanStep ==
    ASSUME TypeOK, ScanInv, [Next]_vars
    PROVE  ScanInv'
<1>1. ASSUME NEW r \in Requests, RequestStep(r) \/ ClientStep(r)
      PROVE  ScanOk(r)'
  <2>0. ScanOk(r)
    BY DEF ScanInv
  <2>1. ASSUME pc[r] # "scan", UNCHANGED picking  PROVE ScanOk(r)'
    <3>1. cursor[r] = 0 /\ pool[r] = {} /\ fallback[r] = {} /\ best[r] = NoBackend
      BY <2>0, <2>1 DEF ScanOk
    <3> QED BY <2>1, <3>1, OutsideScan DEF picking
  <2>2. CASE ReadBackend(r)
    <3> DEFINE b == cursor[r]
               read == IF Usable(r, b) THEN {b} ELSE {}
    <3>0. b \in 0..(2 * NumBackends) /\ b < NumBackends /\ cursor'[r] = b + 1
      BY <2>2 DEF ReadBackend, TypeOK
    <3>1. b \in Backends /\ cursor'[r] = b + 1
      BY <3>0, Parameters DEF Backends
    <3>2. /\ fallback'[r] = fallback[r] \cup read
          /\ pool'[r] = pool[r] \cup {c \in read : Calm(c)}
          /\ best'[r] = best[r] /\ tried'[r] = tried[r] /\ pc'[r] = "scan"
      BY <2>2 DEF ReadBackend, TypeOK
    <3>3. read \subseteq Backends /\ Excluded(r) \notin read
      BY <3>1 DEF Usable
    <3>4. cursor'[r] <= NumBackends
      BY <3>1, Parameters DEF Backends
    <3>5. \A c \in Backends : ~(cursor'[r] > NumBackends + c)
      BY <3>1, BackendNumbers, Parameters
    <3>6. Candidates(r)' \subseteq Backends
      BY <2>0, <3>2, <3>3 DEF ScanOk, Candidates
    <3>7. fallback'[r] \subseteq Backends /\ pool'[r] \subseteq fallback'[r]
      BY <2>0, <3>2, <3>3 DEF ScanOk
    <3>8. Excluded(r)' \notin fallback'[r] /\ best'[r] \in fallback'[r] \cup {NoBackend}
      BY <2>0, <3>2, <3>3 DEF ScanOk, Excluded
    <3> QED BY <3>2, <3>4, <3>5, <3>6, <3>7, <3>8 DEF ScanOk
  <2>3. CASE CompareBackend(r)
    <3> DEFINE b == cursor[r] - NumBackends
               better == /\ b \in Candidates(r)
                         /\ best[r] = NoBackend \/ InstantScore(b) < bestScore[r]
    <3>0. /\ cursor[r] \in NumBackends..(2 * NumBackends - 1)
          /\ cursor'[r] = cursor[r] + 1
      BY <2>3 DEF CompareBackend, TypeOK
    <3>1. /\ b \in Backends /\ cursor'[r] = cursor[r] + 1 /\ cursor[r] = NumBackends + b
          /\ cursor[r] \in Nat
      BY <3>0, Parameters DEF Backends
    <3>2. /\ best'[r] = IF better THEN b ELSE best[r]
          /\ fallback'[r] = fallback[r] /\ pool'[r] = pool[r] /\ pc'[r] = "scan"
          /\ tried'[r] = tried[r]
      BY <2>3 DEF CompareBackend, TypeOK
    <3>3. ByLoad(r) /\ ByLoad(r)' /\ Candidates(r)' = Candidates(r)
      BY <2>3, <3>2 DEF CompareBackend, ByLoad, Candidates
    <3>4. Candidates(r) \subseteq fallback[r] /\ fallback[r] \subseteq Backends
      BY <2>0 DEF Candidates, ScanOk
    <3>5. best'[r] \in fallback[r] \cup {NoBackend}
      BY <2>0, <3>2, <3>4 DEF ScanOk
    <3>6. ASSUME NEW c \in Candidates(r), cursor'[r] > NumBackends + c
          PROVE  best'[r] # NoBackend
      <4>1. c \in Nat /\ c <= b
        BY <3>1, <3>4, <3>6, BackendNumbers, Parameters
      <4>2. CASE c = b
        BY <3>1, <3>2, <4>2, BackendNumbers
      <4>3. CASE c # b
        <5>1. cursor[r] > NumBackends + c
          BY <3>1, <4>1, <4>3, Parameters, BackendNumbers
        <5>2. best[r] # NoBackend
          BY <2>0, <3>3, <5>1 DEF ScanOk
        <5> QED BY <3>1, <3>2, <5>2, BackendNumbers
      <4> QED BY <4>2, <4>3
    <3>7. Excluded(r)' \notin fallback'[r]
      BY <2>0, <3>2 DEF ScanOk, Excluded
    <3> QED BY <2>0, <3>2, <3>3, <3>5, <3>6, <3>7 DEF ScanOk
  <2>4. CASE Dispatch(r) \/ NoBackendLeft(r)
    BY <2>4, OutsideScan DEF Dispatch, NoBackendLeft, FreshScan, TypeOK
  <2>5. CASE RoutePinned(r) \/ RouteFree(r) \/ AttemptAnswered(r) \/ AttemptFailed(r)
    BY <2>1, <2>5 DEF RoutePinned, RouteFree, AttemptAnswered, AttemptFailed
  <2>6. CASE ClientStep(r)
    BY <2>1, <2>6 DEF ClientStep, Arrive, BodyFails, ClientGaveUp, SessionEnds, ResponseCut
  <2> QED BY <1>1, <2>2, <2>3, <2>4, <2>5, <2>6 DEF RequestStep
<1>2. ASSUME NEW q \in Requests, Same(q)  PROVE ScanOk(q)'
  BY <1>2, SameScan DEF ScanInv
<1> QED BY <1>1, <1>2, WhoSteps, OthersUntouched DEF ScanInv

-----------------------------------------------------------------------------
(* Attempts.                                                               *)

RetryOk(r) ==
    \/ Len(tried[r]) < 2
    \/ /\ Len(tried[r]) = 2
       /\ tried[r][1] # tried[r][2]
       /\ kind[r] \in {"plain", "poll"}

LEMMA SameTried ==
    ASSUME NEW q \in Requests, Same(q)
    PROVE  (TriedOk(q) => TriedOk(q)') /\ (RetryOk(q) => RetryOk(q)')
BY DEF TriedOk, RetryOk, Same, Replayable, Announced, BytesRead, BodyLength, Least, IsUpgrade

LEMMA TriedStep ==
    ASSUME TypeOK, ScanInv, TriedInv, OneRetryElsewhere, [Next]_vars
    PROVE  TriedInv' /\ OneRetryElsewhere'
<1>1. ASSUME NEW r \in Requests, RequestStep(r) \/ ClientStep(r)
      PROVE  TriedOk(r)' /\ RetryOk(r)'
  <2>0. TriedOk(r) /\ RetryOk(r) /\ tried[r] \in Seq(Backends) /\ kind'[r] = kind[r]
    <3>1. UNCHANGED kind
      BY <1>1 DEF RequestStep, ClientStep, RoutePinned, RouteFree, ReadBackend, CompareBackend,
           Dispatch, NoBackendLeft, AttemptAnswered, AttemptFailed, Arrive, BodyFails,
           ClientGaveUp, SessionEnds, ResponseCut
    <3> QED BY <3>1 DEF TriedInv, OneRetryElsewhere, RetryOk, TypeOK
  <2>1. ASSUME NEW b \in Backends, tried[r] = <<>>, Serve(r, b), reply'[r] = reply[r],
               pc[r] # "done"
        PROVE  TriedOk(r)' /\ RetryOk(r)'
    <3>1. tried'[r] = <<b>> /\ pc'[r] = "serving"
      BY <2>1 DEF Serve, TypeOK
    <3> QED BY <2>0, <2>1, <3>1 DEF TriedOk, RetryOk
  <2>2. CASE RoutePinned(r)
    <3>1. cookie[r] \in Backends /\ tried[r] = <<>> /\ Serve(r, cookie[r])
      BY <2>0, <2>2 DEF RoutePinned, Pinned, TriedOk
    <3> QED BY <2>1, <2>2, <3>1 DEF RoutePinned
  <2>3. CASE RouteFree(r)
    <3>1. pc'[r] = "scan" /\ tried'[r] = <<>> /\ reply'[r] = "none"
      BY <2>0, <2>3 DEF RouteFree, TypeOK, TriedOk
    <3> QED BY <3>1 DEF TriedOk, RetryOk
  <2>4. CASE ReadBackend(r) \/ CompareBackend(r)
    <3>1. pc' = pc /\ tried' = tried /\ reply' = reply /\ kind' = kind
      BY <2>4 DEF ReadBackend, CompareBackend
    <3> QED BY <2>0, <3>1 DEF TriedOk, RetryOk, Replayable, Announced, BytesRead, BodyLength, Least, IsUpgrade
  <2>5. CASE Dispatch(r)
    <3>1. PICK b \in Choices(r) : Serve(r, b)
      BY <2>5 DEF Dispatch
    <3>2. b \in Backends /\ b # Excluded(r) /\ reply'[r] = reply[r] /\ pc[r] = "scan"
      BY <2>5, <3>1, ChoiceIsUsable DEF Dispatch
    <3>3. CASE tried[r] = <<>>
      BY <2>1, <3>1, <3>2, <3>3
    <3>4. CASE tried[r] # <<>>
      <4>1. Len(tried[r]) = 1 /\ Replayable(r) /\ ~IsUpgrade(r)
        BY <2>0, <3>2, <3>4 DEF TriedOk
      <4>2. tried'[r] = Append(tried[r], b) /\ pc'[r] = "serving"
        BY <3>1 DEF Serve, TypeOK
      <4>3. /\ Len(tried'[r]) = 2 /\ tried'[r] # <<>>
            /\ tried'[r][1] = Head(tried[r]) /\ tried'[r][2] = b
        BY <2>0, <3>2, <4>1, <4>2
      <4>4. kind[r] \in {"plain", "poll"}
        <5>1. kind[r] \in AllKinds
          BY Parameters DEF TypeOK
        <5>2. kind[r] \notin {"large", "chunked", "upgrade"}
          BY <4>1 DEF Replayable, Announced, BytesRead, BodyLength, Least, MaxReplayBytes, IsUpgrade
        <5> QED BY <5>1, <5>2 DEF AllKinds
      <4>5. RetryOk(r)'
        BY <2>0, <3>2, <3>4, <4>3, <4>4 DEF RetryOk, Excluded
      <4>6. TriedOk(r)'
        BY <2>0, <3>2, <4>2, <4>3 DEF TriedOk
      <4> QED BY <4>5, <4>6
    <3> QED BY <3>3, <3>4
  <2>6. ASSUME NEW how \in Replies, how # "none", Finish(r, how), tried' = tried
        PROVE  TriedOk(r)' /\ RetryOk(r)'
    <3>1. pc'[r] = "done" /\ reply'[r] = how
      BY <2>6 DEF Finish, TypeOK
    <3> QED BY <2>0, <2>6, <3>1 DEF TriedOk, RetryOk
  <2>7. CASE NoBackendLeft(r)
    BY <2>6, <2>7 DEF NoBackendLeft, Refuse, Replies
  <2>8. CASE AttemptAnswered(r)
    BY <2>6, <2>8 DEF AttemptAnswered, Replies
  <2>9. CASE AttemptFailed(r)
    <3>1. CASE Retryable(r)
      <4>1. pc'[r] = "scan" /\ tried'[r] = tried[r] /\ reply'[r] = "none"
        BY <2>0, <2>9, <3>1 DEF AttemptFailed, TypeOK, TriedOk
      <4> QED BY <2>0, <3>1, <4>1
              DEF TriedOk, RetryOk, Retryable, Replayable, Announced, BytesRead, BodyLength, Least, IsUpgrade
    <3>2. CASE ~Retryable(r)
      BY <2>6, <2>9, <3>2 DEF AttemptFailed, Replies
    <3> QED BY <3>1, <3>2
  <2>10. CASE Arrive(r)
    <3>1. pc'[r] = "body" /\ tried'[r] = <<>> /\ reply'[r] = "none"
      BY <2>0, <2>10 DEF Arrive, TypeOK, TriedOk
    <3> QED BY <3>1 DEF TriedOk, RetryOk
  <2>11. CASE BodyFails(r)
    BY <2>6, <2>11 DEF BodyFails, Refuse, Replies
  <2>12. CASE ClientGaveUp(r)
    BY <2>6, <2>12 DEF ClientGaveUp, Replies
  <2>13. CASE SessionEnds(r)
    BY <2>6, <2>13 DEF SessionEnds, Replies
  <2>14. CASE ResponseCut(r)
    BY <2>6, <2>14 DEF ResponseCut, Replies
  <2> QED BY <1>1, <2>2, <2>3, <2>4, <2>5, <2>7, <2>8, <2>9, <2>10, <2>11, <2>12, <2>13, <2>14
          DEF RequestStep, ClientStep
<1>2. ASSUME NEW q \in Requests, Same(q)  PROVE TriedOk(q)' /\ RetryOk(q)'
  BY <1>2, SameTried DEF TriedInv, OneRetryElsewhere, RetryOk
<1>3. \A q \in Requests : TriedOk(q)' /\ RetryOk(q)'
  BY <1>1, <1>2, WhoSteps, OthersUntouched
<1> QED BY <1>3 DEF TriedInv, OneRetryElsewhere, RetryOk

-----------------------------------------------------------------------------
(* Faults.                                                                 *)

LEMMA FaultedGrows ==
    ASSUME TypeOK, [Next]_vars
    PROVE  faulted \subseteq faulted' /\ faulted' \subseteq Backends
<1> USE DEF TypeOK, environment, surroundings
<1>1. ASSUME NEW r \in Requests, RequestStep(r)  PROVE UNCHANGED faulted
  BY <1>1 DEF RequestStep, RoutePinned, RouteFree, ReadBackend, CompareBackend, Dispatch,
              NoBackendLeft, AttemptAnswered, AttemptFailed
<1>2. ASSUME NEW r \in Requests, ClientStep(r)  PROVE UNCHANGED faulted
  BY <1>2 DEF ClientStep, Arrive, BodyFails, ClientGaveUp, SessionEnds, ResponseCut
<1>3. ASSUME NEW b \in Backends, ProberStep(b) \/ Crash(b) \/ Stall(b) \/ Recover(b)
      PROVE  faulted' = faulted \/ faulted' = faulted \cup {b}
  BY <1>3 DEF ProberStep, ProbeAnswered, ProbeFailed, ProbeGood, Crash, Stall, Recover, Fault
<1>4. ASSUME ProbeTick \/ Reset \/ UNCHANGED vars PROVE UNCHANGED faulted
  BY <1>4 DEF ProbeTick, Reset, vars
<1>5. \/ ProbeTick \/ Reset \/ UNCHANGED vars
      \/ \E r \in Requests : RequestStep(r) \/ ClientStep(r)
      \/ \E b \in Backends : ProberStep(b) \/ Crash(b) \/ Stall(b) \/ Recover(b)
  BY DEF Next
<1>6. UNCHANGED faulted \/ \E b \in Backends : faulted' = faulted \cup {b}
  BY ONLY <1>1, <1>2, <1>3, <1>4, <1>5
<1>7. faulted \subseteq Backends
  OBVIOUS
<1> QED BY ONLY <1>6, <1>7

\* A connection breaks only when its backend dies.
LEMMA BrokenByFault ==
    ASSUME [Next]_vars, NEW q \in broken' \ broken
    PROVE  q \in Requests /\ pc[q] = "serving" /\ At(q) \in faulted'
<1> USE DEF environment, surroundings
<1>1. ASSUME NEW r \in Requests, RequestStep(r)  PROVE broken' \subseteq broken
  BY <1>1 DEF RequestStep, RoutePinned, RouteFree, ReadBackend, CompareBackend, Dispatch,
              NoBackendLeft, AttemptAnswered, AttemptFailed, Leave
<1>2. ASSUME NEW r \in Requests, ClientStep(r)  PROVE broken' \subseteq broken
  BY <1>2 DEF ClientStep, Arrive, BodyFails, ClientGaveUp, SessionEnds, ResponseCut, Leave
<1>3. ASSUME NEW b \in Backends, ProberStep(b) \/ Stall(b) \/ Recover(b)
      PROVE  broken' = broken
  BY <1>3 DEF ProberStep, ProbeAnswered, ProbeFailed, ProbeGood, Stall, Recover
<1>4. CASE ProbeTick \/ Reset \/ UNCHANGED vars
  BY <1>4 DEF ProbeTick, Reset, vars
<1>5. CASE \E b \in Backends : Crash(b)
  BY <1>5 DEF Crash, Fault
<1> QED BY <1>1, <1>2, <1>3, <1>4, <1>5 DEF Next

LEMMA SameFound ==
    ASSUME TypeOK, [Next]_vars, NEW q \in Requests, Same(q), FoundOut(q)
    PROVE  FoundOut(q)'
<1>1. faulted \subseteq faulted' /\ faulted' \subseteq Backends
  BY FaultedGrows
<1>2. q \in broken' => pc[q] = "serving" /\ At(q) \in faulted'
  BY <1>1, BrokenByFault DEF FoundOut
<1>3. Excluded(q)' = Excluded(q) /\ At(q)' = At(q)
  BY DEF Same, Excluded, At
<1> QED BY <1>1, <1>2, <1>3 DEF FoundOut, Same

\* A scan that has passed over every backend.
LEMMA NobodyLeft ==
    ASSUME TypeOK, FaultInv, NEW r \in Requests, pc[r] = "scan", cursor[r] = NumBackends,
           fallback[r] = {}
    PROVE  /\ tried[r] = <<>> => faulted = Backends
           /\ NumBackends = 1 \/ tried[r] = <<>> \/ \E a, b \in faulted : a # b
<1>1. FoundOut(r) /\ faulted \subseteq Backends
  BY DEF FaultInv, TypeOK
<1>2. \A b \in Backends : b # Excluded(r) => b \in faulted
  BY <1>1, BackendNumbers DEF FoundOut
<1>3. CASE tried[r] = <<>>
  <2>1. \A b \in Backends : b \in faulted
    BY <1>2, <1>3, BackendNumbers DEF Excluded
  <2> QED BY <1>1, <1>3, <2>1
<1>4. CASE tried[r] # <<>> /\ NumBackends # 1
  <2>1. Excluded(r) = tried[r][1] /\ tried[r][1] \in faulted
    BY <1>1, <1>4 DEF Excluded, FoundOut, TypeOK
  <2>2. 0 \in Backends /\ 1 \in Backends
    BY <1>4, BackendNumbers, Parameters
  <2>3. PICK c \in Backends : c # tried[r][1]
    BY <2>2
  <2> QED BY <1>2, <1>4, <2>1, <2>3
<1> QED BY <1>3, <1>4

LEMMA FoundStep ==
    ASSUME TypeOK, ScanInv, TriedInv, OneRetryElsewhere, FaultInv, HealthyStaysInRotation,
           [Next]_vars, NEW r \in Requests, RequestStep(r) \/ ClientStep(r)
    PROVE  FoundOut(r)'
<1>0. FoundOut(r) /\ ScanOk(r) /\ TriedOk(r) /\ tried[r] \in Seq(Backends) /\ RetryOk(r)
  BY DEF FaultInv, ScanInv, TriedInv, TypeOK, OneRetryElsewhere, RetryOk
<1>1. faulted \subseteq faulted' /\ faulted' \subseteq Backends
  BY FaultedGrows
<1>2. pc[r] # "serving" => r \notin broken'
  BY <1>0, BrokenByFault DEF FoundOut
\* What holds of r in every step that brings it out of pick() with no new news.
<1>3. ASSUME pc'[r] # "scan", r \notin broken', Len(tried'[r]) # 2 \/ tried'[r] = tried[r],
             reply'[r] \notin {"unavailable", "badGateway"}
      PROVE  FoundOut(r)'
  <2>1. ASSUME tried'[r] # <<>>, Len(tried'[r]) = 2  PROVE tried'[r][1] \in faulted'
    BY <1>0, <1>1, <1>3, <2>1 DEF FoundOut
  <2> QED BY <1>3, <2>1 DEF FoundOut
<1>4. CASE RoutePinned(r)
  <2>1. pc[r] = "body" /\ tried[r] = <<>> /\ reply'[r] = "none" /\ cookie[r] \in Backends
    BY <1>0, <1>4 DEF RoutePinned, TriedOk, Pinned
  <2>2. pc'[r] = "serving" /\ tried'[r] = <<cookie[r]>>
    BY <1>4, <2>1 DEF RoutePinned, Serve, TypeOK
  <2>3. Len(tried'[r]) # 2
    BY <2>2
  <2> QED BY <1>2, <1>3, <2>1, <2>2, <2>3
<1>5. CASE RouteFree(r)
  <2>1. /\ pc[r] = "body" /\ tried'[r] = <<>> /\ reply'[r] = "none"
        /\ cursor'[r] = 0
    BY <1>0, <1>5 DEF RouteFree, TriedOk, ScanOk, picking
  <2> QED BY <1>2, <2>1, BackendNumbers DEF FoundOut
<1>6. CASE ReadBackend(r)
  <2> DEFINE c == cursor[r]
             read == IF Usable(r, c) THEN {c} ELSE {}
  <2>1. /\ pc[r] = "scan" /\ pc'[r] = "scan" /\ cursor'[r] = c + 1
        /\ tried'[r] = tried[r] /\ reply'[r] = reply[r]
        /\ fallback'[r] = fallback[r] \cup read
    BY <1>6 DEF ReadBackend, TypeOK
  <2>2. reply[r] = "none" /\ Excluded(r)' = Excluded(r)
    BY <1>0, <2>1 DEF TriedOk, Excluded
  <2>3. ASSUME NEW b \in Backends, b < cursor'[r], b \notin fallback'[r], b # Excluded(r)
        PROVE  b \in faulted
    <3>1. b \in Nat /\ c \in Nat
      BY BackendNumbers, Parameters DEF TypeOK
    <3>2. CASE b = c
      <4>1. ~alive[b]
        BY <2>1, <2>3, <3>2 DEF Usable
      <4> QED BY <4>1 DEF HealthyStaysInRotation
    <3>3. CASE b # c
      <4>1. b < c
        BY <2>1, <2>3, <3>1, <3>3
      <4> QED BY <1>0, <2>1, <2>3, <4>1 DEF FoundOut
    <3> QED BY <3>2, <3>3
  <2>4. tried[r] # <<>> => tried[r][1] \in faulted
    BY <1>0, <2>1 DEF FoundOut
  <2> QED BY <1>1, <1>2, <2>1, <2>2, <2>3, <2>4 DEF FoundOut
<1>7. CASE CompareBackend(r)
  <2>1. /\ pc[r] = "scan" /\ pc'[r] = "scan" /\ cursor[r] \in Nat /\ cursor[r] >= NumBackends
        /\ tried'[r] = tried[r] /\ reply'[r] = reply[r] /\ fallback'[r] = fallback[r]
    BY <1>7, Parameters DEF CompareBackend, TypeOK
  <2>2. reply[r] = "none" /\ Excluded(r)' = Excluded(r)
    BY <1>0, <2>1 DEF TriedOk, Excluded
  <2>3. \A b \in Backends : b < cursor[r]
    BY <2>1, BackendNumbers, Parameters
  <2> QED BY <1>0, <1>1, <1>2, <2>1, <2>2, <2>3 DEF FoundOut
<1>8. CASE Dispatch(r)
  <2>1. PICK b \in Choices(r) : Serve(r, b)
    BY <1>8 DEF Dispatch
  <2>2. b \in Backends /\ pc[r] = "scan" /\ reply'[r] = reply[r]
    BY <1>8, <2>1, ChoiceIsUsable DEF Dispatch
  <2>3. reply[r] = "none" /\ tried'[r] = Append(tried[r], b) /\ pc'[r] = "serving"
    BY <1>0, <2>1, <2>2 DEF TriedOk, Serve, TypeOK
  <2>4. CASE tried[r] = <<>>
    <3>1. Len(tried'[r]) # 2
      BY <2>3, <2>4
    <3> QED BY <1>2, <1>3, <2>2, <2>3, <3>1
  <2>5. CASE tried[r] # <<>>
    <3>1. tried'[r][1] = tried[r][1] /\ tried[r][1] \in faulted
      BY <1>0, <2>2, <2>3, <2>5 DEF FoundOut
    <3> QED BY <1>1, <1>2, <2>2, <2>3, <3>1 DEF FoundOut
  <2> QED BY <2>4, <2>5
<1>9. CASE NoBackendLeft(r)
  <2>1. /\ pc[r] = "scan" /\ cursor[r] = NumBackends /\ fallback[r] = {} /\ tried' = tried
        /\ pc'[r] = "done"
        /\ reply'[r] = IF tried[r] = <<>> THEN "unavailable" ELSE "badGateway"
    BY <1>9 DEF NoBackendLeft, Refuse, Finish, TypeOK
  <2>2. tried[r] # <<>> => tried[r][1] \in faulted
    BY <1>0, <2>1 DEF FoundOut
  <2> QED BY <1>1, <1>2, <2>1, <2>2, NobodyLeft DEF FoundOut
<1>10. CASE AttemptFailed(r)
  <2>1. pc[r] = "serving" /\ tried'[r] = tried[r] /\ r \notin broken' /\ tried[r] # <<>>
    BY <1>0, <1>10 DEF AttemptFailed, Leave, TriedOk
  <2>2. At(r) \in faulted
    BY <1>0, <1>10, <2>1, AttemptAt DEF AttemptFailed, RoundTripFails, FaultInv, FoundOut
  <2>3. CASE Retryable(r)
    <3>1. /\ pc'[r] = "scan" /\ reply'[r] = "none" /\ cursor'[r] = 0
          /\ Len(tried[r]) = 1 /\ tried[r][1] = At(r)
      BY <1>0, <1>10, <2>1, <2>3 DEF AttemptFailed, TypeOK, TriedOk, ScanOk, picking,
                                   Retryable, At
    <3> QED BY <1>1, <2>1, <2>2, <3>1, BackendNumbers DEF FoundOut
  <2>4. CASE ~Retryable(r)
    <3>1. pc'[r] = "done" /\ reply'[r] = "badGateway" /\ kind'[r] = kind[r]
      BY <1>10, <2>4 DEF AttemptFailed, Finish, TypeOK
    <3>2. Len(tried[r]) = 2 => tried[r][1] \in faulted
      BY <1>0, <2>1 DEF FoundOut
    <3>3. ASSUME kind[r] \in {"plain", "poll"}  PROVE \E a, b \in faulted : a # b
      <4>1. Replayable(r) /\ ~IsUpgrade(r)
        BY <3>3 DEF Replayable, Announced, BytesRead, BodyLength, Least, MaxReplayBytes, IsUpgrade
      <4>2. Len(tried[r]) = 2 /\ tried[r][1] # tried[r][2]
        <5>1. Len(tried[r]) \in Nat \ {0}
          BY <2>1, AttemptAt
        <5>2. Len(tried[r]) # 1
          BY <2>4, <4>1 DEF Retryable
        <5>3. \A n \in Nat \ {0} : n # 1 => ~(n < 2)
          OBVIOUS
        <5>4. ~(Len(tried[r]) < 2)
          BY <5>1, <5>2, <5>3
        <5> QED BY <1>0, <5>4 DEF RetryOk
      <4> QED BY <2>2, <3>2, <4>2 DEF At
    <3> QED BY <1>1, <2>1, <3>1, <3>2, <3>3 DEF FoundOut
  <2> QED BY <2>3, <2>4
<1>11. ASSUME NEW how \in {"ok", "error", "badRequest", "gone", "cut"}, Finish(r, how),
              UNCHANGED tried, r \notin broken'
       PROVE  FoundOut(r)'
  <2>1. pc'[r] = "done" /\ reply'[r] = how
    BY <1>11 DEF Finish, TypeOK
  <2> QED BY <1>3, <1>11, <2>1
<1>12. CASE AttemptAnswered(r)
  BY <1>11, <1>12 DEF AttemptAnswered, Leave
<1>13. CASE Arrive(r)
  <2>1. pc'[r] = "body" /\ pc[r] = "idle" /\ tried'[r] = tried[r] /\ reply'[r] = "none"
    BY <1>0, <1>13 DEF Arrive, TypeOK, TriedOk
  <2> QED BY <1>2, <1>3, <2>1
<1>14. CASE BodyFails(r)
  BY <1>2, <1>11, <1>14 DEF BodyFails, Refuse
<1>15. CASE ClientGaveUp(r)
  BY <1>11, <1>15 DEF ClientGaveUp, Leave
<1>16. CASE SessionEnds(r)
  BY <1>11, <1>16 DEF SessionEnds, Leave
<1>17. CASE ResponseCut(r)
  BY <1>11, <1>17 DEF ResponseCut, Leave
<1> QED BY <1>4, <1>5, <1>6, <1>7, <1>8, <1>9, <1>10, <1>12, <1>13, <1>14, <1>15, <1>16, <1>17
        DEF RequestStep, ClientStep

LEMMA FaultStep ==
    ASSUME TypeOK, ScanInv, TriedInv, OneRetryElsewhere, FaultInv, HealthyStaysInRotation,
           [Next]_vars
    PROVE  FaultInv'
<1>1. faulted \subseteq faulted'
  BY FaultedGrows
<1>2. \A b \in Backends : condition'[b] # "up" => b \in faulted'
  <2>1. ASSUME NEW c \in Backends, Crash(c) \/ Stall(c) \/ Recover(c)
        PROVE  \A b \in Backends : condition'[b] # "up" => b \in faulted'
    BY <2>1, <1>1 DEF Crash, Stall, Recover, Fault, FaultInv, TypeOK
  <2>2. ASSUME UNCHANGED condition
        PROVE  \A b \in Backends : condition'[b] # "up" => b \in faulted'
    BY <1>1, <2>2 DEF FaultInv
  <2>3. ASSUME NEW r \in Requests, RequestStep(r) \/ ClientStep(r)  PROVE UNCHANGED condition
    BY <2>3 DEF RequestStep, RoutePinned, RouteFree, ReadBackend, CompareBackend, Dispatch,
                NoBackendLeft, AttemptAnswered, AttemptFailed, ClientStep, Arrive, BodyFails,
                ClientGaveUp, SessionEnds, ResponseCut, environment, surroundings
  <2>4. ASSUME NEW b \in Backends, ProberStep(b)  PROVE UNCHANGED condition
    BY <2>4 DEF ProberStep, ProbeAnswered, ProbeFailed, ProbeGood, environment, surroundings
  <2>5. CASE ProbeTick \/ Reset \/ UNCHANGED vars
    BY <2>2, <2>5 DEF ProbeTick, Reset, vars, environment, surroundings
  <2> QED BY <2>1, <2>2, <2>3, <2>4, <2>5 DEF Next
<1>3. \A b \in Backends : probe'[b] = "failed" => b \in faulted'
  <2>1. ASSUME NEW c \in Backends, ProberStep(c)
        PROVE  \A b \in Backends : probe'[b] = "failed" => b \in faulted'
    <3>1. CASE ProbeAnswered(c)
      BY <1>1, <3>1 DEF ProbeAnswered, FaultInv, TypeOK
    <3>2. CASE ProbeFailed(c) \/ ProbeGood(c)
      <4>1. probe' = [probe EXCEPT ![c] = "idle"]
        BY <3>2 DEF ProbeFailed, ProbeGood
      <4> QED BY <1>1, <4>1 DEF FaultInv, TypeOK
    <3> QED BY <2>1, <3>1, <3>2 DEF ProberStep
  <2>2. ASSUME UNCHANGED probe
        PROVE  \A b \in Backends : probe'[b] = "failed" => b \in faulted'
    BY <1>1, <2>2 DEF FaultInv
  <2>3. ASSUME NEW r \in Requests, RequestStep(r) \/ ClientStep(r)  PROVE UNCHANGED probe
    BY <2>3 DEF RequestStep, RoutePinned, RouteFree, ReadBackend, CompareBackend, Dispatch,
                NoBackendLeft, AttemptAnswered, AttemptFailed, ClientStep, Arrive, BodyFails,
                ClientGaveUp, SessionEnds, ResponseCut, probers
  <2>4. ASSUME NEW b \in Backends, Crash(b) \/ Stall(b) \/ Recover(b)  PROVE UNCHANGED probe
    BY <2>4 DEF Crash, Stall, Recover, probers
  <2>5. CASE ProbeTick
    BY <2>5 DEF ProbeTick
  <2>6. CASE Reset \/ UNCHANGED vars
    BY <2>2, <2>6 DEF Reset, vars, probers
  <2> QED BY <2>1, <2>2, <2>3, <2>4, <2>5, <2>6 DEF Next
<1>4. \A q \in Requests : FoundOut(q)'
  <2>1. \A q \in Requests : Same(q) => FoundOut(q)'
    BY SameFound DEF FaultInv
  <2> QED BY <2>1, FoundStep, WhoSteps, OthersUntouched
<1> QED BY <1>2, <1>3, <1>4 DEF FaultInv

LEMMA HealthStep ==
    ASSUME TypeOK, TriedInv, FaultInv, HealthyStaysInRotation, [Next]_vars
    PROVE  HealthyStaysInRotation'
<1>1. faulted \subseteq faulted'
  BY FaultedGrows
<1>2. ASSUME UNCHANGED <<alive, failStreak>>  PROVE HealthyStaysInRotation'
  BY <1>1, <1>2 DEF HealthyStaysInRotation
<1>3. ASSUME NEW c \in faulted, RecordFailure(c)  PROVE HealthyStaysInRotation'
  <2>1. ASSUME NEW b \in Backends \ faulted'  PROVE alive'[b] /\ failStreak'[b] = 0
    <3>1. b # c /\ b \in Backends \ faulted
      BY <1>1, <1>3, <2>1
    <3>2. alive'[b] = alive[b] /\ failStreak'[b] = failStreak[b]
      BY <1>3, <3>1 DEF RecordFailure, TypeOK
    <3> QED BY <3>1, <3>2 DEF HealthyStaysInRotation
  <2> QED BY <2>1 DEF HealthyStaysInRotation
<1>4. ASSUME NEW r \in Requests, AttemptFailed(r)  PROVE HealthyStaysInRotation'
  <2>1. At(r) \in faulted
    BY <1>4, AttemptAt DEF AttemptFailed, RoundTripFails, FaultInv, FoundOut
  <2> QED BY <1>3, <1>4, <2>1 DEF AttemptFailed
<1>5. ASSUME NEW r \in Requests, RequestStep(r) \/ ClientStep(r), ~AttemptFailed(r)
      PROVE  UNCHANGED <<alive, failStreak>>
  BY <1>5 DEF RequestStep, RoutePinned, RouteFree, ReadBackend, CompareBackend, Dispatch,
              NoBackendLeft, AttemptAnswered, ClientStep, Arrive, BodyFails, ClientGaveUp,
              SessionEnds, ResponseCut, health
<1>6. ASSUME NEW b \in Backends, ProbeFailed(b)  PROVE HealthyStaysInRotation'
  <2>1. b \in faulted
    BY <1>6 DEF ProbeFailed, FaultInv
  <2> QED BY <1>3, <1>6, <2>1 DEF ProbeFailed
<1>7. ASSUME NEW c \in Backends, ProbeGood(c)  PROVE HealthyStaysInRotation'
  <2>1. ASSUME NEW b \in Backends \ faulted'  PROVE alive'[b] /\ failStreak'[b] = 0
    <3>1. alive[b] /\ failStreak[b] = 0
      BY <1>1, <2>1 DEF HealthyStaysInRotation
    <3>2. PICK x : alive' = [alive EXCEPT ![c] = alive[c] \/ x]
      BY <1>7 DEF ProbeGood
    <3>3. alive'[b]
      BY <3>1, <3>2 DEF TypeOK
    <3>4. failStreak'[b] = 0
      BY <1>7, <3>1 DEF ProbeGood, TypeOK
    <3> QED BY <3>3, <3>4
  <2> QED BY <2>1 DEF HealthyStaysInRotation
<1>8. ASSUME NEW b \in Backends, ProbeAnswered(b) \/ Crash(b) \/ Stall(b) \/ Recover(b)
      PROVE  UNCHANGED <<alive, failStreak>>
  BY <1>8 DEF ProbeAnswered, Crash, Stall, Recover, health
<1>9. CASE ProbeTick \/ Reset \/ UNCHANGED vars
  BY <1>2, <1>9 DEF ProbeTick, Reset, vars, health
<1> QED BY <1>2, <1>4, <1>5, <1>6, <1>7, <1>8, <1>9 DEF Next, ProberStep

-----------------------------------------------------------------------------
(* The overload flag.                                                      *)

LEMMA FlagStep ==
    ASSUME TypeOK, FlagFollowsScore, [Next]_vars
    PROVE  FlagFollowsScore'
<1>1. ASSUME UNCHANGED <<overloaded, score>>  PROVE FlagFollowsScore'
  BY <1>1 DEF FlagFollowsScore
<1>2. ASSUME NEW r \in Requests, RequestStep(r) \/ ClientStep(r)
      PROVE  UNCHANGED <<overloaded, score>>
  BY <1>2 DEF RequestStep, RoutePinned, RouteFree, ReadBackend, CompareBackend, Dispatch,
              NoBackendLeft, AttemptAnswered, AttemptFailed, RecordFailure, ClientStep, Arrive,
              BodyFails, ClientGaveUp, SessionEnds, ResponseCut, health
<1>3. ASSUME NEW c \in Backends, ProbeGood(c)  PROVE FlagFollowsScore'
  <2>1. PICK s \in Smoothed(load[c], score[c]) : \E x :
           /\ score' = [score EXCEPT ![c] = s]
           /\ overloaded' = [overloaded EXCEPT ![c] = Over(c, s, x)]
    BY <1>3 DEF ProbeGood
  <2>2. PICK x : /\ score' = [score EXCEPT ![c] = s]
                 /\ overloaded' = [overloaded EXCEPT ![c] = Over(c, s, x)]
    BY <2>1
  <2>3. s \in 0..ScoreMax
    BY SmoothedOnScale DEF TypeOK
  <2>4. s > Threshold => Over(c, s, x)
    BY DEF Over
  <2>5. s < Threshold - Hysteresis => ~Over(c, s, x)
    BY <2>3, Parameters DEF Over
  <2>6. ASSUME NEW b \in Backends
        PROVE  /\ score'[b] > Threshold => overloaded'[b]
               /\ score'[b] < Threshold - Hysteresis => ~overloaded'[b]
    <3>1. CASE b = c
      <4>1. score'[b] = s /\ (overloaded'[b] <=> Over(c, s, x))
        BY <2>2, <3>1 DEF TypeOK
      <4> QED BY <2>4, <2>5, <4>1
    <3>2. CASE b # c
      <4>1. score'[b] = score[b] /\ overloaded'[b] = overloaded[b]
        BY <2>2, <3>2 DEF TypeOK
      <4> QED BY <4>1 DEF FlagFollowsScore
    <3> QED BY <3>1, <3>2
  <2> QED BY <2>6 DEF FlagFollowsScore
<1>4. ASSUME NEW b \in Backends, \/ ProbeAnswered(b) \/ ProbeFailed(b)
                                \/ Crash(b) \/ Stall(b) \/ Recover(b)
      PROVE  UNCHANGED <<overloaded, score>>
  BY <1>4 DEF ProbeAnswered, ProbeFailed, RecordFailure, Crash, Stall, Recover, health
<1>5. CASE ProbeTick \/ Reset \/ UNCHANGED vars
  BY <1>1, <1>5 DEF ProbeTick, Reset, vars, health
<1> QED BY <1>1, <1>2, <1>3, <1>4, <1>5 DEF Next, ProberStep

-----------------------------------------------------------------------------
(* Counting the attempts under way.                                        *)

\* A step that moves no request to or from a backend.
LEMMA InflightSame ==
    ASSUME InflightExact, UNCHANGED inflight,
           \A q \in Requests : /\ pc'[q] = "serving" <=> pc[q] = "serving"
                               /\ tried'[q] = tried[q]
    PROVE  InflightExact'
<1>1. \A b \in Backends : Serving(b)' = Serving(b)
  BY DEF Serving, At
<1> QED BY <1>1 DEF InflightExact, Serving

LEMMA ServeCounted ==
    ASSUME TypeOK, InflightExact, NEW r \in Requests, pc[r] # "serving",
           NEW b \in Backends, Serve(r, b),
           \A q \in Requests \ {r} : pc'[q] = pc[q] /\ tried'[q] = tried[q]
    PROVE  InflightExact'
<1>1. pc'[r] = "serving" /\ tried'[r] = Append(tried[r], b) /\ tried[r] \in Seq(Backends)
  BY DEF Serve, TypeOK
<1>2. At(r)' = b
  BY <1>1 DEF At
<1>3. \A q \in Requests \ {r} : At(q)' = At(q)
  BY DEF At
<1>4. Serving(b)' = Serving(b) \cup {r} /\ r \notin Serving(b)
  BY <1>1, <1>2, <1>3 DEF Serving
<1>5. \A c \in Backends \ {b} : Serving(c)' = Serving(c)
  BY <1>1, <1>2, <1>3 DEF Serving
<1>6. Cardinality(Serving(b)') = Cardinality(Serving(b)) + 1
  BY <1>4, ServingFinite, FS_AddElement
<1>7. inflight'[b] = inflight[b] + 1 /\ \A c \in Backends \ {b} : inflight'[c] = inflight[c]
  BY DEF Serve, TypeOK
<1> QED BY <1>5, <1>6, <1>7 DEF InflightExact, Serving

LEMMA LeaveCounted ==
    ASSUME TypeOK, TriedInv, InflightExact, NEW r \in Requests, pc[r] = "serving",
           Leave(r), pc'[r] # "serving",
           \A q \in Requests \ {r} : pc'[q] = pc[q] /\ tried'[q] = tried[q]
    PROVE  InflightExact'
<1>1. PICK b \in Backends : b = At(r)
  BY AttemptAt
<1>2. \A q \in Requests \ {r} : At(q)' = At(q)
  BY DEF At
<1>3. \A c \in Backends : Serving(c)' = Serving(c) \ {r}
  BY <1>2 DEF Serving
<1>4. r \in Serving(b) /\ \A c \in Backends \ {b} : r \notin Serving(c)
  BY <1>1 DEF Serving
<1>5. Cardinality(Serving(b)') = Cardinality(Serving(b)) - 1
  <2>1. IsFiniteSet(Serving(b)) /\ Serving(b)' = Serving(b) \ {r} /\ r \in Serving(b)
    BY <1>1, <1>3, <1>4, ServingFinite
  <2> QED BY <2>1, FS_RemoveElement
<1>6. \A c \in Backends \ {b} : Serving(c)' = Serving(c)
  BY <1>3, <1>4
<1>7. inflight'[b] = inflight[b] - 1 /\ \A c \in Backends \ {b} : inflight'[c] = inflight[c]
  BY <1>1 DEF Leave, TypeOK
<1>8. \A c \in Backends : inflight[c] = Cardinality(Serving(c))
  BY DEF InflightExact, Serving
<1>9. \A c \in Backends : inflight'[c] = Cardinality(Serving(c)')
  BY <1>1, <1>5, <1>6, <1>7, <1>8
<1> QED BY <1>9 DEF InflightExact, Serving

LEMMA InflightStep ==
    ASSUME TypeOK, ScanInv, TriedInv, InflightExact, [Next]_vars
    PROVE  InflightExact'
<1>1. ASSUME NEW r \in Requests, RequestStep(r) \/ ClientStep(r)  PROVE InflightExact'
  <2>0. \A q \in Requests \ {r} : pc'[q] = pc[q] /\ tried'[q] = tried[q]
    BY <1>1, OthersUntouched DEF Same
  <2>1. CASE RoutePinned(r)
    <3>1. cookie[r] \in Backends /\ pc[r] # "serving" /\ Serve(r, cookie[r])
      BY <2>1 DEF RoutePinned, Pinned
    <3> QED BY <2>0, <3>1, ServeCounted
  <2>2. CASE Dispatch(r)
    <3>1. PICK b \in Choices(r) : Serve(r, b)
      BY <2>2 DEF Dispatch
    <3>2. b \in Backends /\ pc[r] # "serving"
      BY <2>2, <3>1, ChoiceIsUsable DEF Dispatch
    <3> QED BY <2>0, <3>1, <3>2, ServeCounted
  <2>3. ASSUME UNCHANGED <<inflight, tried>>, pc[r] # "serving", pc'[r] # "serving"
        PROVE  InflightExact'
    BY <2>0, <2>3, InflightSame
  <2>4. CASE RouteFree(r) \/ ReadBackend(r) \/ CompareBackend(r) \/ NoBackendLeft(r)
    <3>1. UNCHANGED <<inflight, tried>> /\ pc[r] # "serving" /\ pc'[r] # "serving"
      BY <2>4 DEF RouteFree, ReadBackend, CompareBackend, NoBackendLeft, Refuse, Finish, TypeOK
    <3> QED BY <2>3, <3>1
  <2>5. CASE Arrive(r) \/ BodyFails(r)
    <3>1. UNCHANGED <<inflight, tried>> /\ pc[r] # "serving" /\ pc'[r] # "serving"
      BY <2>5 DEF Arrive, BodyFails, Refuse, Finish, TypeOK
    <3> QED BY <2>3, <3>1
  <2>6. CASE AttemptAnswered(r) \/ AttemptFailed(r)
    <3>1. Leave(r) /\ pc[r] = "serving" /\ pc'[r] # "serving"
      BY <2>6 DEF AttemptAnswered, AttemptFailed, Finish, TypeOK
    <3> QED BY <2>0, <3>1, LeaveCounted
  <2>7. CASE ClientGaveUp(r) \/ SessionEnds(r) \/ ResponseCut(r)
    <3>1. Leave(r) /\ pc[r] = "serving" /\ pc'[r] # "serving"
      BY <2>7 DEF ClientGaveUp, SessionEnds, ResponseCut, Finish, TypeOK
    <3> QED BY <2>0, <3>1, LeaveCounted
  <2> QED BY <1>1, <2>1, <2>2, <2>4, <2>5, <2>6, <2>7 DEF RequestStep, ClientStep
<1>2. ASSUME NEW b \in Backends, ProberStep(b) \/ Crash(b) \/ Stall(b) \/ Recover(b)
      PROVE  UNCHANGED <<inflight, pc, tried>>
  BY <1>2 DEF ProberStep, ProbeAnswered, ProbeFailed, ProbeGood, Crash, Stall, Recover,
              requestVars
<1>3. CASE ProbeTick \/ Reset \/ UNCHANGED vars
  BY <1>3, InflightSame DEF ProbeTick, Reset, vars, requestVars
<1> QED BY <1>1, <1>2, <1>3, InflightSame DEF Next

-----------------------------------------------------------------------------
(* The counters.                                                           *)

InProgress == {r \in Requests : pc[r] \in {"body", "scan", "serving"}}
CutShort == {r \in Requests : reply[r] = "cut"}
GivenUp == {r \in Requests : reply[r] = "gone"}

Balanced ==
    /\ requests = succeeded + failures + Cardinality(InProgress) + Cardinality(CutShort)
    /\ abandoned = Cardinality(GivenUp)
    /\ abandoned <= failures

LEMMA BalancedAgrees ==
    /\ CountersBalance <=> (resets = 0 => Balanced)
    /\ CountersBalance' <=> (resets' = 0 => Balanced')
BY DEF CountersBalance, Balanced, InProgress, CutShort, GivenUp

LEMMA RequestSetsFinite ==
    /\ IsFiniteSet(InProgress) /\ Cardinality(InProgress) \in Nat
    /\ IsFiniteSet(CutShort) /\ Cardinality(CutShort) \in Nat
    /\ IsFiniteSet(GivenUp) /\ Cardinality(GivenUp) \in Nat
<1>1. InProgress \subseteq Requests /\ CutShort \subseteq Requests /\ GivenUp \subseteq Requests
  BY DEF InProgress, CutShort, GivenUp
<1>2. IsFiniteSet(InProgress) /\ IsFiniteSet(CutShort) /\ IsFiniteSet(GivenUp)
  BY <1>1, FS_Subset, Parameters
<1> QED BY <1>2, FS_CardinalityType

\* A step that moves no request and counts nothing.
LEMMA NothingCounted ==
    ASSUME UNCHANGED <<requests, succeeded, failures, abandoned>>, Balanced,
           \A q \in Requests :
               /\ pc'[q] \in {"body", "scan", "serving"}
                     <=> pc[q] \in {"body", "scan", "serving"}
               /\ reply'[q] = reply[q]
    PROVE  Balanced'
<1>1. InProgress' = InProgress /\ CutShort' = CutShort /\ GivenUp' = GivenUp
  BY DEF InProgress, CutShort, GivenUp
<1> QED BY <1>1 DEF Balanced

\* What the end of a request does to the sets.
LEMMA EndCounted ==
    ASSUME TypeOK, TriedInv, NEW r \in Requests, pc[r] \in {"body", "scan", "serving"},
           NEW how \in Replies \ {"none"}, Finish(r, how),
           \A q \in Requests \ {r} : pc'[q] = pc[q] /\ reply'[q] = reply[q]
    PROVE  /\ Cardinality(InProgress') = Cardinality(InProgress) - 1
           /\ Cardinality(CutShort') = Cardinality(CutShort) + IF how = "cut" THEN 1 ELSE 0
           /\ Cardinality(GivenUp') = Cardinality(GivenUp) + IF how = "gone" THEN 1 ELSE 0
<1>1. pc'[r] = "done" /\ reply'[r] = how /\ reply[r] = "none"
  BY DEF Finish, TypeOK, TriedInv, TriedOk
<1>2. InProgress' = InProgress \ {r} /\ r \in InProgress
  BY <1>1 DEF InProgress
<1>3. Cardinality(InProgress') = Cardinality(InProgress) - 1
  BY <1>2, RequestSetsFinite, FS_RemoveElement
<1>4. Cardinality(CutShort') = Cardinality(CutShort) + IF how = "cut" THEN 1 ELSE 0
  <2>1. r \notin CutShort
    BY <1>1 DEF CutShort
  <2>2. CASE how = "cut"
    <3>1. CutShort' = CutShort \cup {r}
      BY <1>1, <2>2 DEF CutShort
    <3> QED BY <2>1, <2>2, <3>1, RequestSetsFinite, FS_AddElement
  <2>3. CASE how # "cut"
    <3>1. CutShort' = CutShort
      BY <1>1, <2>3 DEF CutShort
    <3> QED BY <2>3, <3>1, RequestSetsFinite
  <2> QED BY <2>2, <2>3
<1>5. Cardinality(GivenUp') = Cardinality(GivenUp) + IF how = "gone" THEN 1 ELSE 0
  <2>1. r \notin GivenUp
    BY <1>1 DEF GivenUp
  <2>2. CASE how = "gone"
    <3>1. GivenUp' = GivenUp \cup {r}
      BY <1>1, <2>2 DEF GivenUp
    <3> QED BY <2>1, <2>2, <3>1, RequestSetsFinite, FS_AddElement
  <2>3. CASE how # "gone"
    <3>1. GivenUp' = GivenUp
      BY <1>1, <2>3 DEF GivenUp
    <3> QED BY <2>3, <3>1, RequestSetsFinite
  <2> QED BY <2>2, <2>3
<1> QED BY <1>3, <1>4, <1>5

LEMMA CountersOfRequest ==
    ASSUME TypeOK, TriedInv, Balanced, NEW r \in Requests, RequestStep(r) \/ ClientStep(r)
    PROVE  Balanced'
<1>0. /\ \A q \in Requests \ {r} : pc'[q] = pc[q] /\ reply'[q] = reply[q]
      /\ requests \in Nat /\ succeeded \in Nat /\ failures \in Nat /\ abandoned \in Nat
  BY OthersUntouched, TypeHasParts DEF Same, OtherTypes
<1>1. ASSUME UNCHANGED <<requests, succeeded, failures, abandoned, reply>>,
             pc'[r] \in {"body", "scan", "serving"}, pc[r] \in {"body", "scan", "serving"}
      PROVE  Balanced'
  BY <1>0, <1>1, NothingCounted
<1>2. ASSUME pc[r] \in {"body", "scan", "serving"},
             NEW how \in Replies \ {"none", "cut", "gone"}, Finish(r, how),
             UNCHANGED <<requests, abandoned>>,
             \/ succeeded' = succeeded + 1 /\ failures' = failures
             \/ succeeded' = succeeded /\ failures' = failures + 1
      PROVE  Balanced'
  BY <1>0, <1>2, EndCounted, RequestSetsFinite DEF Balanced
<1>3. CASE RoutePinned(r) \/ RouteFree(r) \/ ReadBackend(r) \/ CompareBackend(r) \/ Dispatch(r)
  BY <1>1, <1>3 DEF RoutePinned, RouteFree, ReadBackend, CompareBackend, Dispatch, Serve,
                    counters, TypeOK
<1>4. CASE NoBackendLeft(r)
  BY <1>2, <1>4 DEF NoBackendLeft, Refuse, Replies
<1>5. CASE AttemptAnswered(r)
  BY <1>2, <1>5 DEF AttemptAnswered, Replies
<1>6. CASE AttemptFailed(r)
  <2>1. CASE Retryable(r)
    <3>1. pc'[r] = "scan"
      BY <1>6, <2>1 DEF AttemptFailed, TypeOK
    <3> QED BY <1>1, <1>6, <2>1, <3>1 DEF AttemptFailed
  <2>2. CASE ~Retryable(r)
    BY <1>2, <1>6, <2>2 DEF AttemptFailed, Replies
  <2> QED BY <2>1, <2>2
<1>7. CASE Arrive(r)
  <2>1. pc[r] = "idle" /\ pc'[r] = "body" /\ requests' = requests + 1
    BY <1>7 DEF Arrive, TypeOK
  <2>2. InProgress' = InProgress \cup {r} /\ r \notin InProgress
    BY <1>0, <2>1 DEF InProgress
  <2>3. Cardinality(InProgress') = Cardinality(InProgress) + 1
    BY <2>2, RequestSetsFinite, FS_AddElement
  <2>4. CutShort' = CutShort /\ GivenUp' = GivenUp
    BY <1>7 DEF Arrive, CutShort, GivenUp
  <2>5. UNCHANGED <<succeeded, failures, abandoned>>
    BY <1>7 DEF Arrive
  <2> QED BY <1>0, <2>1, <2>3, <2>4, <2>5, RequestSetsFinite DEF Balanced
<1>8. CASE BodyFails(r)
  BY <1>2, <1>8 DEF BodyFails, Refuse, Replies
<1>9. CASE ClientGaveUp(r)
  <2>1. /\ pc[r] = "serving" /\ Finish(r, "gone") /\ UNCHANGED <<requests, succeeded>>
        /\ abandoned' = abandoned + 1 /\ failures' = failures + 1
    BY <1>9 DEF ClientGaveUp
  <2>2. /\ Cardinality(InProgress') = Cardinality(InProgress) - 1
        /\ Cardinality(CutShort') = Cardinality(CutShort)
        /\ Cardinality(GivenUp') = Cardinality(GivenUp) + 1
    BY <1>0, <2>1, EndCounted, RequestSetsFinite DEF Replies
  <2> QED BY <1>0, <2>1, <2>2, RequestSetsFinite DEF Balanced
<1>10. CASE SessionEnds(r)
  BY <1>2, <1>10 DEF SessionEnds, Replies
<1>11. CASE ResponseCut(r)
  <2>1. /\ pc[r] = "serving" /\ Finish(r, "cut")
        /\ UNCHANGED <<requests, succeeded, failures, abandoned>>
    BY <1>11 DEF ResponseCut, counters
  <2>2. /\ Cardinality(InProgress') = Cardinality(InProgress) - 1
        /\ Cardinality(CutShort') = Cardinality(CutShort) + 1
        /\ Cardinality(GivenUp') = Cardinality(GivenUp)
    BY <1>0, <2>1, EndCounted, RequestSetsFinite DEF Replies
  <2> QED BY <1>0, <2>1, <2>2, RequestSetsFinite DEF Balanced
<1> QED BY <1>3, <1>4, <1>5, <1>6, <1>7, <1>8, <1>9, <1>10, <1>11 DEF RequestStep, ClientStep

LEMMA CountersStep ==
    ASSUME TypeOK, TriedInv, CountersBalance, [Next]_vars
    PROVE  CountersBalance'
<1> USE DEF environment, surroundings
<1>1. ASSUME NEW r \in Requests, RequestStep(r) \/ ClientStep(r)  PROVE CountersBalance'
  <2>1. UNCHANGED resets
    BY <1>1 DEF RequestStep, RoutePinned, RouteFree, ReadBackend, CompareBackend, Dispatch,
                NoBackendLeft, AttemptAnswered, AttemptFailed, ClientStep, Arrive, BodyFails,
                ClientGaveUp, SessionEnds, ResponseCut
  <2> QED BY <1>1, <2>1, CountersOfRequest, BalancedAgrees
<1>2. ASSUME UNCHANGED <<requests, succeeded, failures, abandoned, resets, pc, reply>>
      PROVE  CountersBalance'
  BY <1>2, NothingCounted, BalancedAgrees
<1>3. ASSUME NEW b \in Backends, ProberStep(b) \/ Crash(b) \/ Stall(b) \/ Recover(b)
      PROVE  UNCHANGED <<requests, succeeded, failures, abandoned, resets, pc, reply>>
  BY <1>3 DEF ProberStep, ProbeAnswered, ProbeFailed, ProbeGood, Crash, Stall, Recover,
              requestVars, counters
<1>4. CASE ProbeTick \/ UNCHANGED vars
  BY <1>2, <1>4 DEF ProbeTick, vars, requestVars, counters
<1>5. CASE Reset
  <2>1. resets' # 0
    BY <1>5, Parameters DEF Reset, TypeOK
  <2> QED BY <2>1, BalancedAgrees
<1> QED BY <1>1, <1>2, <1>3, <1>4, <1>5 DEF Next

-----------------------------------------------------------------------------
(* The inductive invariant.                                                *)

LEMMA InitIInv == Init => IInv
<1> SUFFICES ASSUME Init PROVE IInv
  OBVIOUS
<1>1. TypeOK
  BY Parameters DEF Init, TypeOK, Replies
<1>2. ScanInv
  BY BackendNumbers, Parameters DEF Init, ScanInv, ScanOk, Excluded, ByLoad
<1>3. TriedInv /\ OneRetryElsewhere
  BY DEF Init, TriedInv, TriedOk, OneRetryElsewhere
<1>4. FaultInv
  BY DEF Init, FaultInv, FoundOut
<1>5. HealthyStaysInRotation /\ FlagFollowsScore
  BY Parameters DEF Init, HealthyStaysInRotation, FlagFollowsScore
<1>6. InflightExact
  <2>1. \A b \in Backends : Serving(b) = {}
    BY DEF Init, Serving
  <2>2. \A b \in Backends : Cardinality(Serving(b)) = 0
    BY <2>1, FS_EmptySet
  <2>3. \A b \in Backends : inflight[b] = 0
    BY DEF Init
  <2> QED BY <2>2, <2>3 DEF InflightExact, Serving
<1>7. CountersBalance
  <2>1. InProgress = {} /\ CutShort = {} /\ GivenUp = {}
    BY DEF Init, InProgress, CutShort, GivenUp
  <2>2. Balanced
    BY <2>1, FS_EmptySet DEF Init, Balanced
  <2> QED BY <2>2, BalancedAgrees
<1> QED BY <1>1, <1>2, <1>3, <1>4, <1>5, <1>6, <1>7 DEF IInv

LEMMA IInvStep == IInv /\ [Next]_vars => IInv'
<1> SUFFICES ASSUME IInv, [Next]_vars PROVE IInv'
  OBVIOUS
<1> USE DEF IInv
<1>1. TypeOK' /\ ScanInv' /\ InflightExact' /\ FlagFollowsScore'
  BY TypeStep, ScanStep, InflightStep, FlagStep
<1>2. TriedInv' /\ OneRetryElsewhere'
  BY TriedStep
<1>3. FaultInv' /\ HealthyStaysInRotation'
  BY FaultStep, HealthStep
<1>4. CountersBalance'
  BY CountersStep
<1> QED BY <1>1, <1>2, <1>3, <1>4

\* The inductive invariant holds in every reachable state of the balancer.
THEOREM BalancerInvariance == Spec => []IInv
BY InitIInv, IInvStep, PTL DEF Spec

\* Type correctness: counts stay natural numbers (no decrement without its
\* increment) and scores on their scale.
THEOREM TypeCorrect == Spec => []TypeOK
<1>1. IInv => TypeOK
  BY DEF IInv
<1> QED BY <1>1, BalancerInvariance, PTL

\* The in-flight count of a backend is the number of requests it is serving,
\* whichever way attempts end (main.go's deferred decrement).
THEOREM InflightIsExact == Spec => []InflightExact
<1>1. IInv => InflightExact
  BY DEF IInv
<1> QED BY <1>1, BalancerInvariance, PTL

\* A request is attempted at most twice, on two backends, and only if its body
\* was kept (proxyHandler's one retry).
THEOREM AtMostOneRetry == Spec => []OneRetryElsewhere
<1>1. IInv => OneRetryElsewhere
  BY DEF IInv
<1> QED BY <1>1, BalancerInvariance, PTL

\* Clients that give up never cost a backend its place: only a backend that
\* has had a fault can leave the rotation (markFailure's callers).
THEOREM NoBlameWithoutFault == Spec => []HealthyStaysInRotation
<1>1. IInv => HealthyStaysInRotation
  BY DEF IInv
<1> QED BY <1>1, BalancerInvariance, PTL

\* One faulty backend among several fails no request that can be replayed, and
\* a 503 needs a fault of every backend, although pick() reads their health
\* one lock at a time.
THEOREM OneFaultIsHidden == Spec => []SingleFaultHidden
<1>1. IInv => SingleFaultHidden
  <2> SUFFICES ASSUME IInv, NEW r \in Requests
               PROVE  /\ reply[r] = "unavailable" => faulted = Backends
                      /\ reply[r] = "badGateway" /\ kind[r] \in {"plain", "poll"}
                            => Cardinality(faulted) > 1 \/ NumBackends = 1
    BY DEF SingleFaultHidden
  <2>1. FoundOut(r) /\ faulted \subseteq Backends
    BY DEF IInv, FaultInv, TypeOK
  <2>2. ASSUME NEW a \in faulted, NEW b \in faulted, a # b
        PROVE  Cardinality(faulted) > 1
    <3>1. IsFiniteSet(Backends)
      BY FS_Interval, Parameters DEF Backends
    <3>2. IsFiniteSet(faulted)
      BY <2>1, <3>1, FS_Subset
    <3>3. Cardinality({a, b}) = 2
      <4>1. IsFiniteSet({a}) /\ Cardinality({a}) = 1
        BY FS_Singleton
      <4>2. Cardinality({a} \cup {b}) = 1 + 1
        BY <2>2, <4>1, FS_AddElement
      <4>3. {a, b} = {a} \cup {b}
        OBVIOUS
      <4> QED BY <4>2, <4>3
    <3>4. Cardinality({a, b}) <= Cardinality(faulted) /\ Cardinality(faulted) \in Nat
      BY <3>2, FS_Subset, FS_CardinalityType
    <3> QED BY <3>3, <3>4
  <2> QED BY <2>1, <2>2 DEF FoundOut
<1> QED BY <1>1, BalancerInvariance, PTL

\* The overload flag and the smoothed score agree outside the hysteresis band,
\* through failures and revivals (probe()).
THEOREM FlagAgreesWithScore == Spec => []FlagFollowsScore
<1>1. IInv => FlagFollowsScore
  BY DEF IInv
<1> QED BY <1>1, BalancerInvariance, PTL

\* Until the counters are reset, every request that arrived is in progress, cut
\* off or counted once (the counters behind /lb/metrics).
THEOREM CountersAlwaysBalance == Spec => []CountersBalance
<1>1. IInv => CountersBalance
  BY DEF IInv
<1> QED BY <1>1, BalancerInvariance, PTL
-----------------------------------------------------------------------------
(* The refinement of Forwarding.                                           *)

\* What Forwarding sees of the requests.
Answer == [r \in Requests |-> Told(r)]
First == [r \in Requests |-> Attempted(r, 1)]
Second == [r \in Requests |-> Attempted(r, 2)]
Awaited == {r \in Requests : pc[r] = "serving"}
Resendable == {r \in Requests : Replayable(r) /\ ~IsUpgrade(r)}

LEMMA SameView ==
    ASSUME NEW q \in Requests, Same(q)
    PROVE  /\ Told(q)' = Told(q)
           /\ Attempted(q, 1)' = Attempted(q, 1)
           /\ Attempted(q, 2)' = Attempted(q, 2)
           /\ pc'[q] = pc[q]
BY DEF Same, Told, Attempted

\* No step changes what kind of request somebody has made.
LEMMA KindsStay == ASSUME [Next]_vars PROVE kind' = kind
<1> USE DEF requestVars
<1>1. ASSUME NEW r \in Requests, RequestStep(r)  PROVE kind' = kind
  BY <1>1 DEF RequestStep, RoutePinned, RouteFree, ReadBackend, CompareBackend, Dispatch,
              NoBackendLeft, AttemptAnswered, AttemptFailed
<1>2. ASSUME NEW r \in Requests, ClientStep(r)  PROVE kind' = kind
  BY <1>2 DEF ClientStep, Arrive, BodyFails, ClientGaveUp, SessionEnds, ResponseCut
<1>3. ASSUME NEW b \in Backends, ProberStep(b) \/ Crash(b) \/ Stall(b) \/ Recover(b)
      PROVE  kind' = kind
  BY <1>3 DEF ProberStep, ProbeAnswered, ProbeFailed, ProbeGood, Crash, Stall, Recover
<1>4. CASE ProbeTick \/ Reset \/ UNCHANGED vars
  BY <1>4 DEF ProbeTick, Reset, vars
<1> QED BY <1>1, <1>2, <1>3, <1>4 DEF Next

\* A step of one request changes the view at that request only.
LEMMA ViewOfStep ==
    ASSUME TypeOK, [Next]_vars, NEW r \in Requests, RequestStep(r) \/ ClientStep(r)
    PROVE  /\ Answer' = [Answer EXCEPT ![r] = Told(r)']
           /\ First' = [First EXCEPT ![r] = Attempted(r, 1)']
           /\ Second' = [Second EXCEPT ![r] = Attempted(r, 2)']
           /\ Awaited' = IF pc'[r] = "serving" THEN Awaited \cup {r} ELSE Awaited \ {r}
           /\ Resendable' = Resendable
<1>1. \A q \in Requests \ {r} : /\ Told(q)' = Told(q)
                                /\ Attempted(q, 1)' = Attempted(q, 1)
                                /\ Attempted(q, 2)' = Attempted(q, 2)
                                /\ pc'[q] = pc[q]
  BY OthersUntouched, SameView
<1>2. Resendable' = Resendable
  BY KindsStay DEF Resendable, Replayable, Announced, BytesRead, BodyLength, Least, IsUpgrade
<1>3. /\ Answer' = [Answer EXCEPT ![r] = Told(r)']
      /\ First' = [First EXCEPT ![r] = Attempted(r, 1)']
      /\ Second' = [Second EXCEPT ![r] = Attempted(r, 2)']
  BY <1>1 DEF Answer, First, Second
<1>4. Awaited' = IF pc'[r] = "serving" THEN Awaited \cup {r} ELSE Awaited \ {r}
  BY <1>1 DEF Awaited
<1> QED BY <1>2, <1>3, <1>4

\* The attempts of a request that has made none, one or two.
LEMMA AttemptsOf ==
    ASSUME TypeOK, NEW r \in Requests
    PROVE  /\ tried[r] = <<>> => Attempted(r, 1) = NoBackend /\ Attempted(r, 2) = NoBackend
           /\ Len(tried[r]) = 1 => Attempted(r, 1) = tried[r][1] /\ Attempted(r, 2) = NoBackend
           /\ Len(tried[r]) = 2 => Attempted(r, 1) = tried[r][1] /\ Attempted(r, 2) = tried[r][2]
<1>1. tried[r] \in Seq(Backends)
  BY DEF TypeOK
<1>2. tried[r] = <<>> => Len(tried[r]) = 0
  OBVIOUS
<1> QED BY <1>1, <1>2 DEF Attempted

\* An attempt starts: the first, or the retry at another backend.
LEMMA ServeRelays ==
    ASSUME IInv, IInv', [Next]_vars, NEW r \in Requests, RequestStep(r) \/ ClientStep(r),
           NEW b \in Backends, Serve(r, b), reply'[r] = reply[r],
           pc[r] \in {"body", "scan"}
    PROVE  Relay!Next
<1>1. /\ tried[r] \in Seq(Backends)
      /\ tried'[r] = Append(tried[r], b)
      /\ pc'[r] = "serving"
      /\ reply[r] = "none"
  <2>1. /\ tried \in [Requests -> Seq(Backends)]
        /\ pc \in [Requests -> {"idle", "body", "scan", "serving", "done"}]
    BY DEF IInv, TypeOK
  <2>2. /\ tried' = [tried EXCEPT ![r] = Append(@, b)]
        /\ pc' = [pc EXCEPT ![r] = "serving"]
    BY DEF Serve
  <2>3. pc[r] = "done" <=> reply[r] # "none"
    BY DEF IInv, TriedInv, TriedOk
  <2>4. tried[r] \in Seq(Backends) /\ tried'[r] = Append(tried[r], b) /\ pc'[r] = "serving"
    BY ONLY <2>1, <2>2, r \in Requests
  <2> QED BY <2>3, <2>4
<1>2. /\ Told(r)' = "waiting"
      /\ Awaited' = Awaited \cup {r}
  BY <1>1, ViewOfStep DEF Told, IInv
<1>3. CASE tried[r] = <<>>
  <2>1. tried'[r] = <<b>>
    BY <1>1, <1>3
  <2>2. /\ Attempted(r, 1)' = b /\ Attempted(r, 2)' = NoBackend
        /\ Attempted(r, 1) = NoBackend /\ Attempted(r, 2) = NoBackend
    BY <1>3, <2>1, AttemptsOf DEF Attempted, IInv
  <2>3. Second' = Second
    <3>1. Second' = [Second EXCEPT ![r] = Attempted(r, 2)']
      BY ViewOfStep DEF IInv
    <3>2. Attempted(r, 2)' = Second[r] /\ Second = [q \in Requests |-> Second[q]]
      BY <2>2 DEF Second
    <3> QED BY ONLY <3>1, <3>2
  <2>4. Told(r) = "idle"
    BY <1>1, <1>3 DEF Told
  <2>5. Relay!Attempt(r, b)
    BY <1>2, <2>2, <2>3, <2>4, ViewOfStep
       DEF Relay!Attempt, Answer, First, Second, Awaited, Resendable, IInv
  <2> QED BY <2>5 DEF Relay!Next
<1>4. CASE tried[r] # <<>>
  <2>1. pc[r] = "scan" /\ Len(tried[r]) = 1 /\ r \in Resendable
    BY <1>4 DEF IInv, TriedInv, TriedOk, Resendable
  <2>2. Len(tried'[r]) = 2 /\ tried'[r][1] = tried[r][1] /\ tried'[r][2] = b
    BY <1>1, <2>1
  <2>3. b # tried[r][1]
    BY <2>2 DEF IInv, OneRetryElsewhere
  <2>4. /\ Attempted(r, 1)' = tried[r][1] /\ Attempted(r, 2)' = b
        /\ Attempted(r, 1) = tried[r][1] /\ Attempted(r, 2) = NoBackend
    BY <2>1, <2>2, AttemptsOf DEF Attempted, IInv
  <2>5. First' = First
    <3>1. First' = [First EXCEPT ![r] = Attempted(r, 1)']
      BY ViewOfStep DEF IInv
    <3>2. Attempted(r, 1)' = First[r] /\ First = [q \in Requests |-> First[q]]
      BY <2>4 DEF First
    <3> QED BY ONLY <3>1, <3>2
  <2>6. Told(r) = "waiting" /\ r \notin Awaited
    BY <1>1, <1>4, <2>1 DEF Told, Awaited
  <2>7. Answer' = Answer
    <3>1. Answer' = [Answer EXCEPT ![r] = Told(r)']
      BY ViewOfStep DEF IInv
    <3>2. Told(r)' = Answer[r] /\ Answer = [q \in Requests |-> Answer[q]]
      BY <1>2, <2>6 DEF Answer
    <3> QED BY ONLY <3>1, <3>2
  <2>8. Relay!Retry(r, b)
    BY <1>2, <2>1, <2>3, <2>4, <2>5, <2>6, <2>7, ViewOfStep
       DEF Relay!Retry, Answer, First, Second, Awaited, Resendable, IInv
  <2> QED BY <2>8 DEF Relay!Next
<1> QED BY <1>3, <1>4

\* A request ends.  Only an attempt under way can end it well.
LEMMA FinishRelays ==
    ASSUME IInv, [Next]_vars, NEW r \in Requests, RequestStep(r) \/ ClientStep(r),
           NEW how \in Replies \ {"none"}, Finish(r, how), tried' = tried,
           pc[r] # "done", how = "ok" => pc[r] = "serving"
    PROVE  Relay!Next
<1>1. reply[r] = "none" /\ pc'[r] = "done" /\ reply'[r] = how
  BY DEF IInv, TypeOK, TriedInv, TriedOk, Finish
<1>2. First' = First /\ Second' = Second
  BY ViewOfStep DEF First, Second, Attempted, IInv
<1>3. Awaited' = Awaited \ {r} /\ Resendable' = Resendable
  BY <1>1, ViewOfStep DEF IInv
<1>4. CASE how = "ok"
  <2>1. Told(r)' = "ok" /\ r \in Awaited
    BY <1>1, <1>4 DEF Told, Awaited
  <2>2. Relay!Succeeds(r)
    BY <1>2, <1>3, <2>1, ViewOfStep
       DEF Relay!Succeeds, Answer, First, Second, Awaited, Resendable, IInv
  <2> QED BY <2>2 DEF Relay!Next
<1>5. CASE how # "ok"
  <2>1. Told(r)' = "failed" /\ Told(r) \in {"idle", "waiting"}
    BY <1>1, <1>5 DEF Told
  <2>2. Relay!Ends(r)
    BY <1>2, <1>3, <2>1, ViewOfStep
       DEF Relay!Ends, Answer, First, Second, Awaited, Resendable, IInv
  <2> QED BY <2>2 DEF Relay!Next
<1> QED BY <1>4, <1>5

\* A step that leaves the attempts of its request and its answer alone.
LEMMA QuietRelays ==
    ASSUME IInv, [Next]_vars, NEW r \in Requests, RequestStep(r) \/ ClientStep(r),
           tried'[r] = tried[r], reply'[r] = reply[r],
           (pc'[r] = "serving") <=> (pc[r] = "serving")
    PROVE  UNCHANGED Relay!forwardingVars
<1>1. Told(r)' = Told(r) /\ Attempted(r, 1)' = Attempted(r, 1) /\ Attempted(r, 2)' = Attempted(r, 2)
  BY DEF Told, Attempted
<1>2. Answer' = Answer /\ First' = First /\ Second' = Second /\ Resendable' = Resendable
  BY <1>1, ViewOfStep DEF Answer, First, Second, IInv
<1>3. Awaited' = Awaited
  BY ViewOfStep DEF Awaited, IInv
<1> QED BY <1>2, <1>3 DEF Relay!forwardingVars, Answer, First, Second, Awaited, Resendable

LEMMA RequestRelays ==
    ASSUME IInv, IInv', [Next]_vars, NEW r \in Requests, RequestStep(r) \/ ClientStep(r)
    PROVE  Relay!Next \/ UNCHANGED Relay!forwardingVars
<1> USE DEF Replies
<1>1. CASE RoutePinned(r)
  <2>1. cookie[r] \in Backends /\ Serve(r, cookie[r]) /\ reply'[r] = reply[r] /\ pc[r] = "body"
    BY <1>1 DEF RoutePinned, Pinned
  <2> QED BY <2>1, ServeRelays
<1>2. CASE Dispatch(r)
  <2>1. PICK b \in Choices(r) : Serve(r, b)
    BY <1>2 DEF Dispatch
  <2>2. b \in Backends /\ reply'[r] = reply[r] /\ pc[r] = "scan"
    BY <1>2, <2>1, ChoiceIsUsable DEF Dispatch, IInv
  <2> QED BY <2>1, <2>2, ServeRelays
<1>3. CASE RouteFree(r) \/ ReadBackend(r) \/ CompareBackend(r) \/ Arrive(r)
  <2>1. /\ tried'[r] = tried[r] /\ reply'[r] = reply[r]
        /\ pc[r] # "serving" /\ pc'[r] # "serving"
    BY <1>3 DEF RouteFree, ReadBackend, CompareBackend, Arrive, IInv, TypeOK
  <2> QED BY <2>1, QuietRelays
<1>4. CASE NoBackendLeft(r)
  BY <1>4, FinishRelays DEF NoBackendLeft, Refuse
<1>5. CASE AttemptAnswered(r)
  BY <1>5, FinishRelays DEF AttemptAnswered
<1>6. CASE AttemptFailed(r)
  <2>1. CASE Retryable(r)
    <3>1. pc[r] = "serving" /\ pc'[r] = "scan" /\ tried' = tried /\ reply' = reply
      BY <1>6, <2>1 DEF AttemptFailed, IInv, TypeOK
    <3>2. Told(r)' = Told(r) /\ Awaited' = Awaited \ {r} /\ r \in Awaited
      BY <3>1, ViewOfStep DEF Told, Awaited, IInv
    <3>3. Answer' = Answer /\ First' = First /\ Second' = Second /\ Resendable' = Resendable
      BY <3>1, <3>2, ViewOfStep DEF Answer, First, Second, Attempted, IInv
    <3>4. Relay!Fails(r)
      BY <3>2, <3>3 DEF Relay!Fails, Answer, First, Second, Awaited, Resendable
    <3> QED BY <3>4 DEF Relay!Next
  <2>2. CASE ~Retryable(r)
    BY <1>6, <2>2, FinishRelays DEF AttemptFailed
  <2> QED BY <2>1, <2>2
<1>7. CASE BodyFails(r)
  BY <1>7, FinishRelays DEF BodyFails, Refuse
<1>8. CASE ClientGaveUp(r)
  BY <1>8, FinishRelays DEF ClientGaveUp
<1>9. CASE SessionEnds(r)
  BY <1>9, FinishRelays DEF SessionEnds
<1>10. CASE ResponseCut(r)
  BY <1>10, FinishRelays DEF ResponseCut
<1> QED BY <1>1, <1>2, <1>3, <1>4, <1>5, <1>6, <1>7, <1>8, <1>9, <1>10
        DEF RequestStep, ClientStep

LEMMA StepRelays == IInv /\ IInv' /\ [Next]_vars => [Relay!Next]_(Relay!forwardingVars)
<1> SUFFICES ASSUME IInv, IInv', [Next]_vars
             PROVE  Relay!Next \/ UNCHANGED Relay!forwardingVars
  OBVIOUS
<1>1. CASE \A q \in Requests : Same(q)
  <2>1. \A q \in Requests : /\ Told(q)' = Told(q)
                            /\ Attempted(q, 1)' = Attempted(q, 1)
                            /\ Attempted(q, 2)' = Attempted(q, 2)
                            /\ pc'[q] = pc[q]
    BY <1>1, SameView
  <2>2. Answer' = Answer /\ First' = First /\ Second' = Second /\ Awaited' = Awaited
    BY <2>1 DEF Answer, First, Second, Awaited
  <2>3. Resendable' = Resendable
    BY KindsStay DEF Resendable, Replayable, Announced, BytesRead, BodyLength, Least, IsUpgrade
  <2> QED BY <2>2, <2>3 DEF Relay!forwardingVars, Answer, First, Second, Awaited, Resendable
<1> QED BY <1>1, WhoSteps, RequestRelays

\* The balancer does with every request what Forwarding promises: the handler
\* of main.go, with pick() and the ends of serveOnce(), for any number of
\* backends and requests and every policy.
THEOREM BalancerForwards == Spec => ImplementsForwarding
<1>1. Init => Relay!Init
  BY DEF Init, Relay!Init, Told, Attempted, Replayable, Announced, BytesRead, BodyLength, Least, IsUpgrade
<1> QED BY <1>1, StepRelays, BalancerInvariance, PTL DEF Spec, ImplementsForwarding, Relay!Spec

-----------------------------------------------------------------------------
(* The work left to do for a request.                                      *)

\* How many more steps a request can take, by where proxyHandler is: a scan
\* reads each backend at most twice, and there are at most two attempts.
StepsLeft(r) ==
    IF pc[r] = "idle" THEN 4 * NumBackends + 6
    ELSE IF pc[r] = "body" THEN 4 * NumBackends + 5
    ELSE IF pc[r] = "scan" /\ tried[r] = <<>> THEN 4 * NumBackends + 4 - cursor[r]
    ELSE IF pc[r] = "serving" /\ Len(tried[r]) = 1 THEN 2 * NumBackends + 3
    ELSE IF pc[r] = "scan" THEN 2 * NumBackends + 2 - cursor[r]
    ELSE IF pc[r] = "serving" THEN 1
    ELSE 0

StepsBounded == \A r \in Requests : StepsLeft(r) \in 0..(4 * NumBackends + 6)

Acts(r) == RequestStep(r) \/ ClientStep(r)

StepsGoDown ==
    \A r \in Requests : IF Acts(r) THEN StepsLeft(r)' < StepsLeft(r)
                        ELSE StepsLeft(r)' = StepsLeft(r)

\* pick() has something to do: a backend to read or to compare, nothing to
\* choose from because it saw nobody alive, or a choice to make.
PickGoesOn(r) ==
    \/ cursor[r] < NumBackends
    \/ ByLoad(r) /\ cursor[r] < 2 * NumBackends
    \/ cursor[r] = NumBackends /\ fallback[r] = {}
    \/ cursor[r] = ScanEnd(r) /\ Choices(r) # {} /\ Choices(r) \subseteq fallback[r]

PickNeverStuck == \A r \in Requests : pc[r] = "scan" => PickGoesOn(r)

LEMMA StepsLeftBounds ==
    ASSUME IInv, NEW r \in Requests
    PROVE  /\ StepsLeft(r) \in 0..(4 * NumBackends + 6)
           /\ pc[r] # "done" => StepsLeft(r) > 0
<1>1. cursor[r] \in 0..(2 * NumBackends) /\ NumBackends \in Nat \ {0}
  BY Parameters DEF IInv, TypeOK
<1>2. pc[r] \in {"idle", "body", "scan", "serving", "done"}
  BY DEF IInv, TypeOK
<1> QED BY <1>1, <1>2 DEF StepsLeft

LEMMA SameSteps ==
    ASSUME NEW q \in Requests, Same(q)
    PROVE  StepsLeft(q)' = StepsLeft(q)
BY DEF Same, StepsLeft

LEMMA StepCounts ==
    ASSUME IInv, NEW r \in Requests, Acts(r)
    PROVE  StepsLeft(r)' < StepsLeft(r)
<1>0. /\ TypeOK /\ TriedOk(r) /\ ScanOk(r)
  BY DEF IInv, TriedInv, ScanInv
<1>1. /\ cursor[r] \in 0..(2 * NumBackends) /\ NumBackends \in Nat /\ NumBackends > 0
      /\ tried[r] \in Seq(Backends)
  BY <1>0, Parameters DEF TypeOK
<1>2. StepsLeft(r) \in 0..(4 * NumBackends + 6) /\ (pc[r] # "done" => StepsLeft(r) > 0)
  BY StepsLeftBounds
<1>3. ASSUME pc'[r] = "done", pc[r] # "done"  PROVE StepsLeft(r)' < StepsLeft(r)
  <2>1. StepsLeft(r)' = 0
    BY <1>3 DEF StepsLeft
  <2> QED BY <1>2, <1>3, <2>1
<1>4. ASSUME NEW b \in Backends, Serve(r, b)
      PROVE  pc'[r] = "serving" /\ tried'[r] = Append(tried[r], b)
             /\ Len(tried'[r]) = Len(tried[r]) + 1
  BY <1>0, <1>1, <1>4 DEF Serve, TypeOK
<1>5. CASE RoutePinned(r)
  <2>1. cookie[r] \in Backends /\ Serve(r, cookie[r]) /\ pc[r] = "body" /\ tried[r] = <<>>
    BY <1>0, <1>5 DEF RoutePinned, Pinned, TriedOk
  <2>2. pc'[r] = "serving" /\ Len(tried'[r]) = 1
    BY <1>4, <2>1
  <2>3. StepsLeft(r) = 4 * NumBackends + 5 /\ StepsLeft(r)' = 2 * NumBackends + 3
    BY <2>1, <2>2 DEF StepsLeft
  <2> QED BY <1>1, <2>3
<1>6. CASE RouteFree(r)
  <2>1. /\ pc[r] = "body" /\ pc'[r] = "scan" /\ tried'[r] = <<>> /\ cursor'[r] = 0
    BY <1>0, <1>6 DEF RouteFree, TypeOK, TriedOk, ScanOk, picking
  <2>2. StepsLeft(r) = 4 * NumBackends + 5 /\ StepsLeft(r)' = 4 * NumBackends + 4 - 0
    BY <2>1 DEF StepsLeft
  <2> QED BY <1>1, <2>2
<1>7. CASE ReadBackend(r) \/ CompareBackend(r)
  <2>1. /\ pc[r] = "scan" /\ pc'[r] = "scan" /\ tried'[r] = tried[r]
        /\ cursor'[r] = cursor[r] + 1
    BY <1>0, <1>7 DEF ReadBackend, CompareBackend, TypeOK
  <2>2. CASE tried[r] = <<>>
    <3>1. /\ StepsLeft(r) = 4 * NumBackends + 4 - cursor[r]
          /\ StepsLeft(r)' = 4 * NumBackends + 4 - cursor'[r]
      BY <2>1, <2>2 DEF StepsLeft
    <3> QED BY <1>1, <2>1, <3>1
  <2>3. CASE tried[r] # <<>>
    <3>1. /\ StepsLeft(r) = 2 * NumBackends + 2 - cursor[r]
          /\ StepsLeft(r)' = 2 * NumBackends + 2 - cursor'[r]
      BY <2>1, <2>3 DEF StepsLeft
    <3> QED BY <1>1, <2>1, <3>1
  <2> QED BY <2>2, <2>3
<1>8. CASE Dispatch(r)
  <2>1. PICK b \in Choices(r) : Serve(r, b)
    BY <1>8 DEF Dispatch
  <2>2. b \in Backends /\ pc[r] = "scan"
    BY <1>8, ChoiceIsUsable DEF Dispatch, IInv
  <2>3. pc'[r] = "serving" /\ Len(tried'[r]) = Len(tried[r]) + 1
    BY <1>4, <2>1, <2>2
  <2>4. CASE tried[r] = <<>>
    <3>1. Len(tried'[r]) = 1
      BY <2>3, <2>4
    <3>2. /\ StepsLeft(r) = 4 * NumBackends + 4 - cursor[r]
          /\ StepsLeft(r)' = 2 * NumBackends + 3
      BY <2>2, <2>3, <2>4, <3>1 DEF StepsLeft
    <3> QED BY <1>1, <3>2
  <2>5. CASE tried[r] # <<>>
    <3>0. Len(tried[r]) = 1
      BY <1>0, <2>2, <2>5 DEF TriedOk
    <3>1. Len(tried'[r]) = 2
      BY <2>3, <3>0
    <3>2. StepsLeft(r) = 2 * NumBackends + 2 - cursor[r] /\ StepsLeft(r)' = 1
      BY <2>2, <2>3, <2>5, <3>1 DEF StepsLeft
    <3> QED BY <1>1, <3>2
  <2> QED BY <2>4, <2>5
<1>9. CASE AttemptFailed(r) /\ pc'[r] = "scan"
  <2>1. pc[r] = "serving" /\ cursor'[r] = 0 /\ tried'[r] = tried[r] /\ Len(tried[r]) = 1
    BY <1>0, <1>9 DEF AttemptFailed, Retryable, Finish, TypeOK, ScanOk, picking
  <2>2. tried[r] # <<>> /\ tried'[r] # <<>> /\ pc'[r] = "scan"
    <3>1. tried[r] # <<>>
      BY <1>0, <2>1 DEF TriedOk
    <3> QED BY <1>9, <2>1, <3>1
  <2>3. StepsLeft(r) = 2 * NumBackends + 3
    BY <2>1 DEF StepsLeft
  <2>4. StepsLeft(r)' = 2 * NumBackends + 2 - 0
    BY <2>1, <2>2 DEF StepsLeft
  <2> QED BY <1>1, <2>3, <2>4
<1>10. CASE Arrive(r)
  <2>1. pc[r] = "idle" /\ pc'[r] = "body"
    BY <1>0, <1>10 DEF Arrive, TypeOK
  <2>2. StepsLeft(r) = 4 * NumBackends + 6 /\ StepsLeft(r)' = 4 * NumBackends + 5
    BY <2>1 DEF StepsLeft
  <2> QED BY <1>1, <2>2
<1>11. CASE NoBackendLeft(r) \/ AttemptAnswered(r) \/ (AttemptFailed(r) /\ pc'[r] # "scan")
  BY <1>0, <1>3, <1>11
     DEF NoBackendLeft, AttemptAnswered, AttemptFailed, Refuse, Finish, TypeOK
<1>12. CASE BodyFails(r) \/ ClientGaveUp(r) \/ SessionEnds(r) \/ ResponseCut(r)
  BY <1>0, <1>3, <1>12
     DEF BodyFails, ClientGaveUp, SessionEnds, ResponseCut, Refuse, Finish, TypeOK
<1> QED BY <1>5, <1>6, <1>7, <1>8, <1>9, <1>10, <1>11, <1>12
        DEF Acts, RequestStep, ClientStep

LEMMA StepsLeftStep == IInv /\ [Next]_vars => StepsGoDown
<1> SUFFICES ASSUME IInv, [Next]_vars, NEW r \in Requests
             PROVE  IF Acts(r) THEN StepsLeft(r)' < StepsLeft(r)
                    ELSE StepsLeft(r)' = StepsLeft(r)
  BY DEF StepsGoDown
<1>1. CASE Acts(r)
  BY <1>1, StepCounts
<1>2. CASE ~Acts(r)
  <2>1. Same(r)
    BY <1>2, WhoSteps, OthersUntouched DEF Acts, IInv
  <2> QED BY <1>2, <2>1, SameSteps
<1> QED BY <1>1, <1>2

\* A request takes at most 4 * NumBackends + 6 steps, whatever the backends, the
\* probers and the other requests do meanwhile: each of its steps uses one up,
\* and nobody else's takes one from it or gives one back (pick()'s loops and
\* proxyHandler's single retry cannot go round for ever).
THEOREM RequestsWindDown == Spec => []StepsBounded /\ [][StepsGoDown]_vars
<1>1. IInv => StepsBounded
  BY StepsLeftBounds DEF StepsBounded
<1> QED BY <1>1, StepsLeftStep, BalancerInvariance, PTL DEF Spec

\* pick() always gets to an answer, although the health it reads changes under
\* it: it has backends left to read, it makes a choice among backends it saw
\* alive, or it returns nil, and then only because it saw none alive.
THEOREM PickAlwaysDecides == Spec => []PickNeverStuck
<1>1. IInv => PickNeverStuck
  <2> SUFFICES ASSUME IInv, NEW r \in Requests, pc[r] = "scan"
               PROVE  PickGoesOn(r)
    BY DEF PickNeverStuck
  <2>1. /\ cursor[r] \in 0..(2 * NumBackends) /\ NumBackends \in Nat
        /\ ScanOk(r)
    BY Parameters DEF IInv, TypeOK, ScanInv
  <2>2. CASE ByLoad(r)
    <3>1. CASE cursor[r] < 2 * NumBackends
      BY <2>2, <3>1 DEF PickGoesOn
    <3>2. CASE cursor[r] = 2 * NumBackends
      <4>1. cursor[r] = ScanEnd(r) /\ Choices(r) = {best[r]}
        BY <2>2, <3>2 DEF ScanEnd, Choices
      <4>2. best[r] \in fallback[r]
        BY <4>1, ChoiceIsUsable DEF IInv
      <4> QED BY <4>1, <4>2 DEF PickGoesOn
    <3> QED BY <2>1, <3>1, <3>2
  <2>3. CASE ~ByLoad(r)
    <3>1. CASE cursor[r] < NumBackends
      BY <3>1 DEF PickGoesOn
    <3>2. CASE cursor[r] = NumBackends
      <4>1. ScanEnd(r) = NumBackends /\ Choices(r) = pool[r]
        BY <2>3 DEF ScanEnd, Choices
      <4>2. fallback[r] = {} \/ pool[r] # {}
        BY <2>3 DEF ByLoad
      <4> QED BY <2>1, <3>2, <4>1, <4>2 DEF PickGoesOn, ScanOk
    <3> QED BY <2>1, <2>3, <3>1, <3>2 DEF ScanOk
  <2> QED BY <2>2, <2>3
<1> QED BY <1>1, BalancerInvariance, PTL

-----------------------------------------------------------------------------
(* The sticky cookie.                                                      *)

\* The cookie, once it is in the header, names the first backend tried.
CookieOk(r) ==
    setCookie[r] # NoBackend => tried[r] # <<>> /\ setCookie[r] = tried[r][1]

CookieInv == \A r \in Requests : CookieOk(r)

LEMMA FirstOfAppend ==
    ASSUME NEW s \in Seq(Backends), NEW b \in Backends
    PROVE  /\ Append(s, b) # <<>>
           /\ Append(s, b)[1] = IF s = <<>> THEN b ELSE s[1]
<1>1. /\ Len(s) \in Nat /\ Len(Append(s, b)) = Len(s) + 1
      /\ Append(s, b)[Len(s) + 1] = b
      /\ \A i \in 1..Len(s) : Append(s, b)[i] = s[i]
  OBVIOUS
<1>2. s = <<>> <=> Len(s) = 0
  OBVIOUS
<1>3. Append(s, b) # <<>>
  <2>1. Len(Append(s, b)) # 0
    BY ONLY <1>1
  <2>2. Len(<<>>) = 0
    OBVIOUS
  <2> QED BY ONLY <2>1, <2>2, Zenon
<1>4. CASE s = <<>>
  BY <1>1, <1>2, <1>3, <1>4
<1>5. CASE s # <<>>
  BY <1>1, <1>2, <1>3, <1>5
<1> QED BY <1>4, <1>5

\* Exactly the requests that were not retried are given the right cookie.
WrongCookieMeansRetry ==
    \A r \in Requests :
        reply[r] = "ok" /\ setCookie[r] # NoBackend
            => (setCookie[r] = At(r) <=> Len(tried[r]) = 1)

LEMMA CookieStep == IInv /\ CookieInv /\ [Next]_vars => CookieInv'
<1> SUFFICES ASSUME IInv, CookieInv, [Next]_vars
             PROVE  CookieInv'
  OBVIOUS
<1>1. TypeOK
  BY DEF IInv
<1>2. ASSUME NEW q \in Requests, Same(q)  PROVE CookieOk(q)'
  BY <1>2 DEF Same, CookieInv, CookieOk
<1>3. ASSUME NEW r \in Requests, RequestStep(r) \/ ClientStep(r)
      PROVE  CookieOk(r)'
  <2>1. CookieOk(r) /\ tried[r] \in Seq(Backends)
    BY <1>1 DEF CookieInv, TypeOK
  <2>2. ASSUME NEW b \in Backends, Serve(r, b)
        PROVE  /\ tried'[r] # <<>>
               /\ tried'[r][1] = IF tried[r] = <<>> THEN b ELSE tried[r][1]
    <3>1. tried'[r] = Append(tried[r], b)
      BY <1>1, <2>2 DEF Serve, TypeOK
    <3> QED BY <2>1, <3>1, FirstOfAppend
  <2>3. CASE RoutePinned(r)
    <3>1. cookie[r] \in Backends /\ Serve(r, cookie[r]) /\ setCookie'[r] = setCookie[r]
      BY <2>3 DEF RoutePinned, Pinned
    <3> QED BY <2>1, <2>2, <3>1 DEF CookieOk
  <2>4. CASE Dispatch(r)
    <3>1. PICK b \in Choices(r) :
            /\ Serve(r, b)
            /\ setCookie' = [setCookie EXCEPT ![r] =
                                 IF IsSocketIO(r) /\ tried[r] = <<>> THEN b ELSE @]
      BY <2>4 DEF Dispatch
    <3>2. b \in Backends
      BY <2>4, ChoiceIsUsable DEF Dispatch, IInv
    <3>3. setCookie'[r] = IF IsSocketIO(r) /\ tried[r] = <<>> THEN b ELSE setCookie[r]
      BY <1>1, <3>1 DEF TypeOK
    <3>4. CASE tried[r] = <<>>
      BY <2>1, <2>2, <3>1, <3>2, <3>3, <3>4 DEF CookieOk
    <3>5. CASE tried[r] # <<>>
      BY <2>1, <2>2, <3>1, <3>2, <3>3, <3>5 DEF CookieOk
    <3> QED BY <3>4, <3>5
  <2>5. CASE UNCHANGED <<tried, setCookie>>
    BY <2>1, <2>5 DEF CookieOk
  <2>6. CASE RouteFree(r) \/ ReadBackend(r) \/ CompareBackend(r) \/ NoBackendLeft(r)
    BY <2>5, <2>6 DEF RouteFree, ReadBackend, CompareBackend, NoBackendLeft
  <2>7. CASE AttemptAnswered(r) \/ AttemptFailed(r)
    BY <2>5, <2>7 DEF AttemptAnswered, AttemptFailed
  <2>8. CASE ClientStep(r)
    BY <2>5, <2>8 DEF ClientStep, Arrive, BodyFails, ClientGaveUp, SessionEnds, ResponseCut
  <2> QED BY <1>3, <2>3, <2>4, <2>6, <2>7, <2>8 DEF RequestStep
<1>4. \A q \in Requests : CookieOk(q)'
  BY <1>1, <1>2, <1>3, WhoSteps, OthersUntouched
<1> QED BY <1>4 DEF CookieInv

\* The header of a retried request keeps the cookie of the first attempt: the
\* cookie that a client is given with an answer names the backend that answered
\* when there was one attempt, and another backend whenever there were two.
THEOREM CookieNamesFirst == Spec => []WrongCookieMeansRetry
<1>1. Init => CookieInv
  BY DEF Init, CookieInv, CookieOk
<1>2. IInv /\ CookieInv => WrongCookieMeansRetry
  <2> SUFFICES ASSUME IInv, CookieInv, NEW r \in Requests, setCookie[r] # NoBackend
               PROVE  setCookie[r] = At(r) <=> Len(tried[r]) = 1
    BY DEF WrongCookieMeansRetry
  <2>1. tried[r] \in Seq(Backends) /\ tried[r] # <<>> /\ setCookie[r] = tried[r][1]
    BY DEF IInv, TypeOK, CookieInv, CookieOk
  <2>2. Len(tried[r]) \in Nat \ {0}
    BY <2>1
  <2>3. CASE Len(tried[r]) = 1
    BY <2>1, <2>3 DEF At
  <2>4. CASE Len(tried[r]) = 2 /\ tried[r][1] # tried[r][2]
    BY <2>1, <2>4 DEF At
  <2>5. Len(tried[r]) < 2 => Len(tried[r]) = 1
    <3>1. \A n \in Nat \ {0} : n < 2 => n = 1
      OBVIOUS
    <3> QED BY <2>2, <3>1
  <2>6. \/ Len(tried[r]) < 2
        \/ Len(tried[r]) = 2 /\ tried[r][1] # tried[r][2]
    BY DEF IInv, OneRetryElsewhere
  <2> QED BY <2>3, <2>4, <2>5, <2>6
<1> QED BY <1>1, <1>2, CookieStep, BalancerInvariance, PTL DEF Spec
=============================================================================
