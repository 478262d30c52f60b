------------------------------ MODULE Balancer ------------------------------
(***************************************************************************)
(* src/sources/lb/main.go: the load balancer.  Each request is served by a *)
(* goroutine of its own (proxyHandler), each probe round starts one prober *)
(* per backend (probeLoop, probe), and they share the backends' health     *)
(* under one lock per backend.                                             *)
(*                                                                         *)
(* pick() reads that health backend by backend, so it is modelled as a     *)
(* scan with one step per lock it takes.  What a backend does (die, stall, *)
(* come back) and what a client does (give up, break its connection) are   *)
(* actions of the environment.  Loads are small integers: scores keep the  *)
(* code's weights, smoothing and comparisons on the scale 0..ScoreMax.     *)
(***************************************************************************)
EXTENDS Integers, Sequences, FiniteSets

CONSTANTS NumBackends,       \* backends have the ids 0..NumBackends-1
          Requests,          \* requests, one element per call of proxyHandler
          Kinds,             \* the kinds of request that occur
          Policy,            \* "performance", "roundrobin" or "least-load"
          FailureThreshold,  \* failures in a row that mark a backend down
          RecoveryThreshold, \* good probes in a row that mark it up again
          ScoreMax,          \* the score that stands for 1.0
          Threshold,         \* scores above it take traffic away
          Hysteresis,        \* how far below it a score must fall to return
          Loads,             \* raw scores a probe can produce
          InflightReference, \* in-flight requests that count as fully loaded
          MaxFaults,         \* bound: crashes and stalls in a behaviour
          MaxResets          \* bound: calls of /lb/reset in a behaviour

Backends == 0..(NumBackends - 1)
NoBackend == -1

(***************************************************************************)
(* Kinds of request, by the facts the handler branches on: "plain" has a   *)
(* small body, "large" one over maxReplayBytes, "chunked" such a body with *)
(* no Content-Length, "poll" is Socket.IO polling, "upgrade" a WebSocket   *)
(* upgrade on the Socket.IO path.                                          *)
(***************************************************************************)
AllKinds == {"plain", "large", "chunked", "poll", "upgrade"}

ASSUME BalancerAssumption ==
    /\ NumBackends \in Nat \ {0}
    /\ IsFiniteSet(Requests)
    /\ Kinds \subseteq AllKinds
    /\ Policy \in {"performance", "roundrobin", "least-load"}
    /\ FailureThreshold \in Nat \ {0}
    /\ RecoveryThreshold \in Nat \ {0}
    /\ ScoreMax \in Nat \ {0}
    /\ Threshold \in 0..ScoreMax
    /\ Hysteresis \in 0..Threshold
    /\ Loads \subseteq 0..ScoreMax
    /\ InflightReference \in Nat \ {0}
    /\ MaxFaults \in Nat
    /\ MaxResets \in Nat

VARIABLES
    \* per backend, under its lock
    alive,       \* in rotation
    overloaded,  \* over the threshold
    okStreak,    \* good probes in a row, counted up to RecoveryThreshold
    failStreak,  \* failures in a row, counted up to FailureThreshold
    score,       \* smoothed load
    \* per backend, atomic
    inflight,    \* requests being served by it
    \* the probers
    probe,       \* "idle", "asked", "failed" or "good"
    load,        \* the raw score a good probe brought back, 0 once it is used
    \* the requests
    pc,          \* "idle", "body", "scan", "serving" or "done"
    kind, cookie,\* what the client sent
    cursor,      \* pick(): the next backend to read, in two passes
    pool,        \* pick(): alive and, for the performance policy, not overloaded
    fallback,    \* pick(): alive
    best, bestScore,  \* pick(): the least loaded candidate so far
    tried,       \* the backends attempts were made on
    setCookie,   \* the sticky cookie the client is given
    reply,       \* how the request ended for the client
    \* the counters behind /lb/metrics
    requests, succeeded, failures, abandoned, retried,
    \* the environment
    condition,   \* what each backend is doing: "up", "stalled" or "down"
    broken,      \* requests whose connection to their backend has broken
    faulted,     \* backends that have ever been anything but up
    faults, resets

health == <<alive, overloaded, okStreak, failStreak, score>>
probers == <<probe, load>>
picking == <<cursor, pool, fallback, best, bestScore>>
requestVars == <<pc, kind, cookie, picking, tried, setCookie, reply>>
counters == <<requests, succeeded, failures, abandoned, retried>>
surroundings == <<condition, faulted, faults, resets>>
environment == <<broken, surroundings>>
vars == <<health, inflight, probers, requestVars, counters, environment>>

Replies == {"none", "ok", "error", "badGateway", "unavailable", "badRequest",
            "gone", "cut"}

TypeOK ==
    /\ alive \in [Backends -> BOOLEAN]
    /\ overloaded \in [Backends -> BOOLEAN]
    /\ okStreak \in [Backends -> 0..RecoveryThreshold]
    /\ failStreak \in [Backends -> 0..FailureThreshold]
    /\ score \in [Backends -> 0..ScoreMax]
    /\ inflight \in [Backends -> Nat]
    /\ probe \in [Backends -> {"idle", "asked", "failed", "good"}]
    /\ load \in [Backends -> 0..ScoreMax]
    /\ pc \in [Requests -> {"idle", "body", "scan", "serving", "done"}]
    /\ kind \in [Requests -> Kinds]
    /\ cookie \in [Requests -> Backends \cup {NoBackend}]
    /\ cursor \in [Requests -> 0..(2 * NumBackends)]
    /\ pool \in [Requests -> SUBSET Backends]
    /\ fallback \in [Requests -> SUBSET Backends]
    /\ best \in [Requests -> Backends \cup {NoBackend}]
    /\ bestScore \in [Requests -> Nat]
    /\ tried \in [Requests -> Seq(Backends)]
    /\ setCookie \in [Requests -> Backends \cup {NoBackend}]
    /\ reply \in [Requests -> Replies]
    /\ \A n \in {requests, succeeded, failures, abandoned, retried} : n \in Nat
    /\ condition \in [Backends -> {"up", "stalled", "down"}]
    /\ broken \subseteq Requests
    /\ faulted \subseteq Backends
    /\ faults \in 0..MaxFaults
    /\ resets \in 0..MaxResets

IsSocketIO(r) == kind[r] \in {"poll", "upgrade"}
IsUpgrade(r) == kind[r] = "upgrade"

Least(m, n) == IF m < n THEN m ELSE n

\* maxReplayBytes (65536), scaled down.  A body is as long as the limit allows,
\* or one byte longer.
MaxReplayBytes == 2
BodyLength(r) == IF kind[r] \in {"large", "chunked"} THEN MaxReplayBytes + 1
                                                    ELSE MaxReplayBytes
Announced(r) == kind[r] # "chunked"

\* A body announced to be too long goes straight through; any other is read
\* into memory up to one byte over the limit, and can be sent again if that was
\* all of it.
Buffered(r) ==
    ~IsUpgrade(r) /\ ~(Announced(r) /\ BodyLength(r) > MaxReplayBytes)
BytesRead(r) == Least(BodyLength(r), MaxReplayBytes + 1)

\* Deviation: what was read into the buffer is taken for the whole body.
ReplayableUnmeasured(r) == Announced(r) => BodyLength(r) <= MaxReplayBytes

Replayable(r) ==
    /\ Announced(r) => BodyLength(r) <= MaxReplayBytes
    /\ BytesRead(r) <= MaxReplayBytes

\* main() starts every backend alive with an empty history.
Init ==
    /\ alive = [b \in Backends |-> TRUE]
    /\ overloaded = [b \in Backends |-> FALSE]
    /\ okStreak = [b \in Backends |-> 0]
    /\ failStreak = [b \in Backends |-> 0]
    /\ score = [b \in Backends |-> 0]
    /\ inflight = [b \in Backends |-> 0]
    /\ probe = [b \in Backends |-> "idle"]
    /\ load = [b \in Backends |-> 0]
    /\ pc = [r \in Requests |-> "idle"]
    /\ kind \in [Requests -> Kinds]
    /\ cookie \in {f \in [Requests -> Backends \cup {NoBackend}] :
                      \A r \in Requests : ~IsSocketIO(r) => f[r] = NoBackend}
    /\ cursor = [r \in Requests |-> 0]
    /\ pool = [r \in Requests |-> {}]
    /\ fallback = [r \in Requests |-> {}]
    /\ best = [r \in Requests |-> NoBackend]
    /\ bestScore = [r \in Requests |-> 0]
    /\ tried = [r \in Requests |-> <<>>]
    /\ setCookie = [r \in Requests |-> NoBackend]
    /\ reply = [r \in Requests |-> "none"]
    /\ requests = 0 /\ succeeded = 0 /\ failures = 0
    /\ abandoned = 0 /\ retried = 0
    /\ condition = [b \in Backends |-> "up"]
    /\ broken = {}
    /\ faulted = {}
    /\ faults = 0
    /\ resets = 0

-----------------------------------------------------------------------------
(***************************************************************************)
(* Health: markFailure() and probe().                                      *)
(***************************************************************************)

\* A failed attempt and a failed probe are the same evidence.
RecordFailure(b) ==
    /\ okStreak' = [okStreak EXCEPT ![b] = 0]
    /\ failStreak' =
           [failStreak EXCEPT ![b] = Least(@ + 1, FailureThreshold)]
    /\ alive' = [alive EXCEPT ![b] = @ /\ failStreak'[b] < FailureThreshold]
    /\ UNCHANGED <<overloaded, score>>

\* The smoothed score, 0.45 raw + 0.55 old, rounded either way.  A score of
\* zero is taken for "no score yet".
Smoothed(raw, old) ==
    LET mixed == 9 * raw + 11 * old
    IN IF old = 0 THEN {raw} ELSE {mixed \div 20, (mixed + 19) \div 20}

\* probeLoop(): a round starts when every prober of the last one has finished.
ProbeTick ==
    /\ \A b \in Backends : probe[b] = "idle"
    /\ probe' = [b \in Backends |-> "asked"]
    /\ UNCHANGED <<health, inflight, load, requestVars, counters, environment>>

\* fetchLoad() returns; nothing is locked while it waits.
ProbeAnswered(b) ==
    /\ probe[b] = "asked"
    /\ \/ /\ condition[b] = "up"
          /\ probe' = [probe EXCEPT ![b] = "good"]
          /\ \E l \in Loads : load' = [load EXCEPT ![b] = l]
       \/ /\ condition[b] # "up"
          /\ probe' = [probe EXCEPT ![b] = "failed"]
          /\ UNCHANGED load
    /\ UNCHANGED <<health, inflight, requestVars, counters, environment>>

\* Deviation: only traffic counts failures, a failed probe resets the streak.
ProbeFailedUncounted(b) ==
    /\ probe[b] = "failed"
    /\ probe' = [probe EXCEPT ![b] = "idle"]
    /\ okStreak' = [okStreak EXCEPT ![b] = 0]
    /\ UNCHANGED <<alive, overloaded, failStreak, score, inflight, load,
                   requestVars, counters, environment>>

\* The part of probe() under the lock, for a probe that failed ...
ProbeFailed(b) ==
    /\ probe[b] = "failed"
    /\ probe' = [probe EXCEPT ![b] = "idle"]
    /\ RecordFailure(b)
    /\ UNCHANGED <<inflight, load, requestVars, counters, environment>>

\* Deviation: a revived backend counts as under the threshold.
OverUnlessRevived(b, s, revived) ==
    /\ ~revived
    /\ \/ s > Threshold
       \/ overloaded[b] /\ s >= Threshold - Hysteresis

\* Whether b is overloaded at the new score s: crossing the threshold makes it
\* so, and once so it stays down to the lower edge of the band.
Over(b, s, revived) ==
    \/ s > Threshold
    \/ overloaded[b] /\ ~revived /\ s >= Threshold - Hysteresis

\* ... and for one that brought a load back: revival after enough good probes,
\* then the new score, then the threshold with its hysteresis.
ProbeGood(b) ==
    /\ probe[b] = "good"
    /\ probe' = [probe EXCEPT ![b] = "idle"]
    /\ failStreak' = [failStreak EXCEPT ![b] = 0]
    /\ okStreak' = [okStreak EXCEPT ![b] = Least(@ + 1, RecoveryThreshold)]
    /\ LET revived == ~alive[b] /\ okStreak'[b] >= RecoveryThreshold
       IN /\ alive' = [alive EXCEPT ![b] = @ \/ revived]
          /\ \E s \in Smoothed(load[b], score[b]) :
                /\ score' = [score EXCEPT ![b] = s]
                /\ overloaded' = [overloaded EXCEPT ![b] = Over(b, s, revived)]
    /\ load' = [load EXCEPT ![b] = 0]
    /\ UNCHANGED <<inflight, requestVars, counters, environment>>

-----------------------------------------------------------------------------
(***************************************************************************)
(* pick(): read the backends one at a time, then choose.                   *)
(***************************************************************************)

\* Deviation: the retry may go to the backend that has just failed.
ExcludedNobody(r) == NoBackend

\* pick(b.ID) never looks at the backend of the failed attempt.
Excluded(r) == IF tried[r] = <<>> THEN NoBackend ELSE Head(tried[r])

\* The locals of pick(), before and after it runs.
FreshScan(r) ==
    /\ cursor' = [cursor EXCEPT ![r] = 0]
    /\ pool' = [pool EXCEPT ![r] = {}]
    /\ fallback' = [fallback EXCEPT ![r] = {}]
    /\ best' = [best EXCEPT ![r] = NoBackend]
    /\ bestScore' = [bestScore EXCEPT ![r] = 0]

Usable(r, b) == b # Excluded(r) /\ alive[b]
Calm(b) == Policy # "performance" \/ ~overloaded[b]

ReadBackend(r) ==
    /\ pc[r] = "scan"
    /\ cursor[r] < NumBackends
    /\ cursor' = [cursor EXCEPT ![r] = @ + 1]
    /\ LET b == cursor[r]
           read == IF Usable(r, b) THEN {b} ELSE {}
       IN /\ fallback' = [fallback EXCEPT ![r] = @ \cup read]
          /\ pool' = [pool EXCEPT ![r] = @ \cup {c \in read : Calm(c)}]
    /\ UNCHANGED <<health, inflight, probers, pc, kind, cookie, best, bestScore,
                   tried, setCookie, reply, counters, environment>>

\* instantScore(), scaled by 4 * ScoreMax * InflightReference.
InstantScore(b) ==
    3 * InflightReference * score[b]
        + ScoreMax * Least(inflight[b], InflightReference)

\* The least loaded is looked for when everything is over the threshold, and
\* always under the policy of that name.
ByLoad(r) == fallback[r] # {} /\ (pool[r] = {} \/ Policy = "least-load")
Candidates(r) == IF pool[r] = {} THEN fallback[r] ELSE pool[r]

\* The search reads one backend's score at a time too, lowest id first.
CompareBackend(r) ==
    /\ pc[r] = "scan"
    /\ cursor[r] \in NumBackends..(2 * NumBackends - 1)
    /\ ByLoad(r)
    /\ cursor' = [cursor EXCEPT ![r] = @ + 1]
    /\ LET b == cursor[r] - NumBackends
           better == /\ b \in Candidates(r)
                     /\ best[r] = NoBackend \/ InstantScore(b) < bestScore[r]
       IN /\ best' = [best EXCEPT ![r] = IF better THEN b ELSE @]
          /\ bestScore' = [bestScore EXCEPT ![r] =
                               IF better THEN InstantScore(b) ELSE @]
    /\ UNCHANGED <<health, inflight, probers, pc, kind, cookie, pool, fallback,
                   tried, setCookie, reply, counters, environment>>

\* The performance policy draws from the pool in proportion to headroom and
\* gives everyone in it some weight; round robin can be at any point of its
\* rotation.
Choices(r) == IF ByLoad(r) THEN {best[r]} ELSE pool[r]
ScanEnd(r) == IF ByLoad(r) THEN 2 * NumBackends ELSE NumBackends

-----------------------------------------------------------------------------
(***************************************************************************)
(* proxyHandler().                                                         *)
(***************************************************************************)
At(r) == tried[r][Len(tried[r])]

Arrive(r) ==
    /\ pc[r] = "idle"
    /\ pc' = [pc EXCEPT ![r] = "body"]
    /\ requests' = requests + 1
    /\ UNCHANGED <<health, inflight, probers, kind, cookie, picking, tried,
                   setCookie, reply, succeeded, failures, abandoned, retried,
                   environment>>

Finish(r, how) ==
    /\ pc' = [pc EXCEPT ![r] = "done"]
    /\ reply' = [reply EXCEPT ![r] = how]

\* Deviation: a request that gets no further is not counted.
RefuseUncounted(r, how) == Finish(r, how) /\ UNCHANGED failures

Refuse(r, how) == Finish(r, how) /\ failures' = failures + 1

\* The client's body cannot be read into the replay buffer.
BodyFails(r) ==
    /\ pc[r] = "body"
    /\ Buffered(r)
    /\ Refuse(r, "badRequest")
    /\ UNCHANGED <<health, inflight, probers, kind, cookie, picking, tried,
                   setCookie, requests, succeeded, abandoned, retried,
                   environment>>

\* The start of serveOnce() on backend b.
Serve(r, b) ==
    /\ pc' = [pc EXCEPT ![r] = "serving"]
    /\ tried' = [tried EXCEPT ![r] = Append(@, b)]
    /\ inflight' = [inflight EXCEPT ![b] = @ + 1]

\* stickyBackend(): a Socket.IO request goes where its cookie says, if that
\* backend is alive, whatever its load.
Pinned(r) == IsSocketIO(r) /\ cookie[r] \in {b \in Backends : alive[b]}

RoutePinned(r) ==
    /\ pc[r] = "body"
    /\ Pinned(r)
    /\ Serve(r, cookie[r])
    /\ UNCHANGED <<health, probers, kind, cookie, picking, setCookie, reply,
                   counters, environment>>

RouteFree(r) ==
    /\ pc[r] = "body"
    /\ ~Pinned(r)
    /\ pc' = [pc EXCEPT ![r] = "scan"]
    /\ UNCHANGED <<health, inflight, probers, kind, cookie, picking, tried,
                   setCookie, reply, counters, environment>>

\* pick() has a backend: the first attempt, or the one retry.  Only the first
\* one sets the cookie.
Dispatch(r) ==
    /\ pc[r] = "scan"
    /\ cursor[r] = ScanEnd(r)
    /\ FreshScan(r)
    /\ \E b \in Choices(r) :
          /\ Serve(r, b)
          /\ setCookie' = [setCookie EXCEPT ![r] =
                               IF IsSocketIO(r) /\ tried[r] = <<>> THEN b ELSE @]
    /\ retried' = IF tried[r] = <<>> THEN retried ELSE retried + 1
    /\ UNCHANGED <<health, probers, kind, cookie, reply, requests, succeeded,
                   failures, abandoned, environment>>

\* pick() returned nil: 503 for a first attempt, and for a retry the failure of
\* the first attempt stands.
NoBackendLeft(r) ==
    /\ pc[r] = "scan"
    /\ cursor[r] = NumBackends
    /\ fallback[r] = {}
    /\ FreshScan(r)
    /\ Refuse(r, IF tried[r] = <<>> THEN "unavailable" ELSE "badGateway")
    /\ UNCHANGED <<health, inflight, probers, kind, cookie, tried, setCookie,
                   requests, succeeded, abandoned, retried, environment>>

-----------------------------------------------------------------------------
(***************************************************************************)
(* The rest of serveOnce() and finish(), by how the attempt ends.          *)
(***************************************************************************)

\* Deviation: decremented by the defer and once more by hand.
LeaveTwice(r) ==
    /\ inflight' = [inflight EXCEPT ![At(r)] = @ - 2]
    /\ broken' = broken \ {r}

\* The deferred decrement: it runs whichever way ServeHTTP ends.
Leave(r) ==
    /\ inflight' = [inflight EXCEPT ![At(r)] = @ - 1]
    /\ broken' = broken \ {r}

\* The backend answered, and the answer reached the client.
AttemptAnswered(r) ==
    /\ pc[r] = "serving"
    /\ condition[At(r)] = "up"
    /\ r \notin broken
    /\ Leave(r)
    /\ \/ /\ Finish(r, "ok")
          /\ succeeded' = succeeded + 1
          /\ UNCHANGED failures
       \/ /\ Finish(r, "error")
          /\ failures' = failures + 1
          /\ UNCHANGED succeeded
    /\ UNCHANGED <<health, probers, kind, cookie, picking, tried, setCookie,
                   requests, abandoned, retried, surroundings>>

\* Deviation: a dial has no timeout, and waits for a backend that is down.
RoundTripFailsCut(r) == r \in broken

\* The connection has broken, or the backend cannot be dialled.
RoundTripFails(r) == r \in broken \/ condition[At(r)] = "down"

\* Deviation: no retry once the backend is marked down.
RetryableWhileUp(r) ==
    Len(tried[r]) = 1 /\ Replayable(r) /\ ~IsUpgrade(r) /\ alive[At(r)]

\* ErrorHandler, because of the backend: the round trip failed and nothing has
\* been written.  markFailure(), then a retry elsewhere or a 502.
Retryable(r) == Len(tried[r]) = 1 /\ Replayable(r) /\ ~IsUpgrade(r)

AttemptFailed(r) ==
    /\ pc[r] = "serving"
    /\ RoundTripFails(r)
    /\ Leave(r)
    /\ RecordFailure(At(r))
    /\ \/ /\ Retryable(r)
          /\ pc' = [pc EXCEPT ![r] = "scan"]
          /\ UNCHANGED <<reply, failures>>
       \/ /\ ~Retryable(r)
          /\ Finish(r, "badGateway")
          /\ failures' = failures + 1
    /\ UNCHANGED <<probers, kind, cookie, picking, tried, setCookie, requests,
                   succeeded, abandoned, retried, surroundings>>

\* Deviation: a cancelled attempt is held against the backend.
ClientGaveUpBlaming(r) ==
    /\ pc[r] = "serving"
    /\ Leave(r)
    /\ RecordFailure(At(r))
    /\ Finish(r, "gone")
    /\ abandoned' = abandoned + 1
    /\ failures' = failures + 1
    /\ UNCHANGED <<probers, kind, cookie, picking, tried, setCookie, requests,
                   succeeded, retried, surroundings>>

\* ErrorHandler, because the client gave up: the backend is not blamed and
\* nothing is retried.
ClientGaveUp(r) ==
    /\ pc[r] = "serving"
    /\ Leave(r)
    /\ Finish(r, "gone")
    /\ abandoned' = abandoned + 1
    /\ failures' = failures + 1
    /\ UNCHANGED <<health, probers, kind, cookie, picking, tried, setCookie,
                   requests, succeeded, retried, surroundings>>

\* The request has a connection to its backend, or can still get one.
Reached(r) == r \in broken \/ condition[At(r)] # "down"

\* An upgraded connection, once set up, ends without an error whichever side
\* closes it, the backend by dying included.
SessionEnds(r) ==
    /\ pc[r] = "serving"
    /\ IsUpgrade(r)
    /\ Reached(r)
    /\ Leave(r)
    /\ Finish(r, "ok")
    /\ succeeded' = succeeded + 1
    /\ UNCHANGED <<health, probers, kind, cookie, picking, tried, setCookie,
                   requests, failures, abandoned, retried, surroundings>>

\* Deviation: the decrement is a plain statement, which a panic skips.
ResponseCutLeaking(r) ==
    /\ pc[r] = "serving"
    /\ Reached(r)
    /\ Finish(r, "cut")
    /\ UNCHANGED <<health, inflight, probers, kind, cookie, picking, tried,
                   setCookie, counters, environment>>

\* The connection of the client or of the backend breaks while the response is
\* being copied: ServeHTTP panics with ErrAbortHandler, and everything after it
\* is skipped except the deferred decrement.  An upgrade that is answered like
\* any other request can be cut too.
ResponseCut(r) ==
    /\ pc[r] = "serving"
    /\ Reached(r)
    /\ Leave(r)
    /\ Finish(r, "cut")
    /\ UNCHANGED <<health, probers, kind, cookie, picking, tried, setCookie,
                   counters, surroundings>>

\* resetHandler().
Reset ==
    /\ resets < MaxResets
    /\ resets' = resets + 1
    /\ requests' = 0
    /\ succeeded' = 0
    /\ failures' = 0
    /\ retried' = 0
    /\ UNCHANGED <<health, inflight, probers, requestVars, abandoned, condition,
                   broken, faulted, faults>>

-----------------------------------------------------------------------------
(***************************************************************************)
(* The backends themselves.                                                *)
(***************************************************************************)
Fault(b) ==
    /\ condition[b] = "up"
    /\ faults < MaxFaults
    /\ faults' = faults + 1
    /\ faulted' = faulted \cup {b}

\* The process dies, and with it the connections of the requests it serves.
Crash(b) ==
    /\ Fault(b)
    /\ condition' = [condition EXCEPT ![b] = "down"]
    /\ broken' = broken \cup {r \in Requests : pc[r] = "serving" /\ At(r) = b}
    /\ UNCHANGED <<health, inflight, probers, requestVars, counters, resets>>

\* The event loop is blocked for longer than a probe waits.
Stall(b) ==
    /\ Fault(b)
    /\ condition' = [condition EXCEPT ![b] = "stalled"]
    /\ UNCHANGED <<health, inflight, probers, requestVars, counters, broken,
                   resets>>

\* The supervisor restarts the process, or the event loop comes free.
Recover(b) ==
    /\ condition[b] # "up"
    /\ condition' = [condition EXCEPT ![b] = "up"]
    /\ UNCHANGED <<health, inflight, probers, requestVars, counters, broken,
                   faulted, faults, resets>>

-----------------------------------------------------------------------------
RequestStep(r) ==
    \/ RoutePinned(r)
    \/ RouteFree(r)
    \/ ReadBackend(r)
    \/ CompareBackend(r)
    \/ Dispatch(r)
    \/ NoBackendLeft(r)
    \/ AttemptAnswered(r)
    \/ AttemptFailed(r)

ClientStep(r) ==
    \/ Arrive(r)
    \/ BodyFails(r)
    \/ ClientGaveUp(r)
    \/ SessionEnds(r)
    \/ ResponseCut(r)

ProberStep(b) == ProbeAnswered(b) \/ ProbeFailed(b) \/ ProbeGood(b)

Next ==
    \/ \E r \in Requests : RequestStep(r) \/ ClientStep(r)
    \/ \E b \in Backends : ProberStep(b) \/ Crash(b) \/ Stall(b) \/ Recover(b)
    \/ ProbeTick
    \/ Reset

Spec == Init /\ [][Next]_vars

\* The body has arrived, as far as the handler waits for it: it has no deadline
\* for what it buffers.
BodyArrives(r) == Buffered(r) /\ (RoutePinned(r) \/ RouteFree(r))

\* An attempt ends, other than by the client's doing.
AttemptEnds(r) == AttemptAnswered(r) \/ AttemptFailed(r) \/ SessionEnds(r)

\* What the handler does without waiting for its client, for a connection or
\* for an answer.
HandlerStep(r) ==
    \/ ~Buffered(r) /\ (RoutePinned(r) \/ RouteFree(r))
    \/ ReadBackend(r)
    \/ CompareBackend(r)
    \/ Dispatch(r)
    \/ NoBackendLeft(r)
    \/ r \in broken /\ AttemptFailed(r)

(***************************************************************************)
(* The ticker keeps ticking, probes return (they have a timeout), and a    *)
(* request's goroutine runs on where it waits for nobody: pick() decides,  *)
(* and a round trip whose connection has broken fails.  Nothing is asked   *)
(* of clients or of the transport: a body need not arrive, an answer need  *)
(* not be taken, and a connection need not come free.                      *)
(***************************************************************************)
Fairness ==
    /\ WF_vars(ProbeTick)
    /\ \A b \in Backends : WF_vars(ProberStep(b))
    /\ \A r \in Requests : WF_vars(HandlerStep(r))

FairSpec == Spec /\ Fairness

-----------------------------------------------------------------------------
(***************************************************************************)
(* Properties.                                                             *)
(***************************************************************************)

\* "Deferred, not written after ServeHTTP returns": the in-flight count that
\* routing reads is exactly the number of requests the backend is serving, in
\* whichever of its five ways each attempt ends and through a reset.
InflightExact ==
    \A b \in Backends :
        inflight[b] = Cardinality({r \in Requests : pc[r] = "serving" /\ At(r) = b})

\* Crowds of impatient clients are no outage: a backend that has never failed
\* or stalled is in rotation, with no failure held against it.  Not among the
\* kinds of request is one that ReverseProxy itself refuses, for an Upgrade
\* header it cannot print: that refusal comes by ErrorHandler too.
HealthyStaysInRotation ==
    \A b \in Backends \ faulted : alive[b] /\ failStreak[b] = 0

\* A request is refused only after every backend has had a fault, although
\* pick() reads them one by one; and one that can be replayed fails only
\* after two of them have: a single fault is hidden by the retry.
SingleFaultHidden ==
    \A r \in Requests :
        /\ reply[r] = "unavailable" => faulted = Backends
        /\ reply[r] = "badGateway" /\ kind[r] \in {"plain", "poll"}
               => Cardinality(faulted) > 1 \/ NumBackends = 1

\* At most one retry, never on the backend that has just failed, and never of
\* a request whose body was not kept.
OneRetryElsewhere ==
    \A r \in Requests :
        \/ Len(tried[r]) < 2
        \/ /\ Len(tried[r]) = 2
           /\ tried[r][1] # tried[r][2]
           /\ kind[r] \in {"plain", "poll"}

\* Every request that has arrived is in exactly one place: still in progress,
\* counted once as a success or a failure, or cut off while being answered.
\* A request counted as abandoned is also counted as failed.
CountersBalance ==
    resets = 0 =>
        /\ requests = succeeded + failures
               + Cardinality({r \in Requests : pc[r] \in {"body", "scan", "serving"}})
               + Cardinality({r \in Requests : reply[r] = "cut"})
        /\ abandoned = Cardinality({r \in Requests : reply[r] = "gone"})
        /\ abandoned <= failures

\* The flag routing reads and the score it was derived from never part:
\* through revivals and failed probes, above the threshold means overloaded
\* and below the hysteresis band means not.
FlagFollowsScore ==
    \A b \in Backends :
        /\ score[b] > Threshold => overloaded[b]
        /\ score[b] < Threshold - Hysteresis => ~overloaded[b]

\* What the client of a request has been told, as Forwarding sees it: before an
\* attempt is made nothing can be said to have been forwarded.
Told(r) ==
    IF reply[r] = "none" THEN (IF tried[r] = <<>> THEN "idle" ELSE "waiting")
                         ELSE (IF reply[r] = "ok" THEN "ok" ELSE "failed")

\* The n-th attempt of a request.
Attempted(r, n) == IF Len(tried[r]) >= n THEN tried[r][n] ELSE NoBackend

Relay == INSTANCE Forwarding WITH
    Nowhere <- NoBackend,
    answer <- [r \in Requests |-> Told(r)],
    first <- [r \in Requests |-> Attempted(r, 1)],
    second <- [r \in Requests |-> Attempted(r, 2)],
    awaited <- {r \in Requests : pc[r] = "serving"},
    replayable <- {r \in Requests : Replayable(r) /\ ~IsUpgrade(r)}

\* "One retry, on a different backend, only when the first attempt failed before
\* anything reached the client": whatever pick() reads, and in whichever of its
\* ways an attempt ends, a request goes through the handler as Forwarding has it
\* and is answered once, by the attempt that is under way.
ImplementsForwarding == Relay!Spec

\* A backend that is up for good is in rotation for good, however its record
\* looked before, and one that is down for good is taken out.
RotationFollowsBackends ==
    \A b \in Backends :
        /\ <>[](condition[b] = "up") => <>[]alive[b]
        /\ <>[](condition[b] = "down") => <>[]~alive[b]

\* The client sends its body, as far as the handler reads it.
BodyIsSent(r) == WF_vars(BodyArrives(r))

\* An attempt that can end does: it gets one of the MaxConnsPerHost connections,
\* for which the transport waits without a timeout, or its dial fails; a backend
\* that stays up answers; and the client takes the answer, or a session is closed.
AttemptsDoEnd(r) == WF_vars(AttemptEnds(r))

\* Every request that has arrived ends, through crashes, scans that find nobody
\* and retries, if no backend stays stalled and the request is held up neither
\* by its client nor by other requests' connections.  Without a deadline in
\* newServer() or in the transport these are premises, not promises.
EveryRequestEnds ==
    (\A b \in Backends : []<>(condition[b] # "stalled"))
        => \A r \in Requests :
               BodyIsSent(r) /\ AttemptsDoEnd(r)
                   => (pc[r] # "idle" ~> pc[r] = "done")

\* "Its polling handshake is several requests that only the process holding
\* the session can answer, so those have to stay together": the cookie handed
\* out with an answer names the backend that answered.
CookieNamesServer ==
    \A r \in Requests :
        reply[r] = "ok" /\ setCookie[r] # NoBackend => setCookie[r] = At(r)
=============================================================================
