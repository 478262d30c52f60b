-------------------------- MODULE SupervisorProofs --------------------------
(***************************************************************************)
(* Proofs about Supervisor for any set of supervisors and stops, and any   *)
(* number of failures and kills.                                           *)
(***************************************************************************)
EXTENDS Supervisor, TLAPS

\* The lock is with whoever is past it, and with whatever a supervisor left.
LockInv ==
    /\ \A s \in Supervisors : pc[s] \in Inside \/ child[s] # "none" => lock = s
    /\ \A p \in Stops : stop[p] = "holding" => lock = p

\* A process that stop.sh is waiting for is a service that listened.
VictimInv ==
    \A p \in Stops :
        victim[p] # NoOne => child[victim[p]] \in {"listening", "closing"}

\* From the moment stop.sh has the lock, its sentinel keeps the service down.
DownInv ==
    \A p \in sentinel :
        stop[p] \in {"holding", "stopped"} =>
            \A s \in Supervisors : child[s] \notin Service /\ pc[s] # "launching"

IInv == TypeOK /\ LockInv /\ VictimInv /\ DownInv

-----------------------------------------------------------------------------
LEMMA Distinct ==
    /\ NoOne \notin Supervisors /\ NoOne \notin Stops
    /\ \A s \in Supervisors : s \notin Stops
    /\ MaxFailures \in Nat /\ MaxKills \in Nat
BY SupervisorAssumption

\* The end of a child.
LEMMA ChildEndsSafe ==
    ASSUME IInv, NEW s \in Supervisors, child[s] # "none", ChildEnds(s),
           UNCHANGED sentinel,
           failures' \in 0..MaxFailures, kills' \in 0..MaxKills,
           stop' \in [Stops -> {"idle", "finding", "terminating", "killing", "probing",
                                "holding", "stopped", "gaveUp"}],
           \A p \in Stops : stop'[p] \in {"holding", "stopped"} => stop'[p] = stop[p]
    PROVE  IInv'
<1> USE Distinct DEF IInv
<1>1. pc[s] \in {"waiting", "sleeping", "killed"} /\ lock = s
  BY DEF TypeOK, LockInv
<1>2. /\ pc'[s] = CASE pc[s] = "waiting" -> "checking"
                    [] pc[s] = "sleeping" -> "testing"
                    [] OTHER -> "none"
      /\ child'[s] = "none"
      /\ \A t \in Supervisors \ {s} : pc'[t] = pc[t] /\ child'[t] = child[t]
  BY DEF ChildEnds, Go, TypeOK
<1>3. \/ pc[s] = "killed" /\ lock' = NoOne /\ pc'[s] = "none"
      \/ pc[s] # "killed" /\ lock' = s /\ pc'[s] \in {"checking", "testing"}
  BY <1>1, <1>2 DEF ChildEnds, Unlocked
<1>4. TypeOK'
  <2>1. pc' \in [Supervisors -> {"none", "asking", "clearing", "locking", "declined",
                                 "killed"} \cup Inside]
    BY <1>3 DEF TypeOK, ChildEnds, Go, Inside
  <2>2. child' \in [Supervisors -> Service \cup {"none", "sleep"}]
    BY DEF TypeOK, ChildEnds
  <2>3. victim' \in [Stops -> Supervisors \cup {NoOne}]
    BY DEF TypeOK, ChildEnds
  <2>4. lock' \in Supervisors \cup Stops \cup {NoOne}
    BY <1>3
  <2>5. \A t \in Supervisors :
            /\ pc'[t] = "waiting" => child'[t] \in Service
            /\ pc'[t] = "sleeping" => child'[t] = "sleep"
            /\ child'[t] # "none" => pc'[t] \in {"waiting", "sleeping", "killed"}
    BY <1>2, <1>3 DEF TypeOK
  <2> QED BY <2>1, <2>2, <2>3, <2>4, <2>5 DEF TypeOK
<1>5. LockInv'
  <2>1. \A t \in Supervisors \ {s} : ~(pc[t] \in Inside \/ child[t] # "none")
    BY <1>1 DEF LockInv
  <2>2. \A p \in Stops : stop'[p] # "holding"
    BY <1>1 DEF LockInv
  <2> QED BY <1>2, <1>3, <2>1, <2>2 DEF LockInv, Inside
<1>6. VictimInv'
  BY <1>2 DEF VictimInv, ChildEnds, TypeOK
<1>7. DownInv'
  BY <1>2, <1>3 DEF DownInv, TypeOK, Service
<1> QED BY <1>4, <1>5, <1>6, <1>7

LEMMA SupervisorSafe ==
    ASSUME IInv, NEW s \in Supervisors,
           SupervisorStep(s) \/ Start(s) \/ EnsureAsks(s) \/ SupervisorKilled(s) \/ Listen(s)
    PROVE  IInv'
<1> USE Distinct DEF IInv, files, stops, bounds
\* Steps that only move a supervisor that has neither the lock nor a child.
<1>1. ASSUME NEW to \in {"none", "asking", "clearing", "locking", "declined"},
             pc[s] \in {"none", "asking", "clearing", "locking", "declined"}, Go(s, to),
             sentinel' \in {sentinel, {}}, UNCHANGED <<lock, child, stops, bounds>>
      PROVE  IInv'
  <2>1. pc'[s] = to /\ \A t \in Supervisors \ {s} : pc'[t] = pc[t]
    BY <1>1 DEF Go, TypeOK
  <2>2. child[s] = "none"
    BY <1>1 DEF TypeOK
  <2>3. TypeOK'
    BY <1>1, <2>1, <2>2 DEF TypeOK, Go
  <2>4. LockInv'
    BY <1>1, <2>1, <2>2 DEF LockInv, Inside
  <2>5. VictimInv' /\ DownInv'
    BY <1>1, <2>1 DEF VictimInv, DownInv
  <2> QED BY <2>3, <2>4, <2>5
<1>2. CASE EnsureStarts(s)
  BY <1>1, <1>2 DEF EnsureStarts
<1>3. CASE ClearSentinel(s)
  BY <1>1, <1>3 DEF ClearSentinel
<1>4. CASE Decline(s)
  BY <1>1, <1>4 DEF Decline
<1>5. CASE Start(s)
  BY <1>1, <1>5 DEF Start
<1>6. CASE EnsureAsks(s)
  BY <1>1, <1>6 DEF EnsureAsks
<1>7. CASE TakeLock(s)
  <2>1. pc'[s] = "testing" /\ \A t \in Supervisors \ {s} : pc'[t] = pc[t]
    BY <1>7 DEF TakeLock, Go, TypeOK
  <2>2. child[s] = "none" /\ lock = NoOne /\ lock' = s
    BY <1>7 DEF TakeLock, TypeOK
  <2>3. TypeOK'
    BY <1>7, <2>1, <2>2 DEF TakeLock, TypeOK, Go, Inside
  <2>4. LockInv'
    BY <1>7, <2>1, <2>2 DEF LockInv, TakeLock
  <2>5. VictimInv' /\ DownInv'
    BY <1>7, <2>1 DEF VictimInv, DownInv, TakeLock
  <2> QED BY <2>3, <2>4, <2>5
\* Steps of the loop that start nothing.
<1>8. ASSUME NEW to \in {"leaving", "launching"}, Go(s, to),
             to = "launching" => ~StopRequested, pc[s] \in {"testing", "checking"},
             UNCHANGED <<files, child, stops, bounds>>
      PROVE  IInv'
  <2>1. pc'[s] = to /\ \A t \in Supervisors \ {s} : pc'[t] = pc[t]
    BY <1>8 DEF Go, TypeOK
  <2>2. child[s] = "none" /\ lock = s
    BY <1>8 DEF TypeOK, LockInv, Inside
  <2>3. TypeOK'
    BY <1>8, <2>1, <2>2 DEF TypeOK, Go, Inside
  <2>4. LockInv'
    BY <1>8, <2>1, <2>2 DEF LockInv
  <2>5. VictimInv'
    BY <1>8 DEF VictimInv
  <2>6. DownInv'
    BY <1>8, <2>1 DEF DownInv, StopRequested
  <2> QED BY <2>3, <2>4, <2>5, <2>6
<1>9. CASE TestSentinel(s)
  BY <1>8, <1>9 DEF TestSentinel
\* Steps that start a child.
<1>10. ASSUME NEW to \in {"waiting", "sleeping"}, Go(s, to), NEW new,
              new = IF to = "waiting" THEN "starting" ELSE "sleep",
              child' = [child EXCEPT ![s] = new],
              pc[s] = IF to = "waiting" THEN "launching" ELSE "checking",
              UNCHANGED <<files, stops, bounds>>
       PROVE  IInv'
  <2>1. /\ pc'[s] = to /\ child'[s] = new
        /\ \A t \in Supervisors \ {s} : pc'[t] = pc[t] /\ child'[t] = child[t]
    BY <1>10 DEF Go, TypeOK
  <2>2. child[s] = "none" /\ lock = s
    BY <1>10 DEF TypeOK, LockInv, Inside
  <2>3. TypeOK'
    <3>1. pc' \in [Supervisors -> {"none", "asking", "clearing", "locking", "declined",
                                   "killed"} \cup Inside]
      BY <1>10 DEF TypeOK, Go, Inside
    <3>2. child' \in [Supervisors -> Service \cup {"none", "sleep"}]
      BY <1>10 DEF TypeOK, Service
    <3>3. \A t \in Supervisors :
            /\ pc'[t] = "waiting" => child'[t] \in Service
            /\ pc'[t] = "sleeping" => child'[t] = "sleep"
            /\ child'[t] # "none" => pc'[t] \in {"waiting", "sleeping", "killed"}
      BY <1>10, <2>1 DEF TypeOK, Service
    <3> QED BY <1>10, <3>1, <3>2, <3>3 DEF TypeOK
  <2>4. LockInv'
    BY <1>10, <2>1, <2>2 DEF LockInv
  <2>5. VictimInv'
    BY <1>10, <2>1, <2>2 DEF VictimInv, TypeOK
  <2>6. DownInv'
    <3>1. CASE to = "waiting"
      BY <1>10, <3>1, <2>1 DEF DownInv
    <3>2. CASE to = "sleeping"
      BY <1>10, <3>2, <2>1 DEF DownInv, Service
    <3> QED BY <3>1, <3>2
  <2> QED BY <2>3, <2>4, <2>5, <2>6
<1>11. CASE Launch(s)
  BY <1>10, <1>11 DEF Launch
<1>12. CASE CheckSentinel(s)
  BY <1>8, <1>10, <1>12 DEF CheckSentinel
\* The end of a supervisor.
<1>13. ASSUME NEW to \in {"none", "killed"}, Go(s, to),
              to = "none" <=> child[s] = "none",
              lock' = IF child[s] = "none" THEN Unlocked(s) ELSE lock,
              kills' \in 0..MaxKills, UNCHANGED <<sentinel, child, stops, failures>>
       PROVE  IInv'
  <2>1. pc'[s] = to /\ \A t \in Supervisors \ {s} : pc'[t] = pc[t]
    BY <1>13 DEF Go, TypeOK
  <2>2. lock' \in {lock, NoOne} /\ (lock # s => lock' = lock) /\ (child[s] # "none" => lock' = lock)
    BY <1>13 DEF Unlocked
  <2>3. TypeOK'
    BY <1>13, <2>1, <2>2 DEF TypeOK, Go
  <2>4. LockInv'
    BY <1>13, <2>1, <2>2 DEF LockInv, Inside, TypeOK
  <2>5. VictimInv' /\ DownInv'
    BY <1>13, <2>1 DEF VictimInv, DownInv
  <2> QED BY <2>3, <2>4, <2>5
<1>14. CASE Exit(s)
  <2>1. child[s] = "none"
    BY <1>14 DEF Exit, TypeOK
  <2> QED BY <1>13, <1>14, <2>1 DEF Exit, TypeOK
<1>15. CASE SupervisorKilled(s)
  <2>1. kills' \in 0..MaxKills
    BY <1>15 DEF SupervisorKilled, TypeOK
  <2> QED BY <1>13, <1>15, <2>1 DEF SupervisorKilled, LockAfterKill
<1>16. CASE Listen(s)
  <2>1. child'[s] = "listening" /\ \A t \in Supervisors \ {s} : child'[t] = child[t]
    BY <1>16 DEF Listen, TypeOK
  <2>2. TypeOK'
    BY <1>16, <2>1 DEF Listen, TypeOK, Service
  <2>3. LockInv' /\ VictimInv' /\ DownInv'
    BY <1>16, <2>1 DEF Listen, LockInv, VictimInv, DownInv, Service, TypeOK
  <2> QED BY <2>2, <2>3
<1> QED BY <1>2, <1>3, <1>4, <1>5, <1>6, <1>7, <1>9, <1>11, <1>12, <1>14, <1>15, <1>16
        DEF SupervisorStep

LEMMA StopSafe ==
    ASSUME IInv, NEW p \in Stops, StopStep(p) \/ Touch(p)
    PROVE  IInv'
<1> USE Distinct DEF IInv, files, bounds
\* Steps that only move stop.sh on.
<1>1. ASSUME NEW to \in {"finding", "terminating", "probing", "gaveUp"}, Proceed(p, to),
             stop[p] # "holding", sentinel' \in {sentinel, sentinel \cup {p}},
             victim' \in [Stops -> Supervisors \cup {NoOne}], VictimInv',
             UNCHANGED <<lock, pc, child, bounds>>
      PROVE  IInv'
  <2>1. stop'[p] = to /\ \A q \in Stops \ {p} : stop'[q] = stop[q]
    BY <1>1 DEF Proceed, TypeOK
  <2>2. TypeOK'
    BY <1>1, <2>1 DEF TypeOK, Proceed
  <2>3. LockInv'
    BY <1>1, <2>1 DEF LockInv
  <2>4. DownInv'
    <3>1. \A q \in sentinel' : q \in Stops
      BY <1>1 DEF TypeOK
    <3>2. \A q \in sentinel' : q # p => q \in sentinel
      BY <1>1
    <3> QED BY <1>1, <2>1, <3>1, <3>2 DEF DownInv
  <2> QED BY <1>1, <2>2, <2>3, <2>4
<1>2. CASE Touch(p)
  <2>1. VictimInv'
    BY <1>2 DEF Touch, VictimInv
  <2> QED BY <1>1, <1>2, <2>1 DEF Touch, TypeOK
<1>3. CASE Find(p)
  <2>1. CASE UNCHANGED victim /\ Proceed(p, "probing")
    <3>1. VictimInv'
      BY <1>3, <2>1 DEF Find, VictimInv
    <3> QED BY <1>1, <1>3, <2>1, <3>1 DEF Find, TypeOK
  <2>2. ASSUME NEW s \in Supervisors, child[s] = "listening",
               victim' = [victim EXCEPT ![p] = s], Proceed(p, "terminating")
        PROVE  IInv'
    <3>1. VictimInv'
      BY <1>3, <2>2 DEF Find, VictimInv, TypeOK
    <3>2. victim' \in [Stops -> Supervisors \cup {NoOne}]
      BY <2>2 DEF TypeOK
    <3> QED BY <1>1, <1>3, <2>2, <3>1, <3>2 DEF Find
  <2> QED BY <1>3, <2>1, <2>2 DEF Find
<1>4. CASE Terminate(p)
  <2>1. \A s \in Supervisors : child'[s] = IF s = victim[p] THEN "closing" ELSE child[s]
    BY <1>4 DEF Terminate
  <2>2. \A s \in Supervisors : s = victim[p] => child[s] \in Service
    BY DEF VictimInv, Service
  <2>3. stop'[p] = "killing" /\ \A q \in Stops \ {p} : stop'[q] = stop[q]
    BY <1>4 DEF Terminate, Proceed, TypeOK
  <2>4. TypeOK'
    <3>1. child' \in [Supervisors -> Service \cup {"none", "sleep"}]
      BY <1>4, <2>1 DEF Terminate, TypeOK, Service
    <3>2. \A t \in Supervisors :
            /\ pc'[t] = "waiting" => child'[t] \in Service
            /\ pc'[t] = "sleeping" => child'[t] = "sleep"
            /\ child'[t] # "none" => pc'[t] \in {"waiting", "sleeping", "killed"}
      BY <1>4, <2>1, <2>2 DEF Terminate, TypeOK, Service
    <3>3. stop' \in [Stops -> {"idle", "finding", "terminating", "killing", "probing",
                               "holding", "stopped", "gaveUp"}]
      BY <1>4 DEF Terminate, Proceed, TypeOK
    <3> QED BY <1>4, <3>1, <3>2, <3>3 DEF Terminate, TypeOK
  <2>5. LockInv'
    BY <1>4, <2>1, <2>2, <2>3 DEF Terminate, LockInv, Service
  <2>6. VictimInv'
    BY <1>4, <2>1 DEF Terminate, VictimInv, TypeOK
  <2>7. DownInv'
    BY <1>4, <2>1, <2>2, <2>3 DEF Terminate, DownInv, Service, TypeOK
  <2> QED BY <2>4, <2>5, <2>6, <2>7
<1>5. CASE SeeItGone(p) \/ GiveUp(p)
  <2>1. VictimInv'
    BY <1>5 DEF SeeItGone, GiveUp, VictimInv
  <2> QED BY <1>1, <1>5, <2>1 DEF SeeItGone, GiveUp, TypeOK
<1>6. CASE KillIt(p)
  <2>1. PICK s \in Supervisors : s = victim[p]
    BY <1>6 DEF KillIt, TypeOK
  <2>2. child[s] # "none" /\ ChildEnds(s)
    BY <1>6, <2>1 DEF KillIt, VictimInv
  <2>3. /\ stop' \in [Stops -> {"idle", "finding", "terminating", "killing", "probing",
                                "holding", "stopped", "gaveUp"}]
        /\ \A q \in Stops : stop'[q] \in {"holding", "stopped"} => stop'[q] = stop[q]
    BY <1>6 DEF KillIt, Proceed, TypeOK
  <2>4. UNCHANGED sentinel /\ failures' \in 0..MaxFailures /\ kills' \in 0..MaxKills
    BY <1>6 DEF KillIt, TypeOK
  <2> QED BY <2>2, <2>3, <2>4, ChildEndsSafe
<1>7. CASE Probe(p)
  <2>1. /\ stop'[p] = "holding" /\ lock' = p /\ lock = NoOne
        /\ \A q \in Stops \ {p} : stop'[q] = stop[q]
    BY <1>7 DEF Probe, Proceed, TypeOK
  <2>2. \A s \in Supervisors : pc[s] \notin Inside /\ child[s] = "none"
    BY <2>1 DEF LockInv
  <2>3. TypeOK'
    BY <1>7, <2>1 DEF Probe, Proceed, TypeOK
  <2>4. LockInv'
    BY <1>7, <2>1, <2>2 DEF Probe, LockInv
  <2>5. VictimInv' /\ DownInv'
    BY <1>7, <2>2 DEF Probe, VictimInv, DownInv, Service, Inside
  <2> QED BY <2>3, <2>4, <2>5
<1>8. CASE Report(p)
  <2>1. /\ stop'[p] = "stopped" /\ stop[p] = "holding" /\ lock = p /\ lock' = NoOne
        /\ \A q \in Stops \ {p} : stop'[q] = stop[q]
    BY <1>8 DEF Report, Proceed, TypeOK, LockInv
  <2>2. TypeOK'
    BY <1>8, <2>1 DEF Report, Proceed, TypeOK
  <2>3. LockInv'
    BY <1>8, <2>1 DEF Report, LockInv
  <2>4. VictimInv' /\ DownInv'
    BY <1>8, <2>1 DEF Report, VictimInv, DownInv, TypeOK
  <2> QED BY <2>2, <2>3, <2>4
<1> QED BY <1>2, <1>3, <1>4, <1>5, <1>6, <1>7, <1>8 DEF StopStep

-----------------------------------------------------------------------------
LEMMA InitIInv == Init => IInv
BY Distinct DEF Init, IInv, TypeOK, LockInv, VictimInv, DownInv, Inside

LEMMA NextIInv == IInv /\ [Next]_vars => IInv'
<1> SUFFICES ASSUME IInv, [Next]_vars PROVE IInv'
  OBVIOUS
<1>1. ASSUME NEW s \in Supervisors, ServiceFails(s) \/ ServiceCloses(s) \/ SleepEnds(s)
      PROVE  IInv'
  <2>1. child[s] # "none" /\ ChildEnds(s) /\ UNCHANGED <<sentinel, stop>>
    BY <1>1 DEF ServiceFails, ServiceCloses, SleepEnds
  <2>2. failures' \in 0..MaxFailures /\ kills' \in 0..MaxKills
    BY <1>1, Distinct DEF ServiceFails, ServiceCloses, SleepEnds, IInv, TypeOK, bounds
  <2>3. stop \in [Stops -> {"idle", "finding", "terminating", "killing", "probing",
                            "holding", "stopped", "gaveUp"}]
    BY DEF IInv, TypeOK
  <2> QED BY <2>1, <2>2, <2>3, ChildEndsSafe
<1>2. CASE UNCHANGED vars
  BY <1>2 DEF vars, files, stops, bounds, IInv, TypeOK, LockInv, VictimInv, DownInv
<1> QED BY <1>1, <1>2, SupervisorSafe, StopSafe DEF Next

\* The inductive invariant holds in every reachable state.
THEOREM Invariance == Spec => []IInv
BY InitIInv, NextIInv, PTL DEF Spec

\* Every reachable state is well typed, and a supervisor waits for what it runs.
THEOREM SupervisorType == Spec => []TypeOK
<1>1. IInv => TypeOK
  BY DEF IInv
<1> QED BY <1>1, Invariance, PTL

\* The lock, which the service inherits, keeps a second copy from being started
\* (supervise.sh), supervisors that are killed included.
THEOREM NeverTwoServices == Spec => []OneService
<1>1. IInv => OneService
  BY DEF IInv, LockInv, OneService, Service
<1> QED BY <1>1, Invariance, PTL

\* What stop.sh reports stopped is down until somebody asks for a start.
THEOREM StoppedStaysDown == Spec => []StopMeansIt
<1>1. IInv => StopMeansIt
  BY DEF IInv, DownInv, StopMeansIt
<1> QED BY <1>1, Invariance, PTL

-----------------------------------------------------------------------------
(* The lock.                                                               *)

\* A child ends: its supervisor goes on with the lock, or the lock is free.
LEMMA ChildEndsLock ==
    ASSUME IInv, LockHasOwner, NEW s \in Supervisors, child[s] # "none", ChildEnds(s),
           \A p \in Stops : stop[p] = "holding" => stop'[p] = "holding"
    PROVE  LockHasOwner'
<1>1. lock = s /\ pc[s] \in {"waiting", "sleeping", "killed"}
  BY DEF IInv, TypeOK, LockInv
<1>2. \/ lock' = s /\ pc'[s] \in {"checking", "testing"}
      \/ lock' = NoOne
  BY <1>1 DEF ChildEnds, Unlocked, Go, IInv, TypeOK
<1> QED BY <1>2, Distinct DEF LockHasOwner, Inside

LEMMA LockStep == IInv /\ LockHasOwner /\ [Next]_vars => LockHasOwner'
<1> SUFFICES ASSUME IInv, LockHasOwner, [Next]_vars PROVE LockHasOwner'
  OBVIOUS
<1> USE Distinct DEF files, stops, bounds
<1>1. /\ pc \in [Supervisors -> {"none", "asking", "clearing", "locking", "declined",
                                 "killed"} \cup Inside]
      /\ child \in [Supervisors -> Service \cup {"none", "sleep"}]
      /\ stop \in [Stops -> {"idle", "finding", "terminating", "killing", "probing",
                             "holding", "stopped", "gaveUp"}]
  BY DEF IInv, TypeOK
<1>2. ASSUME UNCHANGED <<lock, child, stop>>,
             \A s \in Supervisors : pc[s] \in Inside => pc'[s] \in Inside
      PROVE  LockHasOwner'
  BY <1>2 DEF LockHasOwner
<1>3. ASSUME NEW s \in Supervisors,
             \/ EnsureStarts(s) \/ ClearSentinel(s) \/ Decline(s) \/ Start(s) \/ EnsureAsks(s)
             \/ TestSentinel(s)
      PROVE  LockHasOwner'
  <2>1. UNCHANGED <<lock, child, stop>>
    BY <1>3 DEF EnsureStarts, ClearSentinel, Decline, Start, EnsureAsks, TestSentinel
  <2>2. \/ pc[s] \notin Inside /\ \E to : Go(s, to)
        \/ \E to \in {"leaving", "launching"} : Go(s, to)
    BY <1>3 DEF EnsureStarts, ClearSentinel, Decline, Start, EnsureAsks, TestSentinel, Inside
  <2>3. \A t \in Supervisors : pc[t] \in Inside => pc'[t] \in Inside
    BY <1>1, <2>2 DEF Go, Inside
  <2> QED BY <1>2, <2>1, <2>3
<1>4. ASSUME NEW s \in Supervisors, TakeLock(s) PROVE LockHasOwner'
  <2>1. lock' = s /\ pc'[s] = "testing"
    BY <1>1, <1>4 DEF TakeLock, Go
  <2> QED BY <2>1 DEF LockHasOwner, Inside
<1>5. ASSUME NEW s \in Supervisors, Launch(s) \/ CheckSentinel(s) \/ Listen(s)
      PROVE  LockHasOwner'
  <2>1. UNCHANGED <<lock, stop>>
    BY <1>5 DEF Launch, CheckSentinel, Listen
  <2>2. \/ UNCHANGED pc
        \/ \E to \in {"waiting", "leaving", "sleeping"} : Go(s, to)
    BY <1>5 DEF Launch, CheckSentinel, Listen
  <2>3. \A t \in Supervisors : pc[t] \in Inside => pc'[t] \in Inside
    BY <1>1, <2>2 DEF Go, Inside
  <2>4. \/ UNCHANGED child
        \/ \E new \in {"starting", "listening", "sleep"} : child' = [child EXCEPT ![s] = new]
    BY <1>5 DEF Launch, CheckSentinel, Listen
  <2>5. \A t \in Supervisors : child[t] # "none" => child'[t] # "none"
    BY <1>1, <2>4
  <2> QED BY <2>1, <2>3, <2>5 DEF LockHasOwner
<1>6. ASSUME NEW s \in Supervisors, Exit(s) PROVE LockHasOwner'
  <2>1. lock' = Unlocked(s) /\ UNCHANGED <<child, stop>>
    BY <1>6 DEF Exit
  <2>2. \A t \in Supervisors \ {s} : pc'[t] = pc[t]
    BY <1>1, <1>6 DEF Exit, Go
  <2> QED BY <2>1, <2>2 DEF LockHasOwner, Unlocked
<1>7. ASSUME NEW s \in Supervisors, SupervisorKilled(s) PROVE LockHasOwner'
  <2>1. lock' = LockAfterKill(s) /\ UNCHANGED <<child, stop>>
    BY <1>7 DEF SupervisorKilled
  <2>2. \A t \in Supervisors \ {s} : pc'[t] = pc[t]
    BY <1>1, <1>7 DEF SupervisorKilled, Go
  <2> QED BY <2>1, <2>2 DEF LockHasOwner, LockAfterKill, Unlocked
<1>8. ASSUME NEW s \in Supervisors, ServiceFails(s) \/ ServiceCloses(s) \/ SleepEnds(s)
      PROVE  LockHasOwner'
  <2>1. child[s] # "none" /\ ChildEnds(s) /\ UNCHANGED stop
    BY <1>8 DEF ServiceFails, ServiceCloses, SleepEnds
  <2> QED BY <2>1, ChildEndsLock
<1>9. ASSUME NEW p \in Stops, Touch(p) \/ Find(p) \/ SeeItGone(p) \/ GiveUp(p) \/ Terminate(p)
      PROVE  LockHasOwner'
  <2>1. UNCHANGED <<lock, pc>> /\ stop[p] # "holding" /\ \E to : Proceed(p, to)
    BY <1>9 DEF Touch, Find, SeeItGone, GiveUp, Terminate
  <2>2. \A q \in Stops : stop[q] = "holding" => stop'[q] = "holding"
    BY <1>1, <2>1 DEF Proceed
  <2>3. \A t \in Supervisors : child[t] # "none" => child'[t] # "none"
    BY <1>9 DEF Touch, Find, SeeItGone, GiveUp, Terminate
  <2> QED BY <2>1, <2>2, <2>3 DEF LockHasOwner
<1>10. ASSUME NEW p \in Stops, KillIt(p) PROVE LockHasOwner'
  <2>1. PICK s \in Supervisors : s = victim[p]
    BY <1>10 DEF KillIt, IInv, TypeOK
  <2>2. child[s] # "none" /\ ChildEnds(s)
    BY <1>10, <2>1 DEF KillIt, IInv, VictimInv
  <2>3. \A q \in Stops : stop[q] = "holding" => stop'[q] = "holding"
    BY <1>1, <1>10 DEF KillIt, Proceed
  <2> QED BY <2>2, <2>3, ChildEndsLock
<1>11. ASSUME NEW p \in Stops, Probe(p) \/ Report(p) PROVE LockHasOwner'
  BY <1>1, <1>11 DEF Probe, Report, Proceed, LockHasOwner
<1>12. CASE UNCHANGED vars
  BY <1>12 DEF vars, LockHasOwner
<1> QED BY <1>3, <1>4, <1>5, <1>6, <1>7, <1>8, <1>9, <1>10, <1>11, <1>12
        DEF Next, SupervisorStep, StopStep

\* The lock of supervise.sh is never left behind, whoever exits or is killed:
\* what a start that is declined has found is somebody.
THEOREM LockNeverStale == Spec => []LockHasOwner
<1>1. Init => LockHasOwner
  BY Distinct DEF Init, LockHasOwner
<1> QED BY <1>1, LockStep, Invariance, PTL DEF Spec

-----------------------------------------------------------------------------
(* The service as a lock.                                                  *)

Served == {s \in Supervisors : child[s] \in Service}

\* What a step can do to the children.
LEMMA ChildSteps ==
    ASSUME IInv, [Next]_vars
    PROVE  \/ \A s \in Supervisors : child'[s] \in Service <=> child[s] \in Service
           \/ \E s \in Supervisors : Launch(s)
           \/ \E s \in Supervisors : /\ child[s] \in Service
                                     /\ child' = [child EXCEPT ![s] = "none"]
<1> USE Distinct DEF files, stops, bounds
<1>1. child \in [Supervisors -> Service \cup {"none", "sleep"}]
  BY DEF IInv, TypeOK
<1>2. ASSUME NEW s \in Supervisors, SupervisorStep(s), ~Launch(s), ~CheckSentinel(s)
      PROVE  UNCHANGED child
  BY <1>2 DEF SupervisorStep, EnsureStarts, ClearSentinel, TakeLock, Decline, TestSentinel, Exit
<1>3. ASSUME NEW s \in Supervisors, CheckSentinel(s)
      PROVE  \A t \in Supervisors : child'[t] \in Service <=> child[t] \in Service
  <2>1. child[s] = "none"
    BY <1>3 DEF CheckSentinel, IInv, TypeOK
  <2>2. UNCHANGED child \/ child' = [child EXCEPT ![s] = "sleep"]
    BY <1>3 DEF CheckSentinel
  <2> QED BY <1>1, <2>1, <2>2 DEF Service
<1>4. ASSUME NEW s \in Supervisors, Start(s) \/ EnsureAsks(s) \/ SupervisorKilled(s)
      PROVE  UNCHANGED child
  BY <1>4 DEF Start, EnsureAsks, SupervisorKilled
<1>5. ASSUME NEW s \in Supervisors, Listen(s)
      PROVE  \A t \in Supervisors : child'[t] \in Service <=> child[t] \in Service
  BY <1>1, <1>5 DEF Listen, Service
<1>6. ASSUME NEW s \in Supervisors, ServiceFails(s) \/ ServiceCloses(s)
      PROVE  child[s] \in Service /\ child' = [child EXCEPT ![s] = "none"]
  BY <1>6 DEF ServiceFails, ServiceCloses, ChildEnds, Service
<1>7. ASSUME NEW s \in Supervisors, SleepEnds(s)
      PROVE  \A t \in Supervisors : child'[t] \in Service <=> child[t] \in Service
  BY <1>1, <1>7 DEF SleepEnds, ChildEnds, Service
<1>8. ASSUME NEW p \in Stops, StopStep(p) \/ Touch(p), ~Terminate(p), ~KillIt(p)
      PROVE  UNCHANGED child
  BY <1>8 DEF StopStep, Touch, Find, SeeItGone, Probe, Report, GiveUp
<1>9. ASSUME NEW p \in Stops, Terminate(p)
      PROVE  \A t \in Supervisors : child'[t] \in Service <=> child[t] \in Service
  BY <1>1, <1>9 DEF Terminate, IInv, VictimInv, Service
<1>10. ASSUME NEW p \in Stops, KillIt(p)
       PROVE  \E s \in Supervisors : /\ child[s] \in Service
                                     /\ child' = [child EXCEPT ![s] = "none"]
  <2>1. PICK s \in Supervisors : s = victim[p]
    BY <1>10 DEF KillIt, IInv, TypeOK
  <2>2. child[s] \in Service /\ ChildEnds(s)
    BY <1>10, <2>1 DEF KillIt, IInv, VictimInv, Service
  <2> QED BY <2>2 DEF ChildEnds
<1>11. CASE UNCHANGED vars
  BY <1>11 DEF vars
<1> QED BY <1>2, <1>3, <1>4, <1>5, <1>6, <1>7, <1>8, <1>9, <1>10, <1>11 DEF Next

LEMMA StepLocks == IInv /\ [Next]_vars => [ServiceLock!Next]_Served
<1> SUFFICES ASSUME IInv, [Next]_vars PROVE ServiceLock!Next \/ Served' = Served
  OBVIOUS
<1>1. \A s, t \in Supervisors : child[s] # "none" /\ child[t] # "none" => s = t
  BY DEF IInv, LockInv
<1>2. child \in [Supervisors -> Service \cup {"none", "sleep"}]
  BY DEF IInv, TypeOK
<1>3. CASE \A s \in Supervisors : child'[s] \in Service <=> child[s] \in Service
  BY <1>3 DEF Served
<1>4. ASSUME NEW s \in Supervisors, Launch(s) PROVE ServiceLock!Next
  <2>1. pc[s] = "launching" /\ child' = [child EXCEPT ![s] = "starting"]
    BY <1>4 DEF Launch
  <2>2. \A t \in Supervisors : child[t] = "none"
    BY <2>1 DEF IInv, LockInv, TypeOK, Inside
  <2>3. Served = {} /\ Served' = {s}
    BY <1>2, <2>1, <2>2 DEF Served, Service
  <2>4. ServiceLock!Take(s)
    BY <2>3 DEF ServiceLock!Take, Served
  <2> QED BY <2>4 DEF ServiceLock!Next
<1>5. ASSUME NEW s \in Supervisors, child[s] \in Service, child' = [child EXCEPT ![s] = "none"]
      PROVE  ServiceLock!Next
  <2>1. Served = {s} /\ Served' = {}
    BY <1>1, <1>2, <1>5 DEF Served, Service
  <2>2. ServiceLock!GiveBack
    BY <2>1 DEF ServiceLock!GiveBack, Served
  <2> QED BY <2>2 DEF ServiceLock!Next
<1> QED BY <1>3, <1>4, <1>5, ChildSteps

\* One process of the service at a time, and one has ended before another is
\* started, supervisors that are killed or declined included.
THEOREM ServiceIsLocked == Spec => ImplementsLock
<1>1. Init => ServiceLock!Init
  BY DEF Init, ServiceLock!Init, Service
<1>2. IInv /\ [Next]_vars => [ServiceLock!Next]_({s \in Supervisors : child[s] \in Service})
  BY StepLocks DEF Served
<1> QED BY <1>1, <1>2, Invariance, PTL DEF Spec, ImplementsLock, ServiceLock!Spec

-----------------------------------------------------------------------------
(* Restarts.                                                               *)

\* A supervisor that means to keep the service running.
Keeps(s) == pc[s] \in Inside \ {"leaving"}

\* How many steps it is from a service that listens.
StepsFromUp(s) ==
    CASE child[s] = "listening" -> 0
      [] child[s] = "starting" -> 1
      [] pc[s] = "launching" -> 2
      [] pc[s] = "testing" -> 3
      [] pc[s] = "sleeping" -> 4
      [] pc[s] = "checking" -> 5
      [] OTHER -> 6

\* The service ends, or stop.sh asks it to.
Setback(s) == ServiceFails(s) \/ \E p \in Stops : Terminate(p) \/ KillIt(p)

OwnStep(s) == SupervisorStep(s) \/ Listen(s) \/ SleepEnds(s) \/ ServiceCloses(s)

KeepsRunning ==
    [][ \A s \in Supervisors : Keeps(s) /\ ~StopRequested /\ ~SupervisorKilled(s)
          => /\ Keeps(s)' /\ lock' = s
             /\ StepsFromUp(s)' <= StepsFromUp(s) \/ Setback(s)
             /\ OwnStep(s) => StepsFromUp(s)' < StepsFromUp(s) ]_vars

\* A supervisor other than the one that steps.
LEMMA OthersKept ==
    ASSUME NEW s \in Supervisors, pc'[s] = pc[s], child'[s] = child[s]
    PROVE  (Keeps(s)' <=> Keeps(s)) /\ StepsFromUp(s)' = StepsFromUp(s)
BY DEF Keeps, StepsFromUp

LEMMA StepsFromUpRange == \A s \in Supervisors : StepsFromUp(s) \in 0..6
BY DEF StepsFromUp

\* What the invariant says of one that keeps the service running.
LEMMA KeeperAlone ==
    ASSUME IInv, NEW s \in Supervisors, Keeps(s)
    PROVE  /\ lock = s
           /\ \A t \in Supervisors \ {s} : pc[t] \notin Inside /\ child[t] = "none"
           /\ \A p \in Stops : stop[p] # "holding"
           /\ pc[s] \in {"testing", "launching", "waiting", "checking", "sleeping"}
           /\ pc[s] = "waiting" => child[s] \in Service
           /\ pc[s] = "sleeping" => child[s] = "sleep"
           /\ pc[s] \notin {"waiting", "sleeping"} => child[s] = "none"
BY Distinct DEF IInv, LockInv, TypeOK, Keeps, Inside

LEMMA OwnStepNearer ==
    ASSUME IInv, NEW s \in Supervisors, Keeps(s), ~StopRequested, OwnStep(s)
    PROVE  Keeps(s)' /\ lock' = s /\ StepsFromUp(s)' < StepsFromUp(s)
<1> USE KeeperAlone DEF Go, Inside
<1>1. /\ pc \in [Supervisors -> {"none", "asking", "clearing", "locking", "declined",
                                 "killed"} \cup Inside]
      /\ child \in [Supervisors -> Service \cup {"none", "sleep"}]
  BY DEF IInv, TypeOK
<1>2. ~(EnsureStarts(s) \/ ClearSentinel(s) \/ TakeLock(s) \/ Decline(s) \/ Exit(s))
  BY DEF EnsureStarts, ClearSentinel, TakeLock, Decline, Exit
<1>3. CASE TestSentinel(s)
  <2>1. pc[s] = "testing" /\ pc'[s] = "launching" /\ UNCHANGED <<lock, child>>
    BY <1>1, <1>3 DEF TestSentinel, files
  <2> QED BY <2>1 DEF StepsFromUp, Keeps
<1>4. CASE Launch(s)
  <2>1. /\ pc[s] = "launching" /\ pc'[s] = "waiting" /\ child'[s] = "starting"
        /\ UNCHANGED lock
    BY <1>1, <1>4 DEF Launch, files
  <2> QED BY <2>1 DEF StepsFromUp, Keeps
<1>5. CASE CheckSentinel(s)
  <2>1. /\ pc[s] = "checking" /\ pc'[s] = "sleeping" /\ child'[s] = "sleep"
        /\ UNCHANGED lock
    BY <1>1, <1>5 DEF CheckSentinel, files
  <2> QED BY <2>1 DEF StepsFromUp, Keeps
<1>6. CASE Listen(s)
  <2>1. child[s] = "starting" /\ child'[s] = "listening" /\ UNCHANGED <<pc, lock>>
    BY <1>1, <1>6 DEF Listen, files
  <2> QED BY <2>1 DEF StepsFromUp, Keeps
<1>7. CASE SleepEnds(s) \/ ServiceCloses(s)
  <2>1. ChildEnds(s) /\ child[s] \in {"sleep", "closing"}
    BY <1>7 DEF SleepEnds, ServiceCloses
  <2>2. /\ child'[s] = "none" /\ lock' = s
        /\ pc[s] \in {"waiting", "sleeping"}
        /\ pc'[s] = IF pc[s] = "waiting" THEN "checking" ELSE "testing"
    BY <1>1, <2>1 DEF ChildEnds
  <2>3. CASE child[s] = "sleep"
    BY <2>2, <2>3 DEF StepsFromUp, Keeps, Service
  <2>4. CASE child[s] = "closing"
    BY <2>2, <2>4 DEF StepsFromUp, Keeps, Service
  <2> QED BY <2>1, <2>3, <2>4
<1> QED BY <1>2, <1>3, <1>4, <1>5, <1>6, <1>7 DEF OwnStep, SupervisorStep

LEMMA OtherStepsKeep ==
    ASSUME IInv, [Next]_vars, NEW s \in Supervisors, Keeps(s), ~OwnStep(s),
           ~SupervisorKilled(s)
    PROVE  Keeps(s)' /\ lock' = s /\ (StepsFromUp(s)' <= StepsFromUp(s) \/ Setback(s))
<1> USE KeeperAlone, Distinct DEF files, stops, bounds
<1>1. /\ pc \in [Supervisors -> {"none", "asking", "clearing", "locking", "declined",
                                 "killed"} \cup Inside]
      /\ child \in [Supervisors -> Service \cup {"none", "sleep"}]
  BY DEF IInv, TypeOK
<1>2. ASSUME pc'[s] = pc[s], child'[s] = child[s], lock' = s
      PROVE  Keeps(s)' /\ lock' = s /\ StepsFromUp(s)' <= StepsFromUp(s)
  BY <1>2, OthersKept, StepsFromUpRange
\* A child of s that ends.
<1>3. ASSUME child[s] \in Service, ChildEnds(s) PROVE Keeps(s)' /\ lock' = s
  <2>1. pc[s] = "waiting"
    BY <1>3 DEF Service, Keeps, Inside
  <2>2. pc'[s] = "checking" /\ lock' = s
    BY <1>1, <1>3, <2>1 DEF ChildEnds, Go
  <2> QED BY <2>2 DEF Keeps, Inside
<1>4. ASSUME NEW t \in Supervisors \ {s},
             \/ SupervisorStep(t) \/ Start(t) \/ EnsureAsks(t) \/ SupervisorKilled(t)
             \/ Listen(t) \/ ServiceFails(t) \/ ServiceCloses(t) \/ SleepEnds(t)
      PROVE  pc'[s] = pc[s] /\ child'[s] = child[s] /\ lock' = s
  <2>1. ~(TestSentinel(t) \/ Launch(t) \/ CheckSentinel(t) \/ TakeLock(t) \/ Listen(t)
          \/ ServiceFails(t) \/ ServiceCloses(t) \/ SleepEnds(t))
    BY DEF TestSentinel, Launch, CheckSentinel, TakeLock, Listen, ServiceFails, ServiceCloses,
           SleepEnds, Inside
  <2>2. CASE EnsureStarts(t) \/ ClearSentinel(t) \/ Decline(t) \/ Start(t) \/ EnsureAsks(t)
    BY <1>1, <2>2 DEF EnsureStarts, ClearSentinel, Decline, Start, EnsureAsks, Go
  <2>3. CASE Exit(t) \/ SupervisorKilled(t)
    BY <1>1, <2>3 DEF Exit, SupervisorKilled, LockAfterKill, Unlocked, Go
  <2> QED BY <1>4, <2>1, <2>2, <2>3 DEF SupervisorStep
<1>5. ~(Start(s) \/ EnsureAsks(s))
  BY DEF Start, EnsureAsks
<1>6. CASE ServiceFails(s)
  <2>1. child[s] \in Service /\ ChildEnds(s)
    BY <1>6 DEF ServiceFails, Service
  <2> QED BY <1>3, <1>6, <2>1 DEF Setback
<1>7. ASSUME NEW p \in Stops, Terminate(p)
      PROVE  Keeps(s)' /\ lock' = s /\ Setback(s)
  BY <1>7 DEF Terminate, Keeps, Setback
<1>8. ASSUME NEW p \in Stops, KillIt(p) PROVE Keeps(s)' /\ lock' = s /\ Setback(s)
  <2>1. PICK t \in Supervisors : t = victim[p]
    BY <1>8 DEF KillIt, IInv, TypeOK
  <2>2. child[t] \in Service /\ ChildEnds(t)
    BY <1>8, <2>1 DEF KillIt, IInv, VictimInv, Service
  <2>3. t = s
    BY <2>2 DEF Service
  <2> QED BY <1>3, <1>8, <2>2, <2>3 DEF Setback
<1>9. ASSUME NEW p \in Stops, StopStep(p) \/ Touch(p), ~Terminate(p), ~KillIt(p)
      PROVE  UNCHANGED <<pc, child, lock>>
  BY <1>9 DEF StopStep, Touch, Find, SeeItGone, Probe, Report, GiveUp
<1>10. CASE UNCHANGED vars
  BY <1>2, <1>10 DEF vars
<1>11. ASSUME NEW p \in Stops, StopStep(p) \/ Touch(p)
       PROVE  Keeps(s)' /\ lock' = s /\ (StepsFromUp(s)' <= StepsFromUp(s) \/ Setback(s))
  BY <1>2, <1>7, <1>8, <1>9, <1>11
<1>12. ASSUME NEW t \in Supervisors,
              \/ SupervisorStep(t) \/ Start(t) \/ EnsureAsks(t) \/ SupervisorKilled(t)
              \/ Listen(t) \/ ServiceFails(t) \/ ServiceCloses(t) \/ SleepEnds(t)
       PROVE  Keeps(s)' /\ lock' = s /\ (StepsFromUp(s)' <= StepsFromUp(s) \/ Setback(s))
  <2>1. CASE t = s
    BY <1>5, <1>6, <1>12, <2>1 DEF OwnStep
  <2>2. CASE t # s
    BY <1>2, <1>4, <1>12, <2>2
  <2> QED BY <2>1, <2>2
<1> QED BY <1>10, <1>11, <1>12 DEF Next

\* "Whichever supervisor holds the lock keeps the service running"
\* (supervise.sh): without a sentinel it stays in its loop and keeps the lock
\* unless it is killed itself, and each of its steps brings the service nearer
\* to listening, whatever the other scripts do.
THEOREM HolderKeepsRunning == Spec => KeepsRunning
<1>1. IInv /\ [Next]_vars
        => \A s \in Supervisors : Keeps(s) /\ ~StopRequested /\ ~SupervisorKilled(s)
             => /\ Keeps(s)' /\ lock' = s
                /\ StepsFromUp(s)' <= StepsFromUp(s) \/ Setback(s)
                /\ OwnStep(s) => StepsFromUp(s)' < StepsFromUp(s)
  <2> SUFFICES ASSUME IInv, [Next]_vars, NEW s \in Supervisors,
                      Keeps(s), ~StopRequested, ~SupervisorKilled(s)
               PROVE  /\ Keeps(s)' /\ lock' = s
                      /\ StepsFromUp(s)' <= StepsFromUp(s) \/ Setback(s)
                      /\ OwnStep(s) => StepsFromUp(s)' < StepsFromUp(s)
    OBVIOUS
  <2>1. StepsFromUp(s) \in 0..6 /\ StepsFromUp(s)' \in 0..6
    BY StepsFromUpRange DEF StepsFromUp
  <2>2. CASE OwnStep(s)
    <3>1. Keeps(s)' /\ lock' = s /\ StepsFromUp(s)' < StepsFromUp(s)
      BY <2>2, OwnStepNearer
    <3>2. StepsFromUp(s)' <= StepsFromUp(s)
      BY <2>1, <3>1
    <3> QED BY <3>1, <3>2
  <2>3. CASE ~OwnStep(s)
    BY <2>3, OtherStepsKeep
  <2> QED BY <2>2, <2>3
<1> QED BY <1>1, Invariance, PTL DEF Spec, KeepsRunning
=============================================================================
