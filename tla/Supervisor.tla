----------------------------- MODULE Supervisor -----------------------------
(***************************************************************************)
(* One service of one container under src/sources/ops: supervise.sh, which *)
(* starts it and restarts it, stop.sh, and ensure.sh, which the watchdog   *)
(* of another container calls.  The scripts run beside each other and share*)
(* two files, the sentinel of a stop and the lock of the supervisor; one   *)
(* action is one command of a script that reads or writes one of the two,  *)
(* or a process.                                                           *)
(*                                                                         *)
(* flock(2) belongs to the open file, and what a supervisor runs, the      *)
(* service or `sleep', inherits the descriptor: the lock is free only when *)
(* the supervisor and its child have both gone.                            *)
(***************************************************************************)
EXTENDS Naturals

CONSTANTS Supervisors,  \* calls of supervise.sh; an element whose call is over
                        \* stands for a later one
          Stops,        \* calls of stop.sh, with the port of the service
          NoOne,
          MaxFailures,  \* bound: times the service exits of its own accord
          MaxKills      \* bound: supervisors that are killed

ASSUME SupervisorAssumption ==
    /\ Supervisors \cap Stops = {}
    /\ NoOne \notin Supervisors \cup Stops
    /\ MaxFailures \in Nat
    /\ MaxKills \in Nat

VARIABLES
    sentinel,  \* the stops whose sentinel nobody has cleared: the file exists
               \* if there is one
    lock,      \* who has the lock file locked
    pc,        \* where each call of supervise.sh, or of ensure.sh before it, is
    child,     \* what each supervisor runs
    stop,      \* where each call of stop.sh is
    victim,    \* the supervisor whose service stop.sh found, while it lives
    failures, kills

files == <<sentinel, lock>>
stops == <<stop, victim>>
bounds == <<failures, kills>>
vars == <<files, pc, child, stops, bounds>>

Service == {"starting", "listening", "closing"}

\* The states of a supervisor that has the lock.
Inside == {"testing", "launching", "waiting", "checking", "sleeping", "leaving"}

TypeOK ==
    /\ sentinel \subseteq Stops
    /\ lock \in Supervisors \cup Stops \cup {NoOne}
    /\ pc \in [Supervisors -> {"none", "asking", "clearing", "locking", "declined",
                               "killed"} \cup Inside]
    /\ child \in [Supervisors -> Service \cup {"none", "sleep"}]
    /\ stop \in [Stops -> {"idle", "finding", "terminating", "killing", "probing",
                           "holding", "stopped", "gaveUp"}]
    /\ victim \in [Stops -> Supervisors \cup {NoOne}]
    /\ failures \in 0..MaxFailures
    /\ kills \in 0..MaxKills
    \* a supervisor runs in the foreground what it waits for
    /\ \A s \in Supervisors :
          /\ pc[s] = "waiting" => child[s] \in Service
          /\ pc[s] = "sleeping" => child[s] = "sleep"
          /\ child[s] # "none" => pc[s] \in {"waiting", "sleeping", "killed"}

\* A container that has just come up.
Init ==
    /\ sentinel = {}
    /\ lock = NoOne
    /\ pc = [s \in Supervisors |-> "none"]
    /\ child = [s \in Supervisors |-> "none"]
    /\ stop = [p \in Stops |-> "idle"]
    /\ victim = [p \in Stops |-> NoOne]
    /\ failures = 0
    /\ kills = 0

StopRequested == sentinel # {}
Listening == \E s \in Supervisors : child[s] = "listening"

Go(s, to) == pc' = [pc EXCEPT ![s] = to]
Unlocked(s) == IF lock = s THEN NoOne ELSE lock

-----------------------------------------------------------------------------
(***************************************************************************)
(* What a supervisor runs.                                                 *)
(***************************************************************************)

\* The child exits; its supervisor goes on, and if that has been killed the
\* lock goes with the child.
ChildEnds(s) ==
    /\ child' = [child EXCEPT ![s] = "none"]
    /\ victim' = [p \in Stops |-> IF victim[p] = s THEN NoOne ELSE victim[p]]
    /\ Go(s, CASE pc[s] = "waiting" -> "checking"
               [] pc[s] = "sleeping" -> "testing"
               [] OTHER -> "none")
    /\ lock' = IF pc[s] = "killed" THEN Unlocked(s) ELSE lock

Listen(s) ==
    /\ child[s] = "starting"
    /\ ~Listening
    /\ child' = [child EXCEPT ![s] = "listening"]
    /\ UNCHANGED <<files, pc, stops, bounds>>

ServiceFails(s) ==
    /\ child[s] \in {"starting", "listening"}
    /\ failures < MaxFailures
    /\ failures' = failures + 1
    /\ ChildEnds(s)
    /\ UNCHANGED <<sentinel, stop, kills>>

\* The shutdown that SIGTERM began comes to its end.
ServiceCloses(s) ==
    /\ child[s] = "closing"
    /\ ChildEnds(s)
    /\ UNCHANGED <<sentinel, stop, bounds>>

SleepEnds(s) ==
    /\ child[s] = "sleep"
    /\ ChildEnds(s)
    /\ UNCHANGED <<sentinel, stop, bounds>>

-----------------------------------------------------------------------------
(***************************************************************************)
(* ensure.sh and supervise.sh.                                             *)
(***************************************************************************)

\* deploy.sh, failover.sh or threshold-sweep.sh starts the service.
Start(s) ==
    /\ pc[s] = "none"
    /\ Go(s, "clearing")
    /\ UNCHANGED <<files, child, stops, bounds>>

\* ensure(): leave alone what was stopped on purpose ...
EnsureAsks(s) ==
    /\ pc[s] = "none"
    /\ ~StopRequested
    /\ Go(s, "asking")
    /\ UNCHANGED <<files, child, stops, bounds>>

\* ... and what is listening.
EnsureStarts(s) ==
    /\ pc[s] = "asking"
    /\ Go(s, IF Listening THEN "none" ELSE "clearing")
    /\ UNCHANGED <<files, child, stops, bounds>>

ClearSentinel(s) ==
    /\ pc[s] = "clearing"
    /\ sentinel' = {}
    /\ Go(s, "locking")
    /\ UNCHANGED <<lock, child, stops, bounds>>

TakeLock(s) ==
    /\ pc[s] = "locking"
    /\ lock = NoOne
    /\ lock' = s
    /\ Go(s, "testing")
    /\ UNCHANGED <<sentinel, child, stops, bounds>>

\* "a supervisor is already running"
Decline(s) ==
    /\ pc[s] = "locking"
    /\ lock # NoOne
    /\ Go(s, "declined")
    /\ UNCHANGED <<files, child, stops, bounds>>

\* The head of the loop.
TestSentinel(s) ==
    /\ pc[s] = "testing"
    /\ Go(s, IF StopRequested THEN "leaving" ELSE "launching")
    /\ UNCHANGED <<files, child, stops, bounds>>

\* Deviation: the service is put in the background.
LaunchBehind(s) ==
    /\ pc[s] = "launching"
    /\ child' = [child EXCEPT ![s] = "starting"]
    /\ Go(s, "checking")
    /\ UNCHANGED <<files, stops, bounds>>

Launch(s) ==
    /\ pc[s] = "launching"
    /\ child' = [child EXCEPT ![s] = "starting"]
    /\ Go(s, "waiting")
    /\ UNCHANGED <<files, stops, bounds>>

\* The service has exited: for good, or to be started again after a pause.
CheckSentinel(s) ==
    /\ pc[s] = "checking"
    /\ \/ /\ StopRequested
          /\ Go(s, "leaving")
          /\ UNCHANGED child
       \/ /\ ~StopRequested
          /\ Go(s, "sleeping")
          /\ child' = [child EXCEPT ![s] = "sleep"]
    /\ UNCHANGED <<files, stops, bounds>>

Exit(s) ==
    /\ pc[s] \in {"leaving", "declined"}
    /\ lock' = Unlocked(s)
    /\ Go(s, "none")
    /\ UNCHANGED <<sentinel, child, stops, bounds>>

\* Deviation: the descriptor is closed for the child (9>&-).
LockClosedForChild(s) == Unlocked(s)

\* Deviation: the lock is a file that its owner removes.
LockLeftBehind(s) == lock

\* Who has the lock once the supervisor is dead.
LockAfterKill(s) == IF child[s] = "none" THEN Unlocked(s) ELSE lock

\* The supervisor itself is killed, as the kernel does when memory runs out.
SupervisorKilled(s) ==
    /\ pc[s] \notin {"none", "killed"}
    /\ kills < MaxKills
    /\ kills' = kills + 1
    /\ lock' = LockAfterKill(s)
    /\ Go(s, IF child[s] = "none" THEN "none" ELSE "killed")
    /\ UNCHANGED <<sentinel, child, stops, failures>>

-----------------------------------------------------------------------------
(***************************************************************************)
(* stop.sh.                                                                *)
(***************************************************************************)
Proceed(p, to) == stop' = [stop EXCEPT ![p] = to]

Touch(p) ==
    /\ stop[p] = "idle"
    /\ sentinel' = sentinel \cup {p}
    /\ Proceed(p, "finding")
    /\ UNCHANGED <<lock, pc, child, victim, bounds>>

\* The process is found by the port it listens on.
Find(p) ==
    /\ stop[p] = "finding"
    /\ \/ \E s \in Supervisors :
            /\ child[s] = "listening"
            /\ victim' = [victim EXCEPT ![p] = s]
            /\ Proceed(p, "terminating")
       \/ /\ ~Listening
          /\ Proceed(p, "probing")
          /\ UNCHANGED victim
    /\ UNCHANGED <<files, pc, child, bounds>>

\* kill: it stops listening, and exits when it has closed what it has open.
Terminate(p) ==
    /\ stop[p] = "terminating"
    /\ child' = [s \in Supervisors |-> IF s = victim[p] THEN "closing" ELSE child[s]]
    /\ Proceed(p, "killing")
    /\ UNCHANGED <<files, pc, victim, bounds>>

\* kill -0 fails.
SeeItGone(p) ==
    /\ stop[p] = "killing"
    /\ victim[p] = NoOne
    /\ Proceed(p, "probing")
    /\ UNCHANGED <<files, pc, child, victim, bounds>>

\* After thirty seconds, kill -9.
KillIt(p) ==
    /\ stop[p] = "killing"
    /\ victim[p] # NoOne
    /\ ChildEnds(victim[p])
    /\ Proceed(p, "probing")
    /\ UNCHANGED <<sentinel, bounds>>

\* Deviation: when the process has gone the service has been stopped.
ProbeNothing(p) ==
    /\ stop[p] = "probing"
    /\ Proceed(p, "stopped")
    /\ UNCHANGED <<files, pc, child, victim, bounds>>

\* flock -n ... true: locked for as long as `true' runs.
Probe(p) ==
    /\ stop[p] = "probing"
    /\ lock = NoOne
    /\ lock' = p
    /\ Proceed(p, "holding")
    /\ UNCHANGED <<sentinel, pc, child, victim, bounds>>

Report(p) ==
    /\ stop[p] = "holding"
    /\ lock' = NoOne
    /\ Proceed(p, "stopped")
    /\ UNCHANGED <<sentinel, pc, child, victim, bounds>>

\* The last of thirty attempts finds the lock held.
GiveUp(p) ==
    /\ stop[p] = "probing"
    /\ lock # NoOne
    /\ Proceed(p, "gaveUp")
    /\ UNCHANGED <<files, pc, child, victim, bounds>>

-----------------------------------------------------------------------------
SupervisorStep(s) ==
    \/ EnsureStarts(s)
    \/ ClearSentinel(s)
    \/ TakeLock(s)
    \/ Decline(s)
    \/ TestSentinel(s)
    \/ Launch(s)
    \/ CheckSentinel(s)
    \/ Exit(s)

StopStep(p) ==
    \/ Find(p)
    \/ Terminate(p)
    \/ SeeItGone(p)
    \/ KillIt(p)
    \/ Probe(p)
    \/ Report(p)
    \/ GiveUp(p)

Next ==
    \/ \E s \in Supervisors :
          \/ SupervisorStep(s) \/ Start(s) \/ EnsureAsks(s) \/ SupervisorKilled(s)
          \/ Listen(s) \/ ServiceFails(s) \/ ServiceCloses(s) \/ SleepEnds(s)
    \/ \E p \in Stops : StopStep(p) \/ Touch(p)

Spec == Init /\ [][Next]_vars

(***************************************************************************)
(* Scripts that have begun run on, a service that has been started gets to *)
(* listen, and a sleep ends.  Nobody is obliged to start or to stop the    *)
(* service, and a service may take for ever to close.                      *)
(***************************************************************************)
Fairness ==
    /\ \A s \in Supervisors :
          WF_vars(SupervisorStep(s)) /\ WF_vars(Listen(s)) /\ WF_vars(SleepEnds(s))
    /\ \A p \in Stops : WF_vars(StopStep(p))

FairSpec == Spec /\ Fairness

\* The watchdog keeps calling ensure.sh.
WatchedSpec == FairSpec /\ WF_vars(\E s \in Supervisors : EnsureAsks(s))

-----------------------------------------------------------------------------
(***************************************************************************)
(* Properties.                                                             *)
(***************************************************************************)

\* "Safe to run twice: the lock means the second copy exits instead of fighting
\* the first one for the port": there is never a second process of the service,
\* not even when a supervisor is killed and the service outlives it.
OneService ==
    \A s, t \in Supervisors :
        child[s] \in Service /\ child[t] \in Service => s = t

\* "Stops a supervised service, and means it": when stop.sh has reported the
\* service stopped, and nobody has asked for a start since it put its sentinel
\* down, no process of the service is left and none will be launched.
StopMeansIt ==
    \A p \in sentinel :
        stop[p] = "stopped" =>
            \A s \in Supervisors : child[s] \notin Service /\ pc[s] # "launching"

\* Once stops have stopped coming, a watched service ends up listening: no
\* stale lock, lost start or dead supervisor keeps it down.
StaysUp == <>[]~StopRequested => <>[]Listening

\* "Clearing the sentinel first means whichever supervisor holds the lock keeps
\* the service running, which is what "start" was asking for": a start that is
\* declined, with nobody killed and no stop after it, finds the service up.
DeclinedStartIsKept ==
    \A s \in Supervisors : pc[s] = "declined" ~> Listening \/ StopRequested

\* No lock is stale: whoever has it is a supervisor that goes on, the child of
\* one that was killed, or a stop.sh at the moment of its probe.
LockHasOwner ==
    /\ \A s \in Supervisors : lock = s => pc[s] \in Inside \/ child[s] # "none"
    /\ \A p \in Stops : lock = p => stop[p] = "holding"

ServiceLock == INSTANCE Lock WITH
    Owners <- Supervisors,
    holders <- {s \in Supervisors : child[s] \in Service}

\* "The lock means the second copy exits instead of fighting the first one for
\* the port": one process of the service has ended before another is started,
\* by whichever supervisor.
ImplementsLock == ServiceLock!Spec
=============================================================================
