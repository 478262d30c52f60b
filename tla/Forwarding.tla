----------------------------- MODULE Forwarding -----------------------------
(***************************************************************************)
(* What the balancer promises about one request, seen from the client and  *)
(* the backends: it is attempted once, and at most once more, elsewhere,   *)
(* when the first attempt has failed before anything reached the client    *)
(* and the request can be sent again.  The client is told "ok" only by the *)
(* attempt that is under way, and whatever it is told it is told once.     *)
(* Which backends are chosen, and from what, is not visible here.          *)
(***************************************************************************)
CONSTANTS Requests,
          Backends,
          Nowhere   \* no attempt has been made

VARIABLES answer,     \* what the client of each request has been told
          first,      \* the backend of the first attempt ...
          second,     \* ... and of the second
          awaited,    \* the requests with an attempt under way
          replayable  \* the requests that can be sent a second time

forwardingVars == <<answer, first, second, awaited, replayable>>

Init ==
    /\ answer = [r \in Requests |-> "idle"]
    /\ first = [r \in Requests |-> Nowhere]
    /\ second = [r \in Requests |-> Nowhere]
    /\ awaited = {}
    /\ replayable \in SUBSET Requests

Attempt(r, b) ==
    /\ answer[r] = "idle"
    /\ answer' = [answer EXCEPT ![r] = "waiting"]
    /\ first' = [first EXCEPT ![r] = b]
    /\ awaited' = awaited \cup {r}
    /\ UNCHANGED <<second, replayable>>

\* An attempt fails and nothing has reached the client.
Fails(r) ==
    /\ r \in awaited
    /\ awaited' = awaited \ {r}
    /\ UNCHANGED <<answer, first, second, replayable>>

Retry(r, b) ==
    /\ answer[r] = "waiting"
    /\ r \in replayable \ awaited
    /\ second[r] = Nowhere
    /\ b # first[r]
    /\ second' = [second EXCEPT ![r] = b]
    /\ awaited' = awaited \cup {r}
    /\ UNCHANGED <<answer, first, replayable>>

Succeeds(r) ==
    /\ r \in awaited
    /\ awaited' = awaited \ {r}
    /\ answer' = [answer EXCEPT ![r] = "ok"]
    /\ UNCHANGED <<first, second, replayable>>

\* By a backend's answer, for want of a backend, or because the client left.
Ends(r) ==
    /\ answer[r] \in {"idle", "waiting"}
    /\ awaited' = awaited \ {r}
    /\ answer' = [answer EXCEPT ![r] = "failed"]
    /\ UNCHANGED <<first, second, replayable>>

Next ==
    \E r \in Requests :
        \/ Fails(r) \/ Succeeds(r) \/ Ends(r)
        \/ \E b \in Backends : Attempt(r, b) \/ Retry(r, b)

Spec == Init /\ [][Next]_forwardingVars
=============================================================================
