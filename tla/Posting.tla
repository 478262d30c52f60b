------------------------------ MODULE Posting ------------------------------
(***************************************************************************)
(* What the system promises to a caller of /message, whatever happens to   *)
(* the backends and the connections between: a request answered "ok" has   *)
(* its message in the room, and of all the requests with one key, and all  *)
(* the copies of them the system makes, at most one is ever stored.        *)
(* A request that failed makes no promise: its message may be there.       *)
(***************************************************************************)
CONSTANTS Requests, \* requests of clients
          Copies,   \* copies of a request the system may work on
          Keys      \* what makes two requests the same message

VARIABLES answer, \* what the caller of each request has been told
          key,    \* of each request
          kept    \* the copies that are stored

postingVars == <<answer, key, kept>>

Init ==
    /\ answer = [r \in Requests |-> "idle"]
    /\ key \in [Requests -> Keys]
    /\ kept = {}

\* The message of r is stored, by whichever request and copy of it.
IsKept(r) == \E x \in kept : key[x[1]] = key[r]

Post(r) ==
    /\ answer[r] = "idle"
    /\ answer' = [answer EXCEPT ![r] = "waiting"]
    /\ UNCHANGED <<key, kept>>

\* Also after the caller has been told that it failed.
Keep(r, copy) ==
    /\ answer[r] # "idle"
    /\ ~IsKept(r)
    /\ kept' = kept \cup {<<r, copy>>}
    /\ UNCHANGED <<answer, key>>

Acknowledge(r) ==
    /\ answer[r] = "waiting"
    /\ IsKept(r)
    /\ answer' = [answer EXCEPT ![r] = "ok"]
    /\ UNCHANGED <<key, kept>>

Fail(r) ==
    /\ answer[r] \in {"idle", "waiting"}
    /\ answer' = [answer EXCEPT ![r] = "failed"]
    /\ UNCHANGED <<key, kept>>

Next ==
    \E r \in Requests :
        \/ Post(r) \/ Acknowledge(r) \/ Fail(r)
        \/ \E copy \in Copies : Keep(r, copy)

Spec == Init /\ [][Next]_postingVars

-----------------------------------------------------------------------------
(* What follows for whoever relies on this.                                *)

\* "ok" is the truth.
AcknowledgedIsKept == \A r \in Requests : answer[r] = "ok" => IsKept(r)

\* Of all that is stored no two copies are of one message.
KeptOnce == \A x, y \in kept : key[x[1]] = key[y[1]] => x = y

\* No answer is ever changed, and what is stored stays.
NothingTakenBack ==
    [][ /\ \A r \in Requests : answer[r] \in {"ok", "failed"} => answer'[r] = answer[r]
        /\ kept \subseteq kept' ]_postingVars
=============================================================================
