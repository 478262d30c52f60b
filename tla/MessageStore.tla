---------------------------- MODULE MessageStore ----------------------------
(***************************************************************************)
(* What a call of WriteQueue.insert promises, seen from the caller.        *)
(*                                                                         *)
(* A caller hands over one message id and is later told one of three       *)
(* things: "new" (its document is the stored one), "duplicate" (the id was *)
(* already stored by somebody else) or "rejected" (no promise: the row may *)
(* or may not exist, and it may still appear later).  How the documents    *)
(* are grouped, in which order they reach the database and how many writes *)
(* are outstanding are not visible here.                                   *)
(***************************************************************************)
CONSTANTS Callers,    \* calls of insert(), one element per call
          MessageIds, \* values of msgId
          NoRow,      \* no document with that msgId is stored
          Elsewhere   \* the stored document came from another backend

VARIABLES outcome,  \* what each call has been told so far
          msg,      \* the msgId each call submitted
          row       \* who wrote the stored document of each msgId

storeVars == <<outcome, msg, row>>

Settled == {"new", "duplicate", "rejected"}

TypeOK ==
    /\ outcome \in [Callers -> {"idle", "waiting"} \cup Settled]
    /\ msg \in [Callers -> MessageIds]
    /\ row \in [MessageIds -> Callers \cup {NoRow, Elsewhere}]

\* What a caller may be told, given the rows of the unique index.
Verdicts(c) ==
    {"rejected"}
        \cup {v \in {"new"} : row[msg[c]] = c}
        \cup {v \in {"duplicate"} : row[msg[c]] \notin {NoRow, c}}

Init ==
    /\ outcome = [c \in Callers |-> "idle"]
    /\ msg \in [Callers -> MessageIds]
    /\ row = [i \in MessageIds |-> NoRow]

Submit(c) ==
    /\ outcome[c] = "idle"
    /\ outcome' = [outcome EXCEPT ![c] = "waiting"]
    /\ UNCHANGED <<msg, row>>

\* A document may also be stored after its caller gave up on it.
Store(c) ==
    /\ outcome[c] \in {"waiting", "rejected"}
    /\ row[msg[c]] = NoRow
    /\ row' = [row EXCEPT ![msg[c]] = c]
    /\ UNCHANGED <<outcome, msg>>

StoreElsewhere(i) ==
    /\ row[i] = NoRow
    /\ row' = [row EXCEPT ![i] = Elsewhere]
    /\ UNCHANGED <<outcome, msg>>

\* Several callers can be told at once; each hears something that is true.
Settle ==
    /\ outcome' \in [Callers -> {"idle", "waiting"} \cup Settled]
    /\ \A c \in Callers :
          \/ outcome'[c] = outcome[c]
          \/ outcome[c] = "waiting" /\ outcome'[c] \in Verdicts(c)
    /\ UNCHANGED <<msg, row>>

Next ==
    \/ \E c \in Callers : Submit(c) \/ Store(c)
    \/ \E i \in MessageIds : StoreElsewhere(i)
    \/ Settle

Spec == Init /\ [][Next]_storeVars

-----------------------------------------------------------------------------
(* What follows for whoever relies on this.                                *)

\* What a call has been told is still so: its document is the stored one, or
\* another one is.
VerdictsHold == \A c \in Callers : outcome[c] \in {"new", "duplicate"} => outcome[c] \in Verdicts(c)

\* Of all the calls with one id at most one is ever told "new".
OneWinner ==
    \A c, d \in Callers :
        outcome[c] = "new" /\ outcome[d] = "new" /\ msg[c] = msg[d] => c = d

\* No verdict is changed, and no stored document gives way to another.
VerdictsStand ==
    [][ /\ \A c \in Callers : outcome[c] \in Settled => outcome'[c] = outcome[c]
        /\ \A i \in MessageIds : row[i] # NoRow => row'[i] = row[i] ]_storeVars
=============================================================================
