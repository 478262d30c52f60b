---------------------------- MODULE SharedIndex ----------------------------
(***************************************************************************)
(* The write queues of several backends over one unique index, each seen   *)
(* through its promise, MessageStore: to a backend the rows that others    *)
(* have stored are there without having been written by a call of its own. *)
(* They share nothing else.  MessagePath takes them, all together, for one *)
(* MessageStore.                                                           *)
(***************************************************************************)
CONSTANTS Backends,
          Calls,      \* of insert(), on one backend
          MessageIds, \* values of msgId
          NoRow,      \* no document with that msgId is stored
          Elsewhere   \* the stored document came from none of the backends

VARIABLES outcome, \* what each call has been told so far
          msg,     \* the msgId each call submitted
          row      \* who wrote the stored document of each msgId

vars == <<outcome, msg, row>>

Callers == Backends \X Calls

CallersOf(b) == {b} \X Calls

\* The index as backend b knows it.
RowsSeenBy(b) ==
    [i \in MessageIds |->
        IF row[i] \in CallersOf(b) \cup {NoRow} THEN row[i] ELSE Elsewhere]

OutcomesOf(b) == [c \in CallersOf(b) |-> outcome[c]]

QueueOf(b) == INSTANCE MessageStore WITH
    Callers <- CallersOf(b),
    outcome <- OutcomesOf(b),
    msg <- [c \in CallersOf(b) |-> msg[c]],
    row <- RowsSeenBy(b)

All == INSTANCE MessageStore

TypeOK == All!TypeOK

Init ==
    /\ TypeOK
    /\ \A b \in Backends : QueueOf(b)!Init

\* Every queue and the index as it sees it keep the promise, and a process has
\* a step of its own: no two backends tell their callers something in one.
Next ==
    /\ TypeOK'
    /\ \A b \in Backends : [QueueOf(b)!Next]_(QueueOf(b)!storeVars)
    /\ \A a, b \in Backends : a # b => UNCHANGED OutcomesOf(a) \/ UNCHANGED OutcomesOf(b)

Spec == Init /\ [][Next]_vars

\* The queues together are one store.
ImplementsStore == All!Spec
=============================================================================
