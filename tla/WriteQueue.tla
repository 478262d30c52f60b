----------------------------- MODULE WriteQueue -----------------------------
(***************************************************************************)
(* src/sources/server/src/api/writeQueue.js: concurrent inserts grouped    *)
(* into unordered bulk writes, at most MaxBatch documents each and at most *)
(* MaxInFlight of them outstanding.                                        *)
(*                                                                         *)
(* One action is one turn of JavaScript that runs without yielding: a call *)
(* of insert(), a setImmediate callback, the continuation of flush() after *)
(* its await.  Between them the database works on the documents it has     *)
(* been sent, in any order; it is modelled from how the queue uses it: a   *)
(* unique index on msgId, an unordered bulk write that reports a verdict   *)
(* per document, or an error that reports none.                            *)
(***************************************************************************)
EXTENDS Integers, Sequences, FiniteSets, Functions

CONSTANTS Callers,     \* calls of insert(), one element per call
          MessageIds,  \* values of msgId
          NoRow,       \* no document with that msgId is stored
          Elsewhere,   \* the stored document came from another backend
          MaxBatch,    \* maxBatch of the constructor
          MaxInFlight  \* maxInFlight of the constructor

ASSUME WriteQueueAssumption ==
    /\ IsFiniteSet(Callers)
    /\ NoRow \notin Callers
    /\ Elsewhere \notin Callers
    /\ NoRow # Elsewhere
    /\ MaxBatch \in Nat \ {0}
    /\ MaxInFlight \in Nat \ {0}

VARIABLES
    \* the queue object
    pending,    \* callers whose documents wait for a batch, oldest first
    scheduled,  \* a flush has been asked for and has not begun
    depth,      \* queue length as reported to the load balancer
    inFlight,   \* bulk writes waiting on the database
    documents,  \* documents in batches the database has answered
    duplicates, \* callers told that their id was already stored
    \* the event loop
    immediates, \* setImmediate callbacks that have not run yet
    batches,    \* flush() activations suspended at their await
    outcome,    \* the promise each call of insert() returned
    \* the documents and the database
    msg,        \* the msgId of each call
    onWire,     \* documents sent and not yet processed by the database
    verdict,    \* what the database did with each document
    row         \* the unique index: who wrote the document of each msgId

queueVars == <<pending, scheduled, depth, inFlight, documents, duplicates>>
dbVars == <<onWire, verdict, row>>
vars == <<queueVars, immediates, batches, outcome, msg, dbVars>>

Settled == {"new", "duplicate", "rejected"}

TypeOK ==
    /\ pending \in Seq(Callers)
    /\ scheduled \in BOOLEAN
    /\ depth \in Nat
    /\ inFlight \in Nat
    /\ documents \in Nat
    /\ duplicates \in Nat
    /\ immediates \in Nat
    /\ batches \in SUBSET (SUBSET Callers)
    /\ outcome \in [Callers -> {"idle", "waiting"} \cup Settled]
    /\ msg \in [Callers -> MessageIds]
    /\ onWire \in SUBSET Callers
    /\ verdict \in [Callers -> {"none", "stored", "duplicate", "refused"}]
    /\ row \in [MessageIds -> Callers \cup {NoRow, Elsewhere}]

Init ==
    /\ pending = <<>>
    /\ scheduled = FALSE
    /\ depth = 0
    /\ inFlight = 0
    /\ documents = 0
    /\ duplicates = 0
    /\ immediates = 0
    /\ batches = {}
    /\ outcome = [c \in Callers |-> "idle"]
    /\ msg \in [Callers -> MessageIds]
    /\ onWire = {}
    /\ verdict = [c \in Callers |-> "none"]
    /\ row = [i \in MessageIds |-> NoRow]

-----------------------------------------------------------------------------
(***************************************************************************)
(* flush() up to its await, with `queue' the pending list and `reported'   *)
(* the depth it finds.  Either it has nothing to do or no slot, or it      *)
(* takes the oldest documents, all of them when they fit in one batch, and *)
(* hands them to the database.                                             *)
(***************************************************************************)
\* Nothing waits, or as many bulk writes as allowed are outstanding.
FlushReturns(queue, reported) ==
    /\ queue = <<>> \/ inFlight >= MaxInFlight
    /\ pending' = queue
    /\ depth' = reported
    /\ UNCHANGED <<inFlight, batches, onWire>>

BatchSize(queue) == IF Len(queue) > MaxBatch THEN MaxBatch ELSE Len(queue)

\* Deviation: what does not fit in the batch is dropped.
LeftNothing(queue) == <<>>

Left(queue) == SubSeq(queue, BatchSize(queue) + 1, Len(queue))

DepthAfter(queue) == Len(Left(queue))

FlushSends(queue) ==
    /\ queue # <<>>
    /\ inFlight < MaxInFlight
    /\ LET batch == Range(SubSeq(queue, 1, BatchSize(queue)))
       IN /\ batches' = batches \cup {batch}
          /\ onWire' = onWire \cup batch
    /\ pending' = Left(queue)
    /\ depth' = DepthAfter(queue)
    /\ inFlight' = inFlight + 1

Flush(queue, reported) ==
    /\ scheduled' = FALSE
    /\ FlushReturns(queue, reported) \/ FlushSends(queue)

\* insert(): push, then flush a full queue at once or make sure one is coming.
Enqueue(c) ==
    /\ outcome[c] = "idle"
    /\ outcome' = [outcome EXCEPT ![c] = "waiting"]
    /\ UNCHANGED <<msg, verdict, row, documents, duplicates>>

InsertFull(c) ==
    /\ Enqueue(c)
    /\ Len(pending) + 1 >= MaxBatch
    /\ Flush(Append(pending, c), Len(pending) + 1)
    /\ UNCHANGED immediates

InsertScheduling(c) ==
    /\ Enqueue(c)
    /\ Len(pending) + 1 < MaxBatch
    /\ pending' = Append(pending, c)
    /\ depth' = Len(pending) + 1
    /\ scheduled' = TRUE
    /\ immediates' = IF scheduled THEN immediates ELSE immediates + 1
    /\ UNCHANGED <<inFlight, batches, onWire>>

Insert(c) == InsertFull(c) \/ InsertScheduling(c)

\* The event loop runs one setImmediate callback.
RunImmediate ==
    /\ immediates > 0
    /\ immediates' = immediates - 1
    /\ Flush(pending, depth)
    /\ UNCHANGED <<outcome, msg, verdict, row, documents, duplicates>>

-----------------------------------------------------------------------------
(***************************************************************************)
(* flush() after its await.                                                *)
(***************************************************************************)

\* Deviation: a freed slot is not offered to what waits.
DrainNothing == UNCHANGED <<scheduled, immediates>>

\* drain(): the slot that has just been freed goes to what built up meanwhile.
Drain ==
    LET wanted == pending # <<>> /\ ~scheduled /\ inFlight' < MaxInFlight
    IN /\ scheduled' = (scheduled \/ wanted)
       /\ immediates' = IF wanted THEN immediates + 1 ELSE immediates

\* Deviation: any error but a duplicate key is taken for success.
ReplyTrusting(c) == IF verdict[c] = "duplicate" THEN "duplicate" ELSE "new"

\* What the caller of one document hears when the database has answered.
Reply(c) == CASE verdict[c] = "stored"    -> "new"
              [] verdict[c] = "duplicate" -> "duplicate"
              [] OTHER                    -> "rejected"

\* Deviations: the slot of a batch that came back is freed twice, or never.
FreeSlotTwice == inFlight' = inFlight - 2
KeepSlot == inFlight' = inFlight

FreeSlot == inFlight' = inFlight - 1

\* The database has answered, with or without errors for single documents.
BatchAnswered(b) ==
    /\ b \in batches
    /\ b \cap onWire = {}
    /\ batches' = batches \ {b}
    /\ FreeSlot
    /\ documents' = documents + Cardinality(b)
    /\ duplicates' =
           duplicates + Cardinality({c \in b : Reply(c) = "duplicate"})
    /\ outcome' = [c \in Callers |-> IF c \in b THEN Reply(c) ELSE outcome[c]]
    /\ Drain
    /\ UNCHANGED <<pending, depth, msg, dbVars>>

\* The bulk write failed as a whole (no answer, lost connection).  Nobody can
\* say which of its documents were or will be written.
BatchFailed(b) ==
    /\ b \in batches
    /\ batches' = batches \ {b}
    /\ FreeSlot
    /\ outcome' = [c \in Callers |-> IF c \in b THEN "rejected" ELSE outcome[c]]
    /\ Drain
    /\ UNCHANGED <<pending, depth, documents, duplicates, msg, dbVars>>

-----------------------------------------------------------------------------
(***************************************************************************)
(* The database.                                                           *)
(***************************************************************************)

\* One document of an unordered bulk write, against the unique index.
WriteDocument(c) ==
    /\ c \in onWire
    /\ onWire' = onWire \ {c}
    /\ IF row[msg[c]] = NoRow
       THEN /\ row' = [row EXCEPT ![msg[c]] = c]
            /\ verdict' = [verdict EXCEPT ![c] = "stored"]
       ELSE /\ verdict' = [verdict EXCEPT ![c] = "duplicate"]
            /\ UNCHANGED row
    /\ UNCHANGED <<queueVars, immediates, batches, outcome, msg>>

\* The write of one document fails for any other reason, or it never arrives.
RefuseDocument(c) ==
    /\ c \in onWire
    /\ onWire' = onWire \ {c}
    /\ verdict' = [verdict EXCEPT ![c] = "refused"]
    /\ UNCHANGED <<queueVars, immediates, batches, outcome, msg, row>>

\* Another backend, sharing the collection, stores this id.
WriteElsewhere(i) ==
    /\ row[i] = NoRow
    /\ row' = [row EXCEPT ![i] = Elsewhere]
    /\ UNCHANGED <<queueVars, immediates, batches, outcome, msg, onWire,
                   verdict>>

-----------------------------------------------------------------------------
Next ==
    \/ \E c \in Callers : Insert(c) \/ WriteDocument(c) \/ RefuseDocument(c)
    \/ \E b \in batches : BatchAnswered(b) \/ BatchFailed(b)
    \/ \E i \in MessageIds : WriteElsewhere(i)
    \/ RunImmediate

(***************************************************************************)
(* The event loop runs the callbacks it has been given, the database       *)
(* processes what it is sent, and every bulk write is answered or fails.   *)
(* Nobody is obliged to call insert().                                     *)
(***************************************************************************)
Fairness ==
    /\ WF_vars(RunImmediate)
    /\ \A c \in Callers : WF_vars(WriteDocument(c) \/ RefuseDocument(c))
    /\ \A b \in SUBSET Callers : WF_vars(BatchAnswered(b) \/ BatchFailed(b))

Spec == Init /\ [][Next]_vars

FairSpec == Spec /\ Fairness

-----------------------------------------------------------------------------
(***************************************************************************)
(* Properties.                                                             *)
(***************************************************************************)

Sent == UNION batches

\* Every caller still waiting has its document in exactly one place: once in
\* the pending list or in exactly one outstanding batch; and nobody else has.
\* (splice() and the swap of `pending' neither lose nor repeat a document.)
NobodyForgotten ==
    /\ {c \in Callers : outcome[c] = "waiting"} = Range(pending) \cup Sent
    /\ Range(pending) \cap Sent = {}
    /\ IsInjective(pending)
    /\ \A b1, b2 \in batches : b1 # b2 => b1 \cap b2 = {}

\* "A 200 response still means written": a caller told "new" owns the stored
\* row of its id, one told "duplicate" does not and somebody else does.  So of
\* all the calls with one id, on this backend and elsewhere, at most one is
\* told "new".
AnswersAreTrue ==
    \A c \in Callers :
        /\ outcome[c] = "new" => row[msg[c]] = c
        /\ outcome[c] = "duplicate" => row[msg[c]] \notin {NoRow, c}

\* The strengthening the proofs need: a document is sent at most once and only
\* for a caller in the queue's hands, and the database's verdict on it and the
\* unique index never disagree, even for documents of batches that failed.
WireConsistent ==
    \A c \in Callers :
        /\ c \in onWire => verdict[c] = "none"
                         /\ outcome[c] \in {"waiting", "rejected"}
        /\ c \in Range(pending) \/ outcome[c] = "idle"
               => verdict[c] = "none" /\ c \notin onWire
        /\ verdict[c] = "stored" <=> row[msg[c]] = c
        /\ verdict[c] = "duplicate" => row[msg[c]] \notin {NoRow, c}

\* inFlight counts the suspended flushes through every error path, no more of
\* them run than allowed, and no batch is empty or larger than allowed.
SlotsAccounted ==
    /\ inFlight = Cardinality(batches)
    /\ inFlight <= MaxInFlight
    /\ \A b \in batches : Cardinality(b) \in 1..MaxBatch

\* A waiting document is never stranded: a flush is still to run or a batch is
\* still to come back and drain.  The `scheduled' flag never claims a callback
\* that does not exist, although a direct flush() resets it under one that does.
NoLostWakeup ==
    /\ pending # <<>> => immediates > 0 \/ inFlight > 0
    /\ scheduled => immediates > 0

\* What the balancer reads as queue depth is the queue, after every early
\* return and every partial batch.
DepthIsExact == depth = Len(pending)

\* Every call of insert() is eventually answered, in a batch of any size,
\* through failed batches and full slots.
EveryInsertSettles ==
    \A c \in Callers : outcome[c] = "waiting" ~> outcome[c] \in Settled

\* The queue implements the abstract store, under the identity on the calls'
\* outcomes, their ids and the rows of the unique index.
Store == INSTANCE MessageStore

ImplementsStore == Store!Spec
=============================================================================
