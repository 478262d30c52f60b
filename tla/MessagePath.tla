---------------------------- MODULE MessagePath ----------------------------
(***************************************************************************)
(* One message from the client to the room: the balancer forwards the      *)
(* request and may replay it once on another backend (sources/lb/main.go); *)
(* a backend stores it and serves it from its own copy of the room         *)
(* (router.js, server.js and db/index.js as deployed on Sys3).             *)
(*                                                                         *)
(* The write queue of a backend and the unique index are used through what *)
(* they promise, MessageStore; WriteQueue implements it.  A copy of a      *)
(* request is one call of insert().  What the balancer loses sight of is   *)
(* worked on all the same.  The room is taken to fit into the feed, and a  *)
(* message once acknowledged to survive in the database.                   *)
(***************************************************************************)
EXTENDS Naturals

CONSTANTS Requests,  \* requests for /message
          Backends,
          CallerIds, \* ids that callers supply
          NoId,      \* the caller supplies none
          NoRow,     \* no document with that msgId is stored
          Nowhere,   \* no backend
          MaxDeaths  \* bound on the deaths of backends

ASSUME MessagePathAssumption ==
    /\ NoRow \notin Requests \X {1, 2}
    /\ NoId \notin CallerIds
    /\ Nowhere \notin Backends
    /\ MaxDeaths \in Nat

VARIABLES
    \* the balancer and its clients
    answer,    \* what the client of each request has been told
    listening, \* the copies whose answer the balancer waits for
    \* the copies of the requests
    at,        \* the backend each was forwarded to
    reply,     \* what the handler of each has answered
    outcome,   \* what insert() has told the handler
    msg,       \* the id each carries
    \* the backends and the database
    alive,     \* the backends that accept connections
    room,      \* the ids in the feed of each backend
    deaths,    \* how often one has died
    row        \* the unique index: the copy stored under each id

requestVars == <<answer, listening, at>>
handlerVars == <<reply, outcome, msg, row>>
backendVars == <<alive, room, deaths>>
vars == <<requestVars, handlerVars, backendVars>>

\* The first forwarding of a request and its replay.
Attempts == Requests \X {1, 2}

\* What a caller supplies, what the balancer stamps, what a backend makes up.
MessageIds == CallerIds \cup Requests \cup Attempts

\* All documents come from the attempts: nothing is stored elsewhere.
Queue == INSTANCE MessageStore WITH Callers <- Attempts, Elsewhere <- NoRow

TypeOK ==
    /\ answer \in [Requests -> {"idle", "waiting", "ok", "failed"}]
    /\ listening \in SUBSET Attempts
    /\ at \in [Attempts -> Backends \cup {Nowhere}]
    /\ reply \in [Attempts -> {"none", "ok", "refused", "lost"}]
    /\ alive \in SUBSET Backends
    /\ room \in [Backends -> SUBSET MessageIds]
    /\ deaths \in 0..MaxDeaths
    /\ Queue!TypeOK

\* Deviation: every copy is stamped, or given a fresh id by its backend.
StampAgain(a) == a

\* X-Message-Id is stamped once, before the first copy is forwarded.
Stamp(a) == a[1]

\* What the caller put in the body or the query string wins.  An id that is
\* nothing but blanks, which wins as well and is then replaced, is left out.
MessageId(supplied, a) == IF supplied[a[1]] # NoId THEN supplied[a[1]] ELSE Stamp(a)

Init ==
    /\ answer = [r \in Requests |-> "idle"]
    /\ listening = {}
    /\ at = [a \in Attempts |-> Nowhere]
    /\ reply = [a \in Attempts |-> "none"]
    /\ outcome = [a \in Attempts |-> "idle"]
    /\ \E supplied \in [Requests -> CallerIds \cup {NoId}] :
          msg = [a \in Attempts |-> MessageId(supplied, a)]
    /\ alive = {}
    /\ room = [b \in Backends |-> {}]
    /\ deaths = 0
    /\ row = [i \in MessageIds |-> NoRow]

Stored == {i \in MessageIds : row[i] # NoRow}

-----------------------------------------------------------------------------
(* The balancer.                                                           *)

\* To a process that does not accept connections it never comes.
Forward(a, b) ==
    /\ at' = [at EXCEPT ![a] = b]
    /\ listening' = listening \cup {a}
    /\ reply' = [reply EXCEPT ![a] = IF b \in alive THEN @ ELSE "lost"]
    /\ UNCHANGED <<outcome, msg, row, backendVars>>

\* Whether the backend lives is known only from the last probe.
Send(r, b) ==
    /\ answer[r] = "idle"
    /\ answer' = [answer EXCEPT ![r] = "waiting"]
    /\ Forward(<<r, 1>>, b)

Unanswered(r) ==
    /\ answer[r] = "waiting"
    /\ <<r, 1>> \notin listening
    /\ <<r, 2>> \notin listening

\* The first attempt failed and nothing has reached the client.
Retry(r, b) ==
    /\ Unanswered(r)
    /\ at[<<r, 2>>] = Nowhere
    /\ b # at[<<r, 1>>]
    /\ Forward(<<r, 2>>, b)
    /\ UNCHANGED answer

\* The connection is refused, cut or silent for too long.
Breaks(a) ==
    /\ a \in listening
    /\ listening' = listening \ {a}
    /\ UNCHANGED <<answer, at, handlerVars, backendVars>>

Answers(r, said) ==
    /\ answer' = [answer EXCEPT ![r] = said]
    /\ UNCHANGED <<at, handlerVars, backendVars>>

\* What the client is told: a 503 is passed on, not retried.
Says(a) == IF reply[a] = "ok" THEN "ok" ELSE "failed"

Delivers(a) ==
    /\ a \in listening
    /\ reply[a] \in {"ok", "refused"}
    /\ listening' = listening \ {a}
    /\ Answers(a[1], Says(a))

\* No other backend to try, a body too large to replay, or a failed replay.
GivesUp(r) ==
    /\ answer[r] = "idle" \/ Unanswered(r)
    /\ Answers(r, "failed")
    /\ UNCHANGED listening

\* The client goes away: nothing is retried.
ClientLeaves(r) ==
    /\ answer[r] = "waiting"
    /\ listening' = listening \ {<<r, 1>>, <<r, 2>>}
    /\ Answers(r, "failed")

-----------------------------------------------------------------------------
(* handleMessage().                                                        *)

\* The request has come to a process that lives and has not been answered.
Arrived(a) ==
    /\ at[a] \in alive
    /\ reply[a] = "none"

\* 400 or 413: nothing reaches the queue.
Declines(a) ==
    /\ Arrived(a)
    /\ outcome[a] = "idle"
    /\ reply' = [reply EXCEPT ![a] = "refused"]
    /\ UNCHANGED <<requestVars, outcome, msg, row, backendVars>>

\* Up to the insert().
Handles(a) ==
    /\ Arrived(a)
    /\ Queue!Submit(a)
    /\ UNCHANGED <<requestVars, reply, backendVars>>

\* The insert, at the database.
Stores(a) ==
    /\ Queue!Store(a)
    /\ UNCHANGED <<requestVars, reply, backendVars>>

\* insert() settles.
Settles(a, verdict) ==
    /\ Arrived(a)
    /\ outcome[a] = "waiting"
    /\ verdict \in Queue!Verdicts(a)
    /\ outcome' = [outcome EXCEPT ![a] = verdict]
    /\ UNCHANGED <<requestVars, msg, row, alive, deaths>>

\* Deviation: a duplicate is taken to be in the room already.
AddedIfNew(a, verdict) == IF verdict = "new" THEN {msg[a]} ELSE {}

\* What addLocal() is given, a duplicate or not.
Added(a, verdict) == {msg[a]}

Succeeds(a) ==
    \E verdict \in {"new", "duplicate"} :
        /\ Settles(a, verdict)
        /\ room' = [room EXCEPT ![at[a]] = @ \cup Added(a, verdict)]
        /\ reply' = [reply EXCEPT ![a] = "ok"]

\* 503: it may be stored all the same, or yet be.
NotStored(a) ==
    /\ Settles(a, "rejected")
    /\ reply' = [reply EXCEPT ![a] = "refused"]
    /\ UNCHANGED room

-----------------------------------------------------------------------------
(* The life of a backend.                                                  *)

\* start(): every message stored when feed.load() reads is in the room.  What
\* is stored from then until it listens has not been learned yet.
Starts(b) ==
    /\ b \notin alive
    /\ alive' = alive \cup {b}
    /\ room' = [room EXCEPT ![b] = Stored]
    /\ UNCHANGED <<requestVars, handlerVars, deaths>>

\* The change stream, or a resync, brings what others have stored.
Learns(b, i) ==
    /\ b \in alive
    /\ i \in Stored
    /\ room' = [room EXCEPT ![b] = @ \cup {i}]
    /\ UNCHANGED <<requestVars, handlerVars, alive, deaths>>

\* A crash, or shutdown(), which waits for no handler.  What has been sent to
\* the database may still be stored; nobody is told.
Dies(b) ==
    /\ b \in alive
    /\ deaths < MaxDeaths
    /\ deaths' = deaths + 1
    /\ alive' = alive \ {b}
    /\ room' = [room EXCEPT ![b] = {}]
    /\ reply' = [a \in Attempts |->
                    IF at[a] = b /\ reply[a] = "none" THEN "lost" ELSE reply[a]]
    /\ outcome' = [a \in Attempts |->
                      IF at[a] = b /\ outcome[a] = "waiting" THEN "rejected" ELSE outcome[a]]
    /\ UNCHANGED <<requestVars, msg, row>>

-----------------------------------------------------------------------------
RequestStep(r) ==
    \/ \E b \in Backends : Send(r, b) \/ Retry(r, b)
    \/ GivesUp(r) \/ ClientLeaves(r)

AttemptStep(a) ==
    \/ Breaks(a) \/ Delivers(a)
    \/ Declines(a) \/ Handles(a) \/ Stores(a) \/ Succeeds(a) \/ NotStored(a)

BackendStep(b) ==
    \/ Starts(b) \/ Dies(b)
    \/ \E i \in MessageIds : Learns(b, i)

Next ==
    \/ \E r \in Requests : RequestStep(r)
    \/ \E a \in Attempts : AttemptStep(a)
    \/ \E b \in Backends : BackendStep(b)

Spec == Init /\ [][Next]_vars

-----------------------------------------------------------------------------
(* Properties.                                                             *)

\* Whoever posts reads it back: a backend that has answered for a message has
\* it in its feed, though it may have been stored through another backend
\* whose change event is still to come, and through any restart.
AnsweredIsServed ==
    \A a \in Attempts :
        /\ outcome[a] \in {"new", "duplicate"}
        /\ at[a] \in alive
        => msg[a] \in room[at[a]]

Abstract == INSTANCE Posting WITH
    Copies <- {1, 2},
    Keys <- MessageIds,
    key <- [r \in Requests |-> msg[<<r, 1>>]],
    kept <- {row[i] : i \in Stored}

\* "No duplicates": a replay, or a client that tries again with its own id,
\* is stored at most once, and "a 200 still means the database has the
\* message", although the attempts that failed go on being worked on.
ImplementsPosting == Abstract!Spec

\* The parts this composition is made of, each seen through its promise: the
\* write queues and the index, the balancer, the feed of each backend.
ImplementsStore == Queue!Spec

Relay == INSTANCE Forwarding WITH
    first <- [r \in Requests |-> at[<<r, 1>>]],
    second <- [r \in Requests |-> at[<<r, 2>>]],
    awaited <- {a[1] : a \in listening},
    replayable <- Requests

ImplementsForwarding == Relay!Spec

RoomOf(b) == INSTANCE Room WITH
    Ids <- MessageIds,
    Whole <- TRUE,
    up <- b \in alive,
    room <- room[b],
    stored <- Stored

ImplementsRoom == \A b \in Backends : RoomOf(b)!Spec
=============================================================================
