------------------------------ MODULE FeedSync ------------------------------
(***************************************************************************)
(* How the messages of a shared collection reach the room of one backend:  *)
(* the load at startup, the messages it writes itself, the change stream   *)
(* with its resume token, and the reconciler that falls back on reading    *)
(* the room again.  The code is feedStore.js as deployed on Sys2, with the *)
(* part of server.js that starts it.                                       *)
(*                                                                         *)
(* The messages of the room are numbered in the order in which they are    *)
(* stored; the same order is that of their change events and of their _id. *)
(* The room stays within its slack, so nothing is trimmed and `dropped' is *)
(* zero (Feed models the trims).                                           *)
(*                                                                         *)
(* A call to the database takes effect there at some moment between being  *)
(* issued and being answered: opening a stream, reading the room and       *)
(* counting it are steps of their own, in any order.                       *)
(***************************************************************************)
EXTENDS Integers, FiniteSets

CONSTANTS MaxEntries,  \* maxEntries: how many messages a find returns
          TrimAt,      \* how many the room holds before it trims
          Slack,       \* RECONCILE_SLACK
          ChunkSize,   \* RESYNC_CHUNK
          MaxRows,     \* bound on the messages stored
          MaxFaults    \* bound on failures of streams and of database calls,
                       \* and on deaths of the process from outside

ASSUME FeedSyncAssumption ==
    /\ MaxEntries \in Nat \ {0}
    /\ TrimAt \in Nat
    /\ Slack \in Nat
    /\ ChunkSize \in Nat \ {0}
    /\ MaxRows \in 0..TrimAt
    /\ MaxFaults \in Nat

VARIABLES
    \* the collection
    rows,         \* how many messages are stored
    \* the backend
    phase,        \* of its process
    held,         \* the messages in entries
    written,      \* its own messages, stored and not yet added to the room
    prepared,     \* per find that was answered, what remains to be pushed
    reading,      \* finds of resync() under way
    watchTimers,  \* setTimeout callbacks that will call watch() ...
    resyncTimers, \* ... and resync()
    \* its change streams
    stream,       \* this.stream: the last message it has gone past
    others,       \* how many more are open at each position
    token,        \* resumeToken, a position
    \* its reconciler
    checking,     \* a check awaits its count
    counted,      \* what countDocuments() returned to it
    wasShort,     \* shortLastTime > RECONCILE_SLACK
    cooled,       \* the last resync it asked for is long enough ago
    faults        \* the faults so far

roomVars == <<held, written>>
resyncVars == <<prepared, reading, resyncTimers>>
streamVars == <<stream, others, token>>
checkVars == <<checking, counted, wasShort, cooled>>
processVars == <<phase, roomVars, resyncVars, watchTimers, streamVars, checkVars>>
vars == <<rows, processVars, faults>>

Messages == 1..MaxRows

\* A stream that the server has been asked to start at "now" has no position
\* yet; this.stream = null; resumeToken = null.
Opening == -1
Closed == -2
NoToken == 0

Positions == {Opening} \cup 0..MaxRows

NoOthers == [p \in Positions |-> 0]

Phases == {"down", "starting", "loaded", "up", "threw"}

TypeOK ==
    /\ rows \in 0..MaxRows
    /\ phase \in Phases
    /\ held \in SUBSET Messages
    /\ written \in SUBSET Messages
    /\ prepared \in SUBSET (SUBSET Messages)
    /\ reading \in Nat
    /\ watchTimers \in Nat
    /\ resyncTimers \in Nat
    /\ stream \in Positions \cup {Closed}
    /\ others \in [Positions -> Nat]
    /\ token \in {NoToken} \cup Messages
    /\ checking \in BOOLEAN
    /\ counted \in 0..MaxRows
    /\ wasShort \in BOOLEAN
    /\ cooled \in BOOLEAN
    /\ faults \in 0..MaxFaults

\* A process that is not there, and one that has just been started.
NoProcess(p) ==
    /\ phase' = p
    /\ held' = {}
    /\ written' = {}
    /\ prepared' = {}
    /\ reading' = 0
    /\ watchTimers' = 0
    /\ resyncTimers' = 0
    /\ stream' = Closed
    /\ others' = NoOthers
    /\ token' = NoToken
    /\ checking' = FALSE
    /\ counted' = 0
    /\ wasShort' = FALSE
    /\ cooled' = TRUE

Init ==
    /\ rows = 0
    /\ phase = "down"
    /\ held = {}
    /\ written = {}
    /\ prepared = {}
    /\ reading = 0
    /\ watchTimers = 0
    /\ resyncTimers = 0
    /\ stream = Closed
    /\ others = NoOthers
    /\ token = NoToken
    /\ checking = FALSE
    /\ counted = 0
    /\ wasShort = FALSE
    /\ cooled = TRUE
    /\ faults = 0

\* The newest messages, at most MaxEntries of them: what a find returns.
Newest == {i \in 1..rows : i > rows - MaxEntries}

Fault ==
    /\ faults < MaxFaults
    /\ faults' = faults + 1

-----------------------------------------------------------------------------
(* watch() and resync(), called by the actions below.                      *)

\* Deviations: a broken stream is reopened blind, or one event too far on.
OpenedBlind(t) == Opening
OpenedPast(t) == IF t = NoToken THEN Opening ELSE t + 1

\* Where a stream opened with token t starts.
OpenedAt(t) == IF t = NoToken THEN Opening ELSE t

\* watch() at token t.  The stream it replaces, if there is one, stays open.
\* It leaves `timers' resync timers, or one more if it could open none.
WatchOpens(t, timers) ==
    /\ stream' = OpenedAt(t)
    /\ others' = IF stream = Closed THEN others ELSE [others EXCEPT ![stream] = @ + 1]
    /\ resyncTimers' = timers
    /\ UNCHANGED faults

WatchThrows(timers) ==
    /\ Fault
    /\ resyncTimers' = timers + 1
    /\ UNCHANGED <<stream, others>>

Watch(t, timers) == WatchOpens(t, timers) \/ WatchThrows(timers)

\* resync() up to its await: the stream, without its token, and a find.
Resync(timers) ==
    /\ token' = NoToken
    /\ Watch(NoToken, timers)
    /\ reading' = reading + 1

-----------------------------------------------------------------------------
(* The life of the process.                                                *)

\* start() up to the query of load().
Start ==
    /\ phase \in {"down", "threw"}
    /\ NoProcess("starting")
    /\ UNCHANGED <<rows, faults>>

LoadReads ==
    /\ phase = "starting"
    /\ phase' = "loaded"
    /\ prepared' = {Newest}
    /\ UNCHANGED <<rows, roomVars, reading, watchTimers, resyncTimers, streamVars,
                   checkVars, faults>>

\* A load that fails ends the process.
LoadFails ==
    /\ phase = "starting"
    /\ NoProcess("down")
    /\ Fault
    /\ UNCHANGED rows

\* The rest of load(), startSync() and listen().
LoadEnds ==
    /\ phase = "loaded"
    /\ phase' = "up"
    /\ held' = UNION prepared
    /\ prepared' = {}
    /\ Watch(token, resyncTimers)
    /\ UNCHANGED <<rows, written, reading, watchTimers, token, checkVars>>

\* The process is killed or shut down.
Die ==
    /\ phase \in {"starting", "loaded", "up"}
    /\ NoProcess("down")
    /\ Fault
    /\ UNCHANGED rows

-----------------------------------------------------------------------------
(* Messages.                                                               *)

\* Another backend stores a message.
StoreElsewhere ==
    /\ rows < MaxRows
    /\ rows' = rows + 1
    /\ UNCHANGED <<processVars, faults>>

\* The database stores a message of this backend ...
StoreOwn ==
    /\ phase = "up"
    /\ rows < MaxRows
    /\ rows' = rows + 1
    /\ written' = written \cup {rows + 1}
    /\ UNCHANGED <<phase, held, resyncVars, watchTimers, streamVars, checkVars,
                   faults>>

\* ... and addLocal() adds it to the room when the write has been answered.
AddLocal(i) ==
    /\ i \in written
    /\ written' = written \ {i}
    /\ held' = held \cup {i}
    /\ UNCHANGED <<rows, phase, resyncVars, watchTimers, streamVars, checkVars,
                   faults>>

-----------------------------------------------------------------------------
(* The change stream.                                                      *)

\* One of the other streams at p goes on to q.
OtherMoves(p, q) ==
    /\ others[p] > 0
    /\ others' = [others EXCEPT ![p] = @ - 1, ![q] = @ + 1]
    /\ UNCHANGED stream

\* The server begins a stream that was not given a token.
StreamBegins ==
    /\ \/ stream = Opening /\ stream' = rows /\ UNCHANGED others
       \/ OtherMoves(Opening, rows)
    /\ UNCHANGED <<rows, phase, roomVars, resyncVars, watchTimers, token,
                   checkVars, faults>>

\* The 'change' event of message i: the token, then the message unless it is
\* held.
StreamDelivers(i) ==
    /\ i <= rows
    /\ \/ stream = i - 1 /\ stream' = i /\ UNCHANGED others
       \/ OtherMoves(i - 1, i)
    /\ token' = i
    /\ held' = held \cup {i}
    /\ UNCHANGED <<rows, phase, written, resyncVars, watchTimers, checkVars, faults>>

\* Deviation: a stream whose token is good is left dead.
ReopenNot ==
    \/ UNCHANGED <<watchTimers, resyncTimers>>
    \/ resyncTimers' = resyncTimers + 1 /\ UNCHANGED watchTimers

\* The handler asks for another stream or, if the token is too old, a resync.
Reopen ==
    \/ watchTimers' = watchTimers + 1 /\ UNCHANGED resyncTimers
    \/ resyncTimers' = resyncTimers + 1 /\ UNCHANGED watchTimers

\* The 'error' event of this.stream.
StreamFails ==
    /\ stream # Closed
    /\ Fault
    /\ stream' = Closed
    /\ Reopen
    /\ UNCHANGED <<rows, phase, roomVars, prepared, reading, others, token, checkVars>>

\* The 'error' event of another: the handler closes this.stream all the same.
OtherFails(p) ==
    /\ others[p] > 0
    /\ stream # Closed
    /\ Fault
    /\ others' = [others EXCEPT ![p] = @ - 1]
    /\ stream' = Closed
    /\ Reopen
    /\ UNCHANGED <<rows, phase, roomVars, prepared, reading, token, checkVars>>

\* With no this.stream to close it throws, and nothing catches.
HandlerThrows(p) ==
    /\ others[p] > 0
    /\ stream = Closed
    /\ Fault
    /\ NoProcess("threw")
    /\ UNCHANGED rows

WatchTimer ==
    /\ watchTimers > 0
    /\ watchTimers' = watchTimers - 1
    /\ Watch(token, resyncTimers)
    /\ UNCHANGED <<rows, phase, roomVars, prepared, reading, token, checkVars>>

-----------------------------------------------------------------------------
(* The resync.                                                             *)

ResyncTimer ==
    /\ resyncTimers > 0
    /\ Resync(resyncTimers - 1)
    /\ UNCHANGED <<rows, phase, roomVars, prepared, watchTimers, checkVars>>

\* What prepare() lets through of the documents that a find returns.
Missing == Newest \ held

ResyncReads ==
    /\ reading > 0
    /\ reading' = reading - 1
    /\ prepared' = prepared \cup ({Missing} \ {{}})
    /\ UNCHANGED <<rows, phase, roomVars, resyncTimers, watchTimers, streamVars,
                   checkVars, faults>>

ResyncFails ==
    /\ reading > 0
    /\ Fault
    /\ reading' = reading - 1
    /\ resyncTimers' = resyncTimers + 1
    /\ UNCHANGED <<rows, phase, roomVars, prepared, watchTimers, streamVars, checkVars>>

\* The oldest ChunkSize messages of p.
Slice(p) == {i \in p : Cardinality({j \in p : j < i}) < ChunkSize}

\* Deviation: what was read takes the place of the room.
Replaced(p) == Slice(p)

\* The room after one turn of the loop that pushes the messages of p.
Pushed(p) == held \cup Slice(p)

ResyncPushes(p) ==
    /\ phase = "up"
    /\ p \in prepared
    /\ held' = Pushed(p)
    /\ prepared' = (prepared \ {p}) \cup ({p \ Slice(p)} \ {{}})
    /\ UNCHANGED <<rows, phase, written, reading, resyncTimers, watchTimers,
                   streamVars, checkVars, faults>>

-----------------------------------------------------------------------------
(* The reconciler.                                                         *)

\* The interval fires and the database counts.
CheckCounts ==
    /\ phase = "up"
    /\ ~checking
    /\ checking' = TRUE
    /\ counted' = rows
    /\ UNCHANGED <<rows, phase, roomVars, resyncVars, watchTimers, streamVars,
                   wasShort, cooled, faults>>

Short == counted - Cardinality(held) > Slack

\* Deviation: every check forgets what the last one saw.
ShortForgotten == FALSE

\* What a check leaves for the next.
ShortRemembered == Short

CheckEnds ==
    /\ checking
    /\ checking' = FALSE
    /\ counted' = 0
    /\ UNCHANGED <<rows, phase, roomVars, prepared, watchTimers>>

\* countDocuments() fails instead.
CheckFails ==
    /\ CheckEnds
    /\ Fault
    /\ UNCHANGED <<wasShort, cooled, streamVars, reading, resyncTimers>>

\* A gap seen twice in a row, and not too soon after the last resync.
CheckResyncs ==
    /\ CheckEnds
    /\ Short /\ wasShort /\ cooled
    /\ wasShort' = FALSE
    /\ cooled' = FALSE
    /\ Resync(resyncTimers)

CheckWaits ==
    /\ CheckEnds
    /\ ~(Short /\ wasShort /\ cooled)
    /\ wasShort' = ShortRemembered
    /\ UNCHANGED <<cooled, streamVars, reading, resyncTimers, faults>>

\* RESYNC_COOLDOWN_MS have passed; a resync takes less.
CoolDown ==
    /\ ~cooled
    /\ reading = 0 /\ prepared = {}
    /\ cooled' = TRUE
    /\ UNCHANGED <<rows, phase, roomVars, resyncVars, watchTimers, streamVars,
                   checking, counted, wasShort, faults>>

-----------------------------------------------------------------------------
Startup == Start \/ LoadReads \/ LoadFails \/ LoadEnds

\* What the database has to tell this backend reaches it.
News ==
    \/ \E i \in Messages : AddLocal(i) \/ StreamDelivers(i)
    \/ StreamBegins

Breaks ==
    \/ StreamFails
    \/ \E p \in Positions : OtherFails(p) \/ HandlerThrows(p)

Timers == WatchTimer \/ ResyncTimer

ResyncGoesOn == ResyncReads \/ ResyncFails \/ \E p \in prepared : ResyncPushes(p)

Check == CheckCounts \/ CheckFails \/ CheckResyncs \/ CheckWaits

Next ==
    \/ Startup \/ Die
    \/ StoreElsewhere \/ StoreOwn
    \/ News \/ Breaks \/ Timers \/ ResyncGoesOn
    \/ Check \/ CoolDown

Spec == Init /\ [][Next]_vars

(***************************************************************************)
(* The supervisor restarts the process, timers fire, the event loop runs,  *)
(* and the database answers.  Nobody is obliged to store a message, and    *)
(* there are at most MaxFaults faults.                                     *)
(***************************************************************************)
Fairness ==
    /\ WF_vars(Startup)
    /\ WF_vars(News)
    /\ WF_vars(Timers)
    /\ WF_vars(ResyncGoesOn)
    /\ WF_vars(Check)
    /\ WF_vars(CoolDown)

FairSpec == Spec /\ Fairness

-----------------------------------------------------------------------------
(* Properties.                                                             *)

\* Message i will still be brought to the room: by a stream that has not
\* passed it, by a token to resume from, by the write that is being answered,
\* or by a read of the room that is under way or to come.
OnItsWay(i) ==
    \/ i \in written
    \/ stream \in 0..i - 1
    \/ \E p \in 0..i - 1 : others[p] > 0
    \/ watchTimers > 0 /\ token \in 1..i - 1
    \/ \E p \in prepared : i \in p
    \/ reading > 0 \/ resyncTimers > 0

\* "This is the difference between a stream that breaks and one that loses
\* data": once the stream has delivered an event, a message among the newest
\* MaxEntries that is held or on its way stays so, however often that stream
\* breaks and whatever else fails, as long as it is the only one.
BreaksLoseNothing ==
    [][ phase = "up" /\ phase' = "up" /\ token # NoToken /\ others = NoOthers
          => \A i \in Newest \cap Newest' :
                i \in held \/ OnItsWay(i) => i \in held' \/ OnItsWay(i)' ]_vars

\* "Notices a feed that has fallen behind the database, and repairs it": a
\* room that lacks more than Slack of the newest MaxEntries messages, whether
\* they were lost between load and stream, between a resync's stream and its
\* read, in a break without a token or with streams that outlived a resync,
\* gets them.
GapRepaired ==
    Cardinality(Missing) > Slack ~> Cardinality(Missing) <= Slack

Deaf == stream = Closed /\ others = NoOthers

\* "A broken stream is reopened rather than left dead": whenever a backend
\* that is up hears nothing, a timer is set that will open a stream, also when
\* the failure of one stream has closed another and when opening one fails.
NeverLeftDeaf ==
    phase = "up" /\ Deaf => watchTimers > 0 \/ resyncTimers > 0

Promise == INSTANCE Room WITH
    Ids <- Messages,
    Whole <- MaxRows <= MaxEntries,
    up <- phase \in {"loaded", "up"},
    room <- IF phase = "loaded" THEN UNION prepared ELSE held,
    stored <- 1..rows

\* Through breaks, resyncs and restarts the room is filled by load(), holds only
\* what is stored and loses nothing until the process ends: a resync and the
\* timers and streams that an earlier life has left behind change nothing else.
ImplementsRoom == Promise!Spec

\* "A change stream can be closed under us by a failover or a network blip, so
\* a broken stream is reopened rather than left dead": the handler of a broken
\* stream does not end the process instead.
BrokenStreamSurvived == phase # "threw"
=============================================================================
