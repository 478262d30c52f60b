-------------------------------- MODULE Feed --------------------------------
(***************************************************************************)
(* The room one backend serves /feed from: the entries, the cached prefix  *)
(* and the trimming of src/sources/server/src/api/feedStore.js, the        *)
(* incremental compression of gzipFeed.js and its readers in router.js.    *)
(*                                                                         *)
(* One action is one turn of JavaScript that runs without yielding: a      *)
(* message pushed, a request for the feed up to its await, the callback of *)
(* the compressor with every continuation it resumes, one step() of a      *)
(* rebuild.                                                                *)
(*                                                                         *)
(* Messages are numbered in the order in which the backend first hears of  *)
(* them.  A push of an id that is held changes nothing and is left out; a  *)
(* push of an id that was trimmed away (a client's retry, a late change    *)
(* event) is a push like any other.                                        *)
(***************************************************************************)
EXTENDS Integers, Generation, Functions

CONSTANTS Readers,     \* concurrent requests for the whole feed
          MaxEntries,  \* maxEntries of the store
          TrimAt,      \* trimAt: one tenth above it
          RebaseAfter, \* REBASE_AFTER
          ChunkSize,   \* REBUILD_CHUNK
          MaxArrivals  \* bound on the pushes of a behaviour

ASSUME FeedAssumption ==
    /\ MaxEntries \in Nat \ {0}
    /\ TrimAt \in Nat
    /\ TrimAt >= MaxEntries
    /\ RebaseAfter \in Nat
    /\ ChunkSize \in Nat \ {0}
    /\ MaxArrivals \in Nat

VARIABLES
    \* FeedStore
    entries,    \* the messages held, oldest first
    seen,       \* their ids, for the test of push()
    base,       \* the cached prefix of the response, <<>> for null
    baseCount,  \* how many entries it holds
    \* GzipFeed
    enabled,    \* the compressor has not failed
    live,       \* the generation readers are answered from
    rebuilding, \* building is not null
    building,   \* its replacement
    snapshot,   \* what the replacement is built from
    cursor,     \* how much of the snapshot has been appended to it
    carry,      \* what has arrived since the snapshot
    immediates, \* step() callbacks that have not run
    \* the readers and the messages
    reader,     \* what each request is doing
    answer,     \* the body it was sent
    known,      \* messages that have arrived at least once
    arrivals    \* pushes so far

storeVars == <<entries, seen, base, baseCount>>
cacheVars == <<base, baseCount>>
rebuildVars == <<rebuilding, building, snapshot, cursor, carry>>
gzipVars == <<enabled, live, rebuildVars, immediates>>
readerVars == <<reader, answer>>
arrivalVars == <<known, arrivals>>
vars == <<storeVars, gzipVars, readerVars, arrivalVars>>

\* One entry as it is written into the compressed stream: the first of a
\* stream begins with "[", the others with ",".
Text == [sep : {"[", ","}, id : Nat]

Sep(n) == IF n = 1 THEN "[" ELSE ","

Texts(room) == [i \in 1..Len(room) |-> [sep |-> Sep(i), id |-> room[i]]]

NoAnswer == [coding |-> "none", texts |-> <<>>, sum |-> <<>>]

Answers == [coding : {"none", "plain", "gzip"}, texts : Seq(Text), sum : Seq(Text)]

\* The state of a reader awaiting a flush of the live generation is
\* "waiting"; "orphaned" when a rebuild has destroyed that generation.
ReaderStates == {"idle", "waiting", "orphaned", "answered"}

TypeOK ==
    /\ entries \in Seq(Nat)
    /\ Len(entries) <= TrimAt
    /\ seen \in SUBSET Nat
    /\ base \in Seq(Nat)
    /\ baseCount \in Nat
    /\ enabled \in BOOLEAN
    /\ live \in Generations(Text)
    /\ rebuilding \in BOOLEAN
    /\ building \in Generations(Text)
    /\ snapshot \in Seq(Text)
    /\ cursor \in Nat
    /\ carry \in Seq(Text)
    /\ immediates \in Nat
    /\ reader \in [Readers -> ReaderStates]
    /\ answer \in [Readers -> Answers]
    /\ known \in Nat
    /\ arrivals \in 0..MaxArrivals

Init ==
    /\ entries = <<>>
    /\ seen = {}
    /\ base = <<>>
    /\ baseCount = 0
    /\ enabled = TRUE
    /\ live = Fresh
    /\ rebuilding = FALSE
    /\ building = Fresh
    /\ snapshot = <<>>
    /\ cursor = 0
    /\ carry = <<>>
    /\ immediates = 0
    /\ reader = [r \in Readers |-> "idle"]
    /\ answer = [r \in Readers |-> NoAnswer]
    /\ known = 0
    /\ arrivals = 0

-----------------------------------------------------------------------------
(* Messages: push(), by addLocal(), addDocument(), load() and resync().    *)

\* gzip.append() of message i, pushed onto a room of n entries.
TextOf(i, n) == [sep |-> Sep(n + 1), id |-> i]

Accept(i) ==
    /\ i \notin seen
    /\ arrivals < MaxArrivals
    /\ arrivals' = arrivals + 1
    /\ known' = IF i > known THEN i ELSE known

GzipAppend(text) ==
    live' = IF enabled THEN Appended(live, <<text>>) ELSE live

\* Deviation: the room is compared before the message has been pushed.
FullLater == Len(entries) > TrimAt

\* Pushing one more puts the room over its slack.
Full == Len(entries) >= TrimAt

\* push() of a message that leaves the room within its slack.
PushKept(i) ==
    /\ Accept(i)
    /\ ~Full
    /\ entries' = Append(entries, i)
    /\ seen' = seen \cup {i}
    /\ GzipAppend(TextOf(i, Len(entries)))
    /\ carry' = IF rebuilding THEN Append(carry, TextOf(i, Len(entries))) ELSE carry
    /\ UNCHANGED <<cacheVars, enabled, rebuilding, building, snapshot, cursor,
                   immediates, readerVars>>

\* The entries that are left when i is pushed onto a full room.
Trimmed(i) ==
    LET room == Append(entries, i)
    IN  SubSeq(room, Len(room) - MaxEntries + 1, Len(room))

\* Deviation: one id too many is taken out.
SeenOneShort(i) == Range(Tail(Trimmed(i)))

\* The ids that are left with them.
SeenAfterTrim(i) == Range(Trimmed(i))

\* Deviation: the cached prefix survives the trim.
BaseKept == base

\* The cached prefix after a trim: none.
BaseAfterTrim == <<>>

\* rebuild(): a replacement is begun from what is left; one that was being
\* built is abandoned, the step() it had asked for is not.
Rebuild(texts) ==
    IF enabled
    THEN /\ rebuilding' = TRUE
         /\ building' = Fresh
         /\ snapshot' = texts
         /\ cursor' = 0
         /\ carry' = <<>>
         /\ immediates' = immediates + 1
    ELSE UNCHANGED <<rebuildVars, immediates>>

\* push() of a message that puts the room over its slack: the oldest entries
\* go, the cached prefix with them, and the compressed stream is replaced.
PushTrimming(i) ==
    /\ Accept(i)
    /\ Full
    /\ entries' = Trimmed(i)
    /\ seen' = SeenAfterTrim(i)
    /\ base' = BaseAfterTrim
    /\ baseCount' = Len(base')
    /\ GzipAppend(TextOf(i, Len(entries)))
    /\ Rebuild(Texts(entries'))
    /\ UNCHANGED <<enabled, readerVars>>

-----------------------------------------------------------------------------
(* Readers: GET /feed.                                                     *)

\* payload(): the prefix is rebuilt when the tail has grown too long.
Rebase == base = <<>> \/ Len(entries) - baseCount > RebaseAfter

ServePayload ==
    IF entries # <<>> /\ Rebase
    THEN /\ base' = entries
         /\ baseCount' = Len(entries)
    ELSE UNCHANGED cacheVars

\* The response of payload() with the given prefix: then the entries after it.
Payload(prefix, count) ==
    LET texts == Texts(prefix \o SubSeq(entries, count + 1, Len(entries)))
    IN  [coding |-> "plain", texts |-> texts, sum |-> texts]

Send(rs, response) ==
    /\ reader' = [r \in Readers |-> IF r \in rs THEN "answered" ELSE reader[r]]
    /\ answer' = [r \in Readers |-> IF r \in rs THEN response ELSE answer[r]]

\* The client does not accept gzip, or the compressor has been turned off.
ReadPlain(r) ==
    /\ reader[r] = "idle"
    /\ ServePayload
    /\ Send({r}, Payload(base', baseCount'))
    /\ UNCHANGED <<entries, seen, gzipVars, arrivalVars>>

\* body() of the gzip feed with nothing to flush.
ReadFlushed(r) ==
    /\ reader[r] = "idle"
    /\ enabled
    /\ ~live.flushing
    /\ live.pending = <<>>
    /\ Send({r}, Body(live))
    /\ UNCHANGED <<storeVars, gzipVars, arrivalVars>>

\* body() begins a flush and awaits it, or awaits the one that is under way.
ReadWaits(r) ==
    /\ reader[r] = "idle"
    /\ enabled
    /\ live.flushing \/ live.pending # <<>>
    /\ live' = IF live.flushing THEN live ELSE FlushBegun(live)
    /\ reader' = [reader EXCEPT ![r] = "waiting"]
    /\ UNCHANGED <<storeVars, enabled, rebuildVars, immediates, answer, arrivalVars>>

Waiting == {r \in Readers : reader[r] = "waiting"}

\* Deviation: a reader that awaited a flush does not check again.
FlushOnce(g) == FALSE

\* A reader that awaited a flush needs another one.
FlushAgain(g) == g.pending # <<>>

\* The compressor is done.  Readers go on if nothing has come in since;
\* otherwise the one that began this flush begins the next and all wait.
FlushDone ==
    /\ live.flushing
    /\ LET g == FlushEnded(live)
       IN  IF FlushAgain(g)
           THEN /\ live' = FlushBegun(g)
                /\ UNCHANGED readerVars
           ELSE /\ live' = g
                /\ Send(Waiting, Body(g))
    /\ UNCHANGED <<storeVars, enabled, rebuildVars, immediates, arrivalVars>>

\* disable(), and what every waiting reader is sent instead.
FlushFails ==
    /\ live.flushing
    /\ enabled' = FALSE
    /\ live' = [live EXCEPT !.flushing = FALSE]
    /\ rebuilding' = FALSE
    /\ building' = Fresh
    /\ snapshot' = <<>>
    /\ carry' = <<>>
    /\ ServePayload
    /\ Send(Waiting, Payload(base', baseCount'))
    /\ UNCHANGED <<entries, seen, cursor, immediates, arrivalVars>>

\* A reader of a destroyed generation comes back from its await: there is no
\* output to take a body from, or no stream to flush into, so body() throws
\* and the route sends the plain feed.
ReadOrphaned(r) ==
    /\ reader[r] = "orphaned"
    /\ ServePayload
    /\ Send({r}, Payload(base', baseCount'))
    /\ UNCHANGED <<entries, seen, gzipVars, arrivalVars>>

\* The client has its response and may ask again.
Finished(r) ==
    /\ reader[r] = "answered"
    /\ reader' = [reader EXCEPT ![r] = "idle"]
    /\ answer' = [answer EXCEPT ![r] = NoAnswer]
    /\ UNCHANGED <<storeVars, gzipVars, arrivalVars>>

-----------------------------------------------------------------------------
(* Rebuilding: step(), one chunk per turn of the event loop.               *)

\* A step() left over from a rebuild that was abandoned or finished.
StepStale ==
    /\ immediates > 0
    /\ ~rebuilding
    /\ immediates' = immediates - 1
    /\ UNCHANGED <<storeVars, enabled, live, rebuildVars, readerVars, arrivalVars>>

ChunkEnd ==
    IF cursor + ChunkSize < Len(snapshot) THEN cursor + ChunkSize ELSE Len(snapshot)

CopyChunk(g) == Appended(g, SubSeq(snapshot, cursor + 1, ChunkEnd))

\* Deviation: the next step() is not asked for.
AfterCopyNothing == immediates - 1

\* The step() that asked for the next one leaves as many callbacks as it found.
AfterCopy == immediates

StepCopies ==
    /\ immediates > 0
    /\ rebuilding
    /\ ChunkEnd < Len(snapshot)
    /\ building' = CopyChunk(building)
    /\ cursor' = ChunkEnd
    /\ immediates' = AfterCopy
    /\ UNCHANGED <<storeVars, enabled, live, rebuilding, snapshot, carry,
                   readerVars, arrivalVars>>

\* Deviation: what arrived during the rebuild is left out of it.
ReplacementWithoutCarry(g) == CopyChunk(g)

\* What the replacement holds when it becomes the live generation.
Replacement(g) == Appended(CopyChunk(g), carry)

\* Deviation: its readers are not resumed.
OrphanForgotten(r) == "waiting"

\* destroy() of the replaced generation.
Orphan(r) == "orphaned"

\* The last chunk: the replacement becomes the live one, and the one it
\* replaces is destroyed, together with any flush awaited by readers.
StepSwaps ==
    /\ immediates > 0
    /\ rebuilding
    /\ ChunkEnd = Len(snapshot)
    /\ live' = Replacement(building)
    /\ rebuilding' = FALSE
    /\ building' = Fresh
    /\ snapshot' = <<>>
    /\ cursor' = 0
    /\ carry' = <<>>
    /\ immediates' = immediates - 1
    /\ reader' = [r \in Readers |-> IF reader[r] = "waiting" THEN Orphan(r) ELSE reader[r]]
    /\ UNCHANGED <<storeVars, enabled, answer, arrivalVars>>

Step == StepStale \/ StepCopies \/ StepSwaps

-----------------------------------------------------------------------------
Push == \E i \in 1..known + 1 : PushKept(i) \/ PushTrimming(i)

Read(r) ==
    \/ ReadPlain(r)
    \/ ReadFlushed(r)
    \/ ReadWaits(r)
    \/ ReadOrphaned(r)
    \/ Finished(r)

Next ==
    \/ Push
    \/ \E r \in Readers : Read(r)
    \/ FlushDone
    \/ FlushFails
    \/ Step

Spec == Init /\ [][Next]_vars

\* The event loop runs its callbacks, and the compressor ends or fails each
\* flush, also one whose stream has been destroyed.
Fairness ==
    /\ WF_vars(FlushDone \/ FlushFails)
    /\ WF_vars(Step)
    /\ \A r \in Readers : WF_vars(ReadOrphaned(r))

FairSpec == Spec /\ Fairness

-----------------------------------------------------------------------------
(* Properties.                                                             *)

\* The last of the texts are the room.
EndsWith(texts, room) ==
    /\ Len(room) <= Len(texts)
    /\ \A k \in 1..Len(room) : texts[Len(texts) - Len(room) + k].id = room[k]

\* The texts with the closing "]" are one JSON array.
OneArray(texts) ==
    /\ texts # <<>>
    /\ \A i \in 1..Len(texts) : texts[i].sep = Sep(i)

Answered(r) == reader[r] # "answered" /\ reader'[r] = "answered"

\* The in-memory room lists no message twice, and the ids it tests arrivals
\* against are exactly those of the messages it holds: through any order of
\* pushes, trims and second arrivals of what has been trimmed.
RoomHasNoRepeats ==
    /\ seen = Range(entries)
    /\ \A i, j \in 1..Len(entries) : entries[i] = entries[j] => i = j

\* The uncompressed response, put together from a prefix cached some pushes
\* and trims ago and a tail, is the room as it is when it is sent.
PlainIsRoom ==
    [][\A r \in Readers :
          Answered(r) /\ answer'[r].coding = "plain"
              => answer'[r].texts = Texts(entries')]_vars

\* The compressed response of a room that has ever held a message decodes:
\* the trailer was computed over the very texts that are in the stream, and
\* they open one array.  A message counted and not yet compressed, or a
\* stream that starts in the middle of the room, would break it.
GzipDecodes ==
    \A r \in Readers :
        answer[r].coding = "gzip" =>
            /\ answer[r].texts = answer[r].sum
            /\ answer[r].texts # <<>> => OneArray(answer[r].texts)

\* "That is a longer feed than the store would give, never a shorter one":
\* whatever is pushed, trimmed or rebuilt while a reader waits, the
\* compressed response ends with the room as it is when it is sent.
LongerNeverShorter ==
    [][\A r \in Readers :
          Answered(r) /\ answer'[r].coding = "gzip"
              => EndsWith(answer'[r].texts, entries')]_vars

\* What makes that so: the live generation ends with the room, and a
\* replacement under construction will hold exactly the room, however often
\* the rebuild is started over and whatever arrives meanwhile.
LiveHoldsRoom ==
    enabled =>
        /\ EndsWith(live.sum, entries)
        /\ rebuilding => snapshot \o carry = Texts(entries)

\* What the caches know about the room and the stream about itself: the
\* prefix is a prefix of the room it is served with, also after trims; the
\* trailer counts what is compressed, in the compressor or queued for it, in
\* that order; the stream is one array; a replacement holds the part of the
\* snapshot that has been gone over.
CachesConsistent ==
    /\ baseCount = Len(base)
    /\ baseCount <= Len(entries)
    /\ base = SubSeq(entries, 1, baseCount)
    /\ live.sum = Content(live)
    /\ live.sum # <<>> => OneArray(live.sum)
    /\ live.flushing => enabled
    /\ enabled =>
        /\ ~live.flushing => live.chunk = <<>>
        /\ entries = <<>> => live.sum = <<>>
    /\ rebuilding =>
        /\ enabled
        /\ cursor <= Len(snapshot)
        /\ building.pending = SubSeq(snapshot, 1, cursor)
        /\ building.sum = building.pending
        /\ building.written = <<>> /\ building.chunk = <<>> /\ ~building.flushing

\* No rebuild is left without a callback to go on with, and no reader awaits
\* a flush that is not under way.
NothingStranded ==
    /\ rebuilding => immediates > 0
    /\ \A r \in Readers : reader[r] = "waiting" => live.flushing

\* Every request for the feed is answered: flushes that have to be repeated,
\* a failing compressor and a generation destroyed under its readers
\* included.
ReadersAnswered ==
    \A r \in Readers : reader[r] \in {"waiting", "orphaned"} ~> reader[r] = "answered"

\* Every rebuild comes to an end.
RebuildEnds == rebuilding ~> ~rebuilding
=============================================================================
