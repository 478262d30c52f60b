# Verification of the load-balanced chat cluster

TLA+ models of the load balancer, the chat backend and the scripts that keep both
running, TLC runs that check them on small instances, and TLAPS proofs for every
value of the constants.

    tlc -workers 2 -config WriteQueue.cfg MCWriteQueue.tla     # one run
    tlapm WriteQueueProofs.tla                                 # one module's proofs

The repository holds the backend four times: `sources/server` and, as deployed,
`deployed/sys2` to `deployed/sys4`. Where two copies have a file it is the same,
byte for byte. `PROJECT.json` refers to `sources` for the balancer, the
scripts, the write queue and the feed, to `sys2` for synchronisation, to `sys3` for the
message route and to `sys4` for the chat and for the contracts `Room` and `SharedIndex`.

## 1. The system

Clients talk to one load balancer (Sys1), which forwards each request to one of
three identical Node.js backends (Sys2 to Sys4). The backends share one MongoDB.

| Component | State | Operations | Talks to |
| --- | --- | --- | --- |
| Load balancer, `sources/lb/main.go` | per backend: alive, overloaded, streaks, score (one lock each); in-flight counts, latency, counters (atomics) | serve a request (buffer, route, attempt, one retry), probe round, metrics, reset | backends over pooled HTTP; clients |
| Write queue, `api/writeQueue.js` | pending list, `scheduled`, `inFlight`, `depth` | `insert`, `flush`, `drain` | MongoDB bulk writes; the event loop |
| Feed store, `api/feedStore.js` | entries, ids seen, cached prefix, resume token | load, push, trim, change stream, reconcile, resync | MongoDB; gzip feed |
| Gzip feed, `api/gzipFeed.js` | live and rebuilding generation | append, rebuild, flush, body | zlib; `/feed` |
| HTTP routes, `api/router.js` | none | `/message`, `/feed` | write queue, feed store |
| Load metrics, `api/loadMetrics.js` | in-flight count, CPU and lag averages | `/lb/load` | balancer's probes |
| Database, `db/index.js` | messages, unique index on `msgId` | bulk insert, change streams | backends |
| Socket.IO chat, `socketHandlers.js`, `presence.js` | names online, keys, rate limits | register, prove, send, disconnect | MongoDB, adapter |
| Supervision, `ops/supervise.sh`, `ops/stop.sh`, `ops/ensure.sh` | lock and sentinel files | start, stop, restart | the processes |

What makes them right, and what makes that hard:

* **Balancer.** Every request is a goroutine, every probe another; they share
  health that is locked per backend, so routing reads a state that may never
  have existed. Attempts end in six ways, one of them a panic. Correctness:
  the in-flight count never drifts, healthy backends are never blamed, a single
  fault is invisible to a request that can be replayed, no request is replayed
  twice or at the same backend, the counters add up, and backends leave and
  re-enter rotation.
* **Write queue.** One thread, but `flush` suspends at its `await`, several
  activations overlap, and a direct flush of a full batch leaves an older
  callback queued. The database may answer per document, fail as a whole, or
  store a document after its caller was told that it failed. Correctness: every
  caller is answered exactly once and truthfully, nothing is lost, sent twice or
  stranded, and the limits hold.
* **Feed and gzip feed.** Local adds, change-stream events, reconciler queries
  and readers interleave at awaits; trimming shifts everything they hold.
  The compressor works in the background while messages arrive, and a rebuild
  replaces its stream under readers that await it. Correctness: each message
  held is listed once, the plain response is the room, the compressed one
  decodes and is never shorter, every reader is answered, every rebuild ends.
* **Synchronisation.** A room is kept up to date by a load, by the backend's own
  writes, by a change stream that breaks and is resumed at a token, and by a
  reconciler that reads the room again when counts disagree. Each of these is a
  call that takes effect some time between being made and being answered.
  Correctness: a break loses nothing, a backend is never left without a way to
  hear, and whatever gap opens is closed again.
* **Message path.** The balancer may replay a message; the unique index must
  make one row out of it, and a backend that says "ok" must serve it, even when
  another backend stored it.
* **Chat.** A login awaits a signature, a database and a history, and everything
  may change under it. Correctness: one socket to a name, a name to every socket
  that is logged in, a true list of who is online emitted after every change, no message
  missed by a newcomer.
* **Supervision.** Three scripts check and set two files beside each other, and any
  of them may be killed. Correctness: one process of a service at a time, a stop
  that holds, a service that comes back.

## 2. Modules

| Module | Models |
| --- | --- |
| `MessageStore` | the promise of `insert()`: what a caller may be told, and what may happen to the row |
| `WriteQueue` | `writeQueue.js` with the event loop and the database around it; `Store == INSTANCE MessageStore` |
| `Balancer` | `main.go`: handlers, probers, backends and clients |
| `Forwarding` | the promise of the balancer about one request: which attempts it makes and what the client is told |
| `Room` | the promise of a backend's feed: filled before it listens, only what is stored, nothing lost while the process lives |
| `SharedIndex` | the write queues of several backends, each seen through `MessageStore`, over one unique index; `All` is the one `MessageStore` they form |
| `Posting` | the promise of the whole system to a caller of `/message` |
| `MessagePath` | balancer, backends and unique index together, for `/message`; each backend's queue is an instance of `MessageStore`, the whole implements `Posting` |
| `Generation` | one deflate stream of `gzipFeed.js` and what has gone into it, as operators on a record |
| `Feed` | the room of `feedStore.js`, `gzipFeed.js` on top of `Generation`, and `GET /feed` of `router.js` |
| `FeedSync` | what brings messages into the room: `load`, `addLocal`, `watch`, `startReconciler` and `resync` of `feedStore.js`, started by `server.js` |
| `Lock` | the promise of a lock: one owner, and given back before another has it; kept by each name of `Chat` and by the service of `Supervisor` |
| `Chat` | `socketHandlers.js`, `presence.js`, `rateLimiter.js` and the two repositories behind them |
| `Supervisor` | `supervise.sh`, `stop.sh` and `ensure.sh` for one service of one container |
| `...Proofs` | theorems about the module of that name |
| `MC...` | symmetry for TLC; `MCWriteQueue` the order in which callers call |

`MessagePath` is the composition, and each of its parts is tied to the detailed
module of that part by a contract that both implement:

| Part of `MessagePath` | Contract | Detailed module | Theorems |
| --- | --- | --- | --- |
| balancer | `Forwarding` | `Balancer` | `PathForwards`, `BalancerForwards` |
| write queues and index | `MessageStore` | `WriteQueue`, one per backend, over `SharedIndex` | `PathImplementsStore`, `Refinement`, `QueuesAreOneStore` |
| room of a backend | `Room` | `FeedSync` | `PathKeepsRooms`, `SyncKeepsRoom` |
| all together | `Posting` | `MessagePath` | `PathImplementsPosting` |

Both sides of a row do no more than the contract allows; that everything a contract
allows occurs in `MessagePath` is not claimed. `Chat` and `Supervisor` stand beside it;
each is shown to keep the contract `Lock` (`NamesAreLocked`, `ServiceIsLocked`).

### WriteQueue

One action is one turn of JavaScript that runs without yielding.

| Action | Code |
| --- | --- |
| `InsertFull`, `InsertScheduling` | `insert()`, lines 67-85: push, then a direct flush or a `setImmediate` |
| `RunImmediate` | the callback of `setImmediate` |
| `Flush` = `FlushReturns` or `FlushSends` | `flush()` up to its `await`, 87-110 |
| `BatchAnswered(b)` | the rest of `flush()`, with or without per-document errors, 125-150 |
| `BatchFailed(b)` | the branch for a whole failure, 117-121 |
| `Drain` | `drain()`, 154-160, inside both of them |
| `WriteDocument`, `RefuseDocument`, `WriteElsewhere` | MongoDB, external: one document of an unordered bulk write against the unique index, in any order; another backend's write |

`batches` holds the suspended activations of `flush()`, each as the set of its
callers; `immediates` counts callbacks because they are all the same. The text of
a document is abstracted to its `msgId`. A document of a failed batch stays on the
wire and may still be stored: that is the lost acknowledgement.

### Balancer

| Action | Code |
| --- | --- |
| `Arrive`, `BodyFails` | `proxyHandler` up to the buffered body, 434-471 |
| `RoutePinned`, `RouteFree` | `stickyBackend` and the choice to call `pick`, 473-477 |
| `ReadBackend`, `CompareBackend` | the loops of `pick()`, one lock or one score per step, 248-315 |
| `Dispatch`, `NoBackendLeft` | what `pick()` returned, for a first attempt or the retry, 475-508 |
| `AttemptAnswered`, `AttemptFailed`, `ClientGaveUp`, `SessionEnds`, `ResponseCut` | the ends of `serveOnce`, with `markFailure` and `finish` |
| `ProbeTick`, `ProbeAnswered`, `ProbeFailed`, `ProbeGood` | a probe round, the answer outside the lock, the update under it, 657-729 |
| `Reset` | `resetHandler` |
| `Crash`, `Stall`, `Recover` | the backends, external |

Scores are integers `0..ScoreMax` that keep the code's smoothing (0.45 and 0.55,
rounded either way), threshold, hysteresis and the weights of `instantScore`. A
probe brings any of `Loads`: where the raw score comes from (CPU, lag, latency,
queue) is not modelled. The weighted draw of the performance policy is a
nondeterministic choice from the pool, because every candidate has a weight of at
least 0.02; round robin likewise. Streaks are counted up to their thresholds,
beyond which the code never tells them apart. Sticky cookies are on, as by
default. The keep-alive times of the two sides (90 and 120 seconds) are taken to
work as their comments explain: an idle backend does not reset a connection.

### Feed

One action is one turn of JavaScript, as in `WriteQueue`.

| Action | Code |
| --- | --- |
| `PushKept`, `PushTrimming` | `push()`, `feedStore.js` 213-255, with `GzipFeed.append` and, when it trims, `GzipFeed.rebuild` |
| `ReadPlain` | `GET /feed` answered by `payload()`, 293-308 |
| `ReadFlushed`, `ReadWaits` | `GzipFeed.body()` up to its `await`, `gzipFeed.js` 343-347 |
| `FlushDone` | the compressor's callback and all it resumes: the loop of `flush()`, 157-178, then `body()`, 358 |
| `FlushFails` | the same with `failed` set: `disable()` and the plain response, 326-352 |
| `StepSwaps`, then `ReadOrphaned` | the swap and `destroy()`, 311-323; a reader that awaited the destroyed stream finds no output, `body()` throws, and the route (`router.js` 166-183) sends the plain feed |
| `StepCopies`, `StepStale` | the other turns of `step()`, 294-309 |
| `Finished` | the end of the response; the client may ask again |

A text is its separator and its message's number: the code decides "[" or "," when
a message is pushed, never again. A deflate stream flushed to a byte boundary
decodes to what was written, so `written` is the output. The checksum and length
of the trailer are the sequence of texts they were computed over. `flushing` of a
generation is the promise that `flush()` awaits; the readers that await it are
those in state `waiting`. `base` and `baseCount` are the cached prefix. Messages
are numbered in the order in which the backend first hears of them; pushes of an
id that is held return at once and are left out; pushes of one that has been
trimmed are pushes like any other. `building.failed` cannot be set while
`building` is one: nothing is handed to a replacement's compressor before the swap,
so the branch at 301-304 has no action.

### FeedSync

| Action | Code |
| --- | --- |
| `Start`, `LoadReads`, `LoadFails`, `LoadEnds`, `Die` | `start()` of `server.js` around `feed.load()` and `feed.startSync()`; the process dies or is shut down |
| `StoreElsewhere`, `StoreOwn`, `AddLocal` | another backend's write; this backend's, and `addLocal()` when it has been answered |
| `StreamBegins`, `StreamDelivers`, `OtherMoves` | the `change` handler, 447-456, of the stream in `this.stream` and of one a resync has left open |
| `StreamFails`, `OtherFails`, `HandlerThrows` | the `error` handler, 458-475, which closes `this.stream` whichever stream failed |
| `WatchTimer`, `ResyncTimer` | `setTimeout` |
| `ResyncReads`, `ResyncFails`, `ResyncPushes` | `resync()`, 486-541: a stream, a read, pushes in chunks |
| `CheckCounts`, `CheckFails`, `CheckResyncs`, `CheckWaits`, `CoolDown` | `startReconciler()`, 364-412, over its two awaits |

Messages are numbered in the order in which they are stored. A stream is the number
of the last message it has delivered, `Opening` before the server has begun it, or
`Closed`; `others` counts the streams that have outlived a resync, by position.
The room fits its slack, so nothing is trimmed (that is `Feed`), and duplicates of
one id are left to `WriteQueue`. `CoolDown` takes a resync to be shorter than the
pause between two of them.

### MessagePath

| Action | Code |
| --- | --- |
| `Send`, `Retry`, `GivesUp`, `ClientLeaves` | `proxyHandler`, with the id it stamps on a request that has none (438-445) |
| `Breaks`, `Delivers` | the two ends of `serveOnce` that matter here |
| `Declines`, `Handles`, `Succeeds`, `NotStored` | `handleMessage` of `router.js` before and after its `await` |
| `Stores` | the unique index, external, as `MessageStore` has it |
| `Starts`, `Learns`, `Dies` | a backend's `load()`, its change events and resyncs, its end |

A copy of a request that the balancer has lost sight of is worked on all the same.
A message once acknowledged is taken to survive in the database (the journal may
lag by 100 ms, `db/index.js` 65-72) and the room to fit the feed. `Starts` lets a
backend listen as soon as it has loaded, which allows more than the code does.

### Chat

| Action | Code |
| --- | --- |
| `Connect`, `Disconnect` | `io.on('connection')`, the `disconnect` handler |
| `AuthStart`, `Challenge`, `TurnedAway` | `auth-start` before and after `findSender` |
| `AuthResponse`, `AuthExpires`, `Claim`, `AlreadyTaken`, `Register`, `RegisterFails`, `HistoryReads`, `Welcome`, `WelcomeWithout` | `auth-response` from await to await: the proof, the claim of the name, the key, the history, the list of users emitted |
| `SendMessage`, `WindowMoves`, `Verified`, `Refused`, `Save`, `Broadcast`, `AnswerLost` | `chat-message` from await to await, with the rate limit |
| `Forget` | an entry of `recentlyDisconnected` expires |

Handlers of one socket do not wait for each other and go on after it has gone. A
signature succeeds only for the key of the client. The rate limiter's window is a
count that may fall at any time. The room holds fewer messages than the history
shows. `io.emit` goes through the Mongo adapter (`server.js` 85), which awaits an insert
before it delivers on this backend and delivers nothing if the insert fails. For a chat
message that is `Broadcast`, which comes when both inserts have returned, or `AnswerLost`.
For the lists of online users `emitted` is the list handed over last; when or whether it
is delivered, and what the adapter brings from other backends, is not modelled.

### Supervisor

One action is one command that reads or writes the sentinel or the lock, or a step of
a process.

| Action | Code |
| --- | --- |
| `Start`, `EnsureAsks`, `EnsureStarts` | a call of `supervise.sh` by an operator's script; `ensure()` of `ensure.sh` |
| `ClearSentinel`, `TakeLock`, `Decline`, `TestSentinel`, `Launch`, `CheckSentinel`, `Exit` | `supervise.sh` |
| `Listen`, `ServiceFails`, `ServiceCloses`, `SleepEnds` | what a supervisor runs |
| `SupervisorKilled` | the kernel's choice, external |
| `Touch`, `Find`, `Terminate`, `SeeItGone`, `KillIt`, `Probe`, `Report`, `GiveUp` | `stop.sh` |

`flock(2)` belongs to the open file, which the service and `sleep` inherit: the lock
outlives a killed supervisor as long as its child does (`LockAfterKill`). `stop.sh`
probes the lock by taking it (`Probe`, `Report`). The sentinel is kept as the set
of stops that put it down, so that a property can say which stop a start came after.
Log rotation and `stop.sh` without a port are left out; `watchdog.sh` is not in the
repository and is taken to keep calling `ensure.sh`.

## 3. Runs

| Run | Instance | Shows |
| --- | --- | --- |
| `writequeue` | 5 callers, 1 id, batch 2, 2 slots, fair | type, four safety invariants, `MessageStore` as the specification of the queue, every `insert()` settles |
| `balancer_requests` | 2 requests (plain, of unknown length or upgraded), 2 backends, 2 faults, down after 2 failures | type, exact in-flight counts, no blame without a fault, a single fault hidden, one retry, balanced counters |
| `balancer_routing` | 1 request, scores over and under the threshold, 1 fault, 1 reset, fair | overload flag, rotation follows the backends, every request that nobody else holds up ends, and it is forwarded as `Forwarding` has it |
| `balancer_cookie` | 1 polling request, 1 fault | finding: the cookie names the failed backend |
| `feed_safety` | 2 readers, room of 2 with slack 1, prefix rebuilt after 1, chunks of 1, 6 pushes, fair | type, the room, both kinds of response, every reader answered, every rebuild ended |
| `feedsync` | 2 messages, chunks of 1, no slack, 2 faults, fair | type, never deaf, breaks lose nothing, `Room` as the specification of the room, every gap repaired |
| `feedsync_crash` | the same, without fairness | finding: two broken streams end the process |
| `messagepath` | 2 requests with one id or none, 2 backends, 1 death | who is answered is served, `Posting` as the specification of the whole |
| `chat` | 3 sockets, 2 names, 1 message, 3 logins | type, unique names, logged in is online, the list emitted is right, newcomers miss nothing |
| `chat_ghost` | 2 sockets, 1 name | finding: a name held by nobody |
| `supervisor` | 3 supervisors, 2 stops, 2 failures, 1 kill, fair and watched | type, one service, a stop holds, a service comes back |
| `supervisor_start` | 2 supervisors, 1 stop | finding: a start that starts nothing |

Every property of a passing run has a deviation of the code (the definitions
commented "Deviation", just before the definition they stand in for) under which
TLC finds it violated; several are bugs the source says it once had.

**Bounds.** Five callers with batches of two and two slots are the fewest for
which a backlog outgrows one batch while both slots are busy, so that the splice,
the stale callback and two overlapping flushes all occur; one id makes duplicates
within a batch, across batches and from another backend, and calls that do not
meet are left to the proofs. The callers call in the order of their numbers, which
are as good as any other; nothing is asked of the fairness of that action. Two
requests and two backends are the fewest for which a retry meets another failing
request; two faults are needed for a refusal. `balancer_requests` has the three
kinds of request that take every branch between them: "poll" is a "plain" one with the
cookie that an "upgrade" has too (it has `balancer_cookie`), and "large" is what
"chunked" is when its body is read in full; the proofs are about all five. A body is
exactly at the replay limit or one byte over it.
In the feed, `TrimAt` one above `MaxEntries` makes every
second push trim; six pushes into a room of two give two trims with a push between
them, so a rebuild is abandoned with its `step()` outstanding, the second stays to
finish, and trimmed ids arrive again. Chunks of one make every rebuild take two
turns. Two readers are the fewest for which one joins another's flush. For
`feedsync`, two messages are the fewest where one can be missed and a later one
delivered, and two faults are needed for a break during the repair of a break.
In the message path the one death falls on either side of the replay. Three
sockets with two names have two rivals for a name beside a bystander who is
listed with them; the run has one key, so a proof succeeds for everybody, and
wrong keys are left to the proofs. Three supervisors are an old one, its successor
and a start that races with both; two stops are needed for one to be undone
while another waits. `MaxFaults`, `MaxResets`, `MaxDeaths`, `MaxLogins`, `MaxFailures`,
`MaxKills`, `MaxRows` and `MaxArrivals` bound the environment only.

Deadlock is checked for the feed (a reader can always ask again) and the supervisor
(the watchdog calls again). For the others it is not: when every caller has been
answered and the faults are used up they really have nothing to do.

**Fairness.** The queue: the event loop runs its callbacks, the database works on
what it is sent, and each bulk write is answered or fails. The last is the
driver's part and has no timeout in this code, so a mongod that hangs for ever is
outside the claim. The balancer: the ticker ticks, probes return (2 s timeout),
and a handler goroutine runs where it waits for nobody (`HandlerStep`): `pick()`
decides, and a round trip whose connection has broken fails. The feed: `setImmediate`
callbacks run, and zlib calls back for each flush, with an error if it must; a
destroyed stream also calls back, so readers of one resume (`ReadOrphaned`).
Synchronisation: timers fire, the database answers or fails, a process that ended is
started again (`supervise.sh`). Supervision: scripts that have begun run on, a service
that has been launched gets to listen, `sleep` ends, and the watchdog calls
`ensure.sh`; a service may take for ever to close, because `stop.sh` kills it then.
Nothing is asked of clients, operators or faults. `EveryRequestEnds` states in its
formula what the code leaves to others because it sets no deadline: no backend stays
stalled (the transport has no response timeout); the client sends the body that the
handler buffers (`BodyIsSent`: `io.ReadAll` at 459, and `newServer` sets no read timeout);
and an attempt that can end does (`AttemptsDoEnd`: it gets one of the `MaxConnsPerHost`
connections, a backend that stays up answers, and the client takes the answer). Without
either of the last two TLC finds a request that never ends. The message path and the chat are checked for safety only.

## 4. Proofs

Each holds for all values of the constants that satisfy the module's assumption, and
assumes nothing else; `SharedIndex` has no assumption, and its theorems state what they
need: at least one backend, and values for "no row" and "elsewhere" that are no calls
(`Values`). Each module proves `Init => IInv`, one lemma per action or
group of actions for `IInv /\ [Next]_vars => IInv'`, and from these the theorems.

**`WriteQueueProofs`**: `TypeCorrect`, `NothingLostOrRepeated`,
`AcknowledgedMeansStored`, `WritesBounded`, `NeverStranded` are the invariants of
`writequeue`; `Refinement` is `Spec => Store!Spec`, so every behaviour of the queue
is one of `MessageStore`. `AnswersAreTrue` is not inductive by itself: when a batch
is answered one must know that the verdict and the index agree and that no document
of the batch is still on the wire, which is `WireConsistent`; that a document is not
sent a second time needs `NobodyForgotten`; `SlotsAccounted` and `NoLostWakeup` need
each other in `drain()`. `FlushEffect` states what `flush()` does for the three
actions that contain it, and rests on `CutSequence`, `AppendNew` and `RangeSize`
about sequences. `StepRefinement` maps inserts to `Submit`, the database's write to
`Store`, an answered or failed batch to `Settle`, all else to a stutter. `IInv` also
holds `DepthIsExact`: the depth reported to the balancer is that of the queue
(`DepthReported`); `WireConsistent` is stated by itself as `SentOnce`. `SettledOnce`
carries the action property `VerdictsStand` of `MessageStore` over to the queue.
`QueueWindsDown` is the safety half of `EveryInsertSettles`: a weighted count, `Work`, of
documents pending, batches outstanding, documents on the wire and callbacks is raised by an
insert by four at most, lowered by every other step of the event loop and the
database, and zero only when every caller has been answered; while it is not, there is a
callback, a document or a batch to take it further (`WorkIsDone`). `FlushWorks` and
`SettleWorks` say why `flush()` and `drain()` cannot send each other round.

**`SharedIndexProofs`**: `QueuesAreOneStore`, `OneWinnerAnywhere`,
`VerdictsStandAnywhere`. What one backend writes is "written elsewhere" to the others,
so a row that appears is one step of every queue at once. `QueueStep` says what a queue's
step can be as far as its backend sees, `RowsOnlyAppear` that a row changes once and by
itself, `RowStep` and `CallsStep` which step of the one store it is.

**`BalancerProofs`**: `TypeCorrect`, `InflightIsExact`, `AtMostOneRetry`,
`NoBlameWithoutFault`, `OneFaultIsHidden`, `FlagAgreesWithScore`,
`CountersAlwaysBalance`: the safety invariants of both runs; and `BalancerForwards`, `Spec => Relay!Spec`, where routing,
scanning and probing are stutters and the ends of `serveOnce` are those of `Forwarding`
(`ServeRelays`, `FinishRelays`, `QuietRelays`). `IInv` adds three
parts. `ScanInv` says what the loops of `pick()` have seen so far: its locals
are sets of usable backends, never with the excluded one, and a candidate is chosen as
soon as one has been compared. `TriedInv` says how the
attempts of a request so far follow from where it stands. `FaultInv` says that a
failure held against a backend, a backend out of rotation, and one that an unfinished
scan has passed over because it was down, have all had a fault; that is why a refusal
needs a fault of every backend although `pick()` reads them one by one and they
change meanwhile. `InflightExact` and `CountersBalance` equate numbers with
cardinalities, and each step adds or removes one request (`ServeCounted`,
`LeaveCounted`, `EndCounted`). Two theorems are the safety half of `EveryRequestEnds`:
`RequestsWindDown` bounds the steps of a request by a count, `StepsLeft`, that each of its
own steps lowers and no other step changes, and `PickAlwaysDecides` says that `pick()` has
something to do in every state of its scan. What is left to TLC is that fairness, and the
premises, make those steps happen. `CookieNamesFirst` draws the line round finding 1: the cookie given out
with an answer names the backend that answered exactly when there was one attempt
(`CookieInv`: once set, it names the first backend tried).

**`MessagePathProofs`**: `PathType` (the types are proved here and not checked by a run),
`PathServes` and `PathImplementsPosting`. `IInv`
adds that the copies of a request carry one id (`OneId`), that a row belongs to a copy
that carries its id and has been submitted (`RowsOwned`), that a replay follows its first attempt and the
balancer listens to one of them (`InOrder`), and that what has been answered is stored
(`AnsweredIsStored`). The refinement maps a copy's insert to `Keep`, the answer that
reaches the client to `Acknowledge` or `Fail`, and what happens to copies nobody
listens to to a `Keep` or a stutter. From the refinement and what follows from `Posting`
alone: `OkMeansKept` (a client told "ok" has its message stored), `NoDuplicates` (one
stored copy to an id) and `AnswersAreFinal`. The same steps are mapped to the contracts
of the parts in `PathImplementsStore`, `PathForwards` and `PathKeepsRooms`; the last needs
`RoomsHonest` (a room holds only stored rows, and none unless its backend lives).

**`FeedProofs`**: `FeedTypeCorrect`, `NoMessageTwice`, `CompressedDecodes`,
`StreamHoldsRoom`, `NobodyStranded` (`NothingStranded`, the safety half of
`ReadersAnswered` and `RebuildEnds`), and the action properties `PlainExact` and
`CompressedComplete`. What a reader is sent is right because of what the caches hold
before it asks: `PlainIsRoom` needs that the cached prefix is a prefix of the room
also after trims, `GzipDecodes` that the trailer counts exactly what is compressed,
in the compressor or queued, and `LongerNeverShorter` that the live stream ends with
the room. The last is kept by a swap only because snapshot and carry together are the
room throughout a rebuild and the replacement holds the part of the snapshot gone
over; those are `LiveHoldsRoom` and `CachesConsistent`. The lemmas on `EndsWith`,
`OneArray` and `Generation` carry the sequence arithmetic. `RebuildsWindDown` is the rest
of the safety half of `RebuildEnds`: every `step()` lowers the number of texts left to
copy, and only a trim raises it, to the size of the room (`SnapshotIsRoomful`).

**`FeedSyncProofs`**: `SyncType`, `SyncNeverDeaf` and the action property
`SyncLosesNothing`. `IInv` adds `TokenIsStream` (a stream that has delivered stands at
the token): it makes a reopened stream begin where the broken one ended.
`SyncKeepsRoom` is `Spec => Promise!Spec`: a slice of a resync and a change event are a
`Learn`, the end of `load()` the `Load`. It needs that nothing of an ended process is left
(`IdleUnlessUp`), so that what a new one holds it has read itself, and that all reads and
the room hold only stored rows (`OnlyStored`). `OneStreamSurvives` draws the line round
finding 2: in a behaviour without a resync by the reconciler and without a resync whose read
fails, a backend that is up has one stream, or one timer that will open it (`OneStream`), and
the handler never throws; with either of the two, TLC finds a behaviour in which it does.

**`ChatProofs`**: `ChatType`, `NamesAreUnique`, `LoggedInStaysOnline`,
`EmissionsSettle` (the list emitted last, not the one delivered last), `NewcomersAreServed`.
`IInv` has `NamesMatch` and `MarksAreFree`
(a name marked as recently disconnected is held by nobody), from which the name that
`reclaimUsername` would take is never that of a connected socket; and, for the history,
that a login past its claim belongs to a socket that connected (`LoginsAreConnected`)
and that what it has read, with what was broadcast since, covers all that was sent
(`HistoryCovers`). Three more are about who holds a name over time. `NamesAreKept`
is the action property `NobodyIsPushedOut`: a socket stops holding its name only by
disconnecting or by claiming another. `NamesAreLocked` is the refinement of `Lock`, once
for each name; both rest on `ClaimTakes`, that a claim that succeeds finds the name free. `GhostsComeLate`
draws the line round finding 3: everybody in the list is connected as long as no claim comes
after its socket's disconnect (`ClaimsComeInTime`).

**`SupervisorProofs`**: `SupervisorType`, `NeverTwoServices`, `StoppedStaysDown`.
`LockInv` says that a supervisor inside its loop has the lock and that a child keeps it
for one that was killed, hence one service; `VictimInv` that the process `stop.sh` waits
for has listened; `DownInv` is `StopMeansIt` from the moment `stop.sh` has the lock.
`LockNeverStale` says that whoever has the lock still needs it; `ServiceIsLocked` is the
refinement of `Lock`: one process of the service has ended before another is started.
`HolderKeepsRunning` is the safety half of `StaysUp`: without a sentinel, a supervisor in its
loop keeps the lock and the loop whatever the other scripts do, and each of its own steps
lowers `StepsFromUp`, its distance from a service that listens, which only a failure or a
signal of `stop.sh` raises.

Only model-checked: liveness (`EveryInsertSettles`, `RotationFollowsBackends`,
`EveryRequestEnds`, `ReadersAnswered`, `RebuildEnds`, `GapRepaired`, `StaysUp`), because
fairness and `ENABLED` are beyond the prover. `PathKeepsRooms` is about one backend, for
each of them; TLC checks no property with a parameter, so no run has it, and
`PathImplementsStore`, `PathForwards` and the theorems of `SharedIndex` have no run either;
`NamesAreLocked` is about each name in the same way. The theorems that say how far a measure can go
(`...WindDown`, `HolderKeepsRunning`) and those that say how far a finding goes
(`CookieNamesFirst`, `OneStreamSurvives`, `GhostsComeLate`) were checked by TLC on the
instances of their modules' runs before they were proved.

## 5. Findings

1. `main.go:488`: after a retry the sticky cookie names the backend that failed
   (`balancer_cookie`).
2. `feedStore.js:466`: a resync leaves the old stream open, every stream's error handler
   closes `this.stream`, and the second of two failures finds it null and throws:
   nothing catches it and the process ends (`feedsync_crash`).
3. `socketHandlers.js:245`: a socket that disconnects while its proof is verified
   claims its name afterwards, and nobody ever frees it (`chat_ghost`).
4. `supervise.sh:51`: a start that finds the lock held by a supervisor on its way out
   clears the sentinel too late and declines; nobody runs the service
   (`supervisor_start`). The moment for which `stop.sh` holds the lock to probe it
   has the same effect. The watchdog repairs both (`StaysUp`).

Noted while reading or modelling, without a run:

* `writeQueue.js:155`: `drain()` asks for one flush however many slots have come free,
  so a slot can idle beside waiting documents until the next answer.
* `main.go:644`: failures separated by answered requests still add up to "down", where
  the comment at 636 speaks of consecutive ones.
* `main.go:469`: a body of unknown length over 64 KB is cut, not forwarded.
* `main.go:1003`: `abandoned` is not reset.
* `gzipFeed.js:189`: the compressed feed of a room without messages decodes to "]", where
  the plain one is "[]".
* `gzipFeed.js:354-357` says that a reader whose generation was replaced during its
  flush is answered from that generation. The swap has destroyed it and its output;
  `body()` throws and the reader gets the plain feed (`ReadOrphaned`).
* `gzipFeed.js:158`: `flush()` goes round for as long as something has been appended during
  each flush, and its readers wait. `ReadersAnswered` holds because arrivals are bounded
  (`MaxArrivals`): what it says of the code is that readers are answered once there is a
  flush without an arrival.
* `gzipFeed.js:311` says that the snapshot is compressed at the swap. `step()` only
  queues it: the first flush after the swap compresses the whole room as one chunk,
  off the event loop's thread.
* `gzipFeed.js:265-267` says that no message of the longer stream is repeated. A
  trimmed message that arrives again during a rebuild is in it twice.
* `feedStore.js:496`: a stream that outlives a resync is not resumed when it fails, so
  `BreaksLoseNothing` is stated for a stream alone (`others = NoOthers`): otherwise its
  messages are missing until the reconciler looks. Gaps within `RECONCILE_SLACK` stay.
  A room larger than `maxEntries` at load never counts right, and is resynced at every
  pause, each time with one more stream.
* `router.js:92-93`: an id of blanks only counts as none, but is enough for the balancer
  not to stamp one: each copy then gets an id of its own and a replay is stored twice.
  The model has no such ids.
* `socketHandlers.js:235-243`: a name is reclaimed only when it is both taken and
  recently given up, which never holds (`MarksAreFree`), contrary to 232-234.
* `socketHandlers.js:250`: when `registerSender` fails, the socket stays logged in without
  having been welcomed, is told to try again (70), and is ignored when it does (147).
* `socketHandlers.js:170-172` says that the key is checked again after the proof; it is
  not. Two answers to challenges on one socket leave the first name without a
  `user-left`.
* `socketHandlers.js:267` and `395` emit a list after every join and leave, and the README
  of the server (175) has it reach everyone. The adapter awaits an insert for each: two
  lists can be delivered in the other order, and one whose insert fails is dropped, so
  that an old list can stay although the last one emitted was right (`EmittedWhenQuiet`)
  and no login is under way.
* A client that sends a chat message again stores it twice: `saveMessage` makes a new id.
* `ensure.sh:36-46` tests the sentinel and then starts `supervise.sh`, which clears it: a
  stop in between is undone, contrary to 17 ("A service that was deliberately stopped
  stays stopped").
* `stop.sh` finds nothing to kill while a service is not listening yet, waits thirty
  seconds for a lock that is not released, and reports it (`GiveUp`).

## 6. Not modelled

* In the balancer: the latency average behind the score, for which a probe may bring
  any score, and the rings and pages of `/lb/metrics` and `/lb/timeline`, which report.
  The transport's `MaxConnsPerHost` is left out too, and that is more: it blocks.
  With 128 connections of a backend taken, by WebSockets for instance, other requests for
  it wait without a timeout. In the model every attempt has its connection or dials at
  once; one that waits looks like one that is not answered yet, and `EveryRequestEnds`
  excludes it by a premise.
* A request whose `Upgrade` header is not printable: `ReverseProxy` refuses it through
  `ErrorHandler`, so that it counts as a failure of a backend that is well.
  `HealthyStaysInRotation` is about the kinds of request the model has.
* Load metrics of a backend: averages and reads of cgroup files.
* MongoDB's journal, elections and connection pool; the adapter between the backends'
  Socket.IO servers, whose code is a library; the order in which `shutdown()` closes
  things, which waits for no handler (the models let a process die at any moment).
* The narrowed views of `/feed`, encryption, signatures and validation: pure functions.
* The load generator, the experiment and deployment scripts: outside the served system,
  or sequential operator scripts without state of their own.
* Three of the four copies of each backend file, since they are the same; the client.

## 7. Plan

1. The adapter: the delivery of lists of online users, and messages between two backends,
   one of which restarts.
2. `MaxConnsPerHost` and upgraded connections; latency fed back into the score.
3. The order of `shutdown()` with requests in flight, composed with `Supervisor`: what a
   restart costs a caller.
