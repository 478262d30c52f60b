-------------------------------- MODULE Chat --------------------------------
(***************************************************************************)
(* The Socket.IO side of one backend: the login handshake, presence, chat  *)
(* messages and the history a newcomer is sent (socketHandlers.js,         *)
(* presence.js, rateLimiter.js, senderRepository.js and                    *)
(* messageRepository.js as deployed on Sys4).                              *)
(*                                                                         *)
(* A handler runs without yielding up to an await; handlers of one socket  *)
(* do not wait for each other, and go on after their socket has gone.  One *)
(* action is one such stretch.  Names stand for their lower-case forms.    *)
(* The room holds fewer messages than the limit of the history.  Checking  *)
(* a signature is external: it succeeds only for the key of the client.    *)
(* What is emitted to everybody goes through the Mongo adapter, which      *)
(* awaits an insert before it delivers to this backend's own sockets, and  *)
(* delivers nothing if that insert fails.  A message is delivered in a     *)
(* step of its own or not at all; of the lists of online users the module  *)
(* has what is emitted, not when, or whether, it arrives.  One backend     *)
(* alone: what the adapter brings from the others is left out.             *)
(***************************************************************************)
EXTENDS Integers, FiniteSets

CONSTANTS Sockets,   \* connections, each with an id of its own
          Names,     \* usernames
          Keys,      \* public keys
          Messages,  \* chat messages that clients may send
          Nobody,    \* no username
          NoKey,     \* no key registered
          MaxEvents, \* MAX_EVENTS_PER_WINDOW
          MaxLogins  \* bound on the logins begun

ASSUME ChatAssumption ==
    /\ Nobody \notin Names
    /\ NoKey \notin Keys
    /\ MaxEvents \in Nat \ {0}
    /\ MaxLogins \in Nat

VARIABLES
    \* the clients and their connections
    connection,  \* of each socket
    identity,    \* the key the client of each socket holds
    received,    \* the messages each socket has been sent
    welcomed,    \* sockets that have been sent the history
    \* per socket, on the server
    username,    \* socket.data.username
    pendingAuth, \* socket.data.pendingAuth: a challenge for a name and a key
    hits,        \* its messages in the window of the rate limiter
    logins,      \* login handlers suspended at an await
    begun,       \* how many logins have been begun
    brokenOff,   \* sockets with a login that failed after it claimed its name
    \* shared on the server
    online,      \* usersBySocketId
    recent,      \* recentlyDisconnected
    emitted,     \* the online-users list handed to the adapter last
    \* the database
    senders,     \* the key registered for each name
    post         \* how far each message has come

socketVars == <<username, pendingAuth, hits, logins, begun, brokenOff>>
presenceVars == <<online, recent, emitted>>
clientVars == <<connection, identity, received, welcomed>>
vars == <<clientVars, socketVars, presenceVars, senders, post>>

Challenges == [name : Names, key : Keys]

NoChallenge == [name |-> Nobody, key |-> NoKey]

\* Awaiting findSender(), verifyBytes(), registerSender(), getHistory() and the
\* rest of loadHistory(), with the messages it has read.
Logins == [at : {"finding", "verifying", "registering", "reading", "decoding"},
           socket : Sockets, name : Names, key : Keys, history : SUBSET Messages]

\* "lost" is a message that is stored and never goes out.
PostStates == {"unsent", "verifying", "saving", "stored", "sent", "lost", "refused"}

TypeOK ==
    /\ connection \in [Sockets -> {"new", "connected", "gone"}]
    /\ identity \in [Sockets -> Keys]
    /\ received \in [Sockets -> SUBSET Messages]
    /\ welcomed \in SUBSET Sockets
    /\ username \in [Sockets -> Names \cup {Nobody}]
    /\ pendingAuth \in [Sockets -> Challenges \cup {NoChallenge}]
    /\ hits \in [Sockets -> 0..MaxEvents]
    /\ logins \in SUBSET Logins
    /\ begun \in 0..MaxLogins
    /\ brokenOff \in SUBSET Sockets
    /\ online \in [Sockets -> Names \cup {Nobody}]
    /\ recent \in SUBSET Names
    /\ emitted \in SUBSET Names
    /\ senders \in [Names -> Keys \cup {NoKey}]
    /\ post \in [Messages -> PostStates]

Init ==
    /\ connection = [s \in Sockets |-> "new"]
    /\ identity \in [Sockets -> Keys]
    /\ received = [s \in Sockets |-> {}]
    /\ welcomed = {}
    /\ username = [s \in Sockets |-> Nobody]
    /\ pendingAuth = [s \in Sockets |-> NoChallenge]
    /\ hits = [s \in Sockets |-> 0]
    /\ logins = {}
    /\ begun = 0
    /\ brokenOff = {}
    /\ online = [s \in Sockets |-> Nobody]
    /\ recent = {}
    /\ emitted = {}
    /\ senders = [n \in Names |-> NoKey]
    /\ post = [m \in Messages |-> "unsent"]

Connected(s) == connection[s] = "connected"

\* presence.list()
Online == {online[s] : s \in Sockets} \ {Nobody}

\* The rows of the collection, and those that have been broadcast.
Stored == {m \in Messages : post[m] \in {"stored", "sent", "lost"}}
Sent == {m \in Messages : post[m] = "sent"}

-----------------------------------------------------------------------------
(* Connections.                                                            *)

Connect(s) ==
    /\ connection[s] = "new"
    /\ connection' = [connection EXCEPT ![s] = "connected"]
    /\ UNCHANGED <<identity, received, welcomed, socketVars, presenceVars,
                   senders, post>>

\* The 'disconnect' handler: presence.remove(), and the new list is emitted.
Disconnect(s) ==
    /\ Connected(s)
    /\ connection' = [connection EXCEPT ![s] = "gone"]
    /\ online' = [online EXCEPT ![s] = Nobody]
    /\ hits' = [hits EXCEPT ![s] = 0]
    /\ IF online[s] # Nobody
       THEN /\ recent' = recent \cup {online[s]}
            /\ emitted' = Online'
       ELSE UNCHANGED <<recent, emitted>>
    /\ UNCHANGED <<identity, received, welcomed, username, pendingAuth, logins,
                   begun, brokenOff, senders, post>>

\* Ten seconds after its disconnect a name is forgotten.
Forget(n) ==
    /\ n \in recent
    /\ recent' = recent \ {n}
    /\ UNCHANGED <<clientVars, socketVars, online, emitted, senders, post>>

-----------------------------------------------------------------------------
(* Logging in.                                                             *)

\* 'auth-start' up to findSender().
AuthStart(s, n, k) ==
    /\ Connected(s)
    /\ username[s] = Nobody
    /\ begun < MaxLogins
    /\ begun' = begun + 1
    /\ logins' = logins \cup
           {[at |-> "finding", socket |-> s, name |-> n, key |-> k, history |-> {}]}
    /\ UNCHANGED <<clientVars, username, pendingAuth, hits, brokenOff, presenceVars,
                   senders, post>>

\* A login goes on to its next await, or ends.
LoginGoesOn(l, at) == logins' = (logins \ {l}) \cup {[l EXCEPT !.at = at]}
LoginEnds(l) == logins' = logins \ {l}

\* The name has no key yet or this one: the client is sent a challenge.
Challenge(l) ==
    /\ l.at = "finding"
    /\ senders[l.name] \in {NoKey, l.key}
    /\ pendingAuth' = [pendingAuth EXCEPT ![l.socket] = [name |-> l.name, key |-> l.key]]
    /\ LoginEnds(l)
    /\ UNCHANGED <<clientVars, username, hits, begun, brokenOff, presenceVars,
                   senders, post>>

\* Another key, a failed query, a wrong signature: no harm done.
TurnedAway(l) ==
    /\ l.at \in {"finding", "verifying"}
    /\ LoginEnds(l)
    /\ UNCHANGED <<clientVars, username, pendingAuth, hits, begun, brokenOff,
                   presenceVars,
                   senders, post>>

\* Deviation: an answer nobody asked for is taken for one.
PendingAssumed(s) == TRUE

\* The socket has been sent a challenge that it has not answered yet.
Pending(s) == pendingAuth[s] # NoChallenge

\* 'auth-response' up to verifyBytes(): one challenge, one attempt.
AuthResponse(s) ==
    /\ Connected(s)
    /\ username[s] = Nobody
    /\ Pending(s)
    /\ pendingAuth' = [pendingAuth EXCEPT ![s] = NoChallenge]
    /\ logins' = logins \cup
           {[at |-> "verifying", socket |-> s, name |-> pendingAuth[s].name,
             key |-> pendingAuth[s].key, history |-> {}]}
    /\ UNCHANGED <<clientVars, username, hits, begun, brokenOff, presenceVars,
                   senders, post>>

\* A challenge that has expired, or an answer without a signature.
AuthExpires(s) ==
    /\ Connected(s)
    /\ username[s] = Nobody
    /\ Pending(s)
    /\ pendingAuth' = [pendingAuth EXCEPT ![s] = NoChallenge]
    /\ UNCHANGED <<clientVars, username, hits, begun, logins, brokenOff,
                   presenceVars,
                   senders, post>>

Proved(l) == l.at = "verifying" /\ l.key = identity[l.socket]

\* Deviation: whether the name is free is not asked again after the proof.
TakenUnasked(n) == FALSE

\* isUsernameTaken()
Taken(n) == n \in Online

\* hasRecentDisconnect(), for a name that is taken.
Reclaimable(n) == n \in recent

\* The holder that reclaimUsername() takes the name from.
Holder(s, n) == Taken(n) /\ online[s] = n

\* Deviation: presence.add() leaves the mark of an earlier disconnect.
RecentKept(n) == recent

\* What presence.add() and reclaimUsername() leave of the marks.
RecentAfterAdd(n) == recent \ {n}

\* From the proof to registerSender(), without an await: the name is taken
\* from a recent holder or free, and now it is this socket's.
Claim(l) ==
    /\ Proved(l)
    /\ Taken(l.name) => Reclaimable(l.name)
    /\ online' = [s \in Sockets |->
                     IF s = l.socket THEN l.name
                     ELSE IF Holder(s, l.name) THEN Nobody ELSE online[s]]
    /\ recent' = RecentAfterAdd(l.name)
    /\ username' = [username EXCEPT ![l.socket] = l.name]
    /\ LoginGoesOn(l, "registering")
    /\ UNCHANGED <<clientVars, pendingAuth, hits, begun, brokenOff, emitted,
                   senders, post>>

\* "It may be open in another tab."
AlreadyTaken(l) ==
    /\ Proved(l)
    /\ Taken(l.name) /\ ~Reclaimable(l.name)
    /\ LoginEnds(l)
    /\ UNCHANGED <<clientVars, username, pendingAuth, hits, begun, brokenOff,
                   presenceVars,
                   senders, post>>

\* The upsert keeps the first key; then 'join-success'.
Register(l) ==
    /\ l.at = "registering"
    /\ senders' = [senders EXCEPT ![l.name] = IF @ = NoKey THEN l.key ELSE @]
    /\ LoginGoesOn(l, "reading")
    /\ UNCHANGED <<clientVars, username, pendingAuth, hits, begun, brokenOff,
                   presenceVars, post>>

\* registerSender() rejects: the client hears 'server-error', the name stays.
RegisterFails(l) ==
    /\ l.at = "registering"
    /\ brokenOff' = brokenOff \cup {l.socket}
    /\ LoginEnds(l)
    /\ UNCHANGED <<clientVars, username, pendingAuth, hits, begun, presenceVars,
                   senders, post>>

\* The query of getHistory().
HistoryReads(l) ==
    /\ l.at = "reading"
    /\ logins' = (logins \ {l}) \cup {[l EXCEPT !.at = "decoding", !.history = Stored]}
    /\ UNCHANGED <<clientVars, username, pendingAuth, hits, begun, brokenOff,
                   presenceVars,
                   senders, post>>

\* Deviation: the list that goes with a join is the one from before it.
EmittedEarlier == emitted

\* presence.list(), read as it is emitted.
EmittedNow == Online

\* 'chat-history', then io.emit('online-users', presence.list()).
Welcome(l) ==
    /\ l.at = "decoding"
    /\ IF Connected(l.socket)
       THEN /\ received' = [received EXCEPT ![l.socket] = @ \cup l.history]
            /\ welcomed' = welcomed \cup {l.socket}
       ELSE UNCHANGED <<received, welcomed>>
    /\ emitted' = EmittedNow
    /\ LoginEnds(l)
    /\ UNCHANGED <<connection, identity, username, pendingAuth, hits, begun,
                   brokenOff,
                   online, recent, senders, post>>

\* The history cannot be read: the list is emitted all the same.
WelcomeWithout(l) ==
    /\ l.at \in {"reading", "decoding"}
    /\ emitted' = EmittedNow
    /\ LoginEnds(l)
    /\ UNCHANGED <<clientVars, username, pendingAuth, hits, begun, brokenOff,
                   online, recent, senders, post>>

-----------------------------------------------------------------------------
(* Messages.                                                               *)

\* 'chat-message' up to verifySignature().
SendMessage(s, m) ==
    /\ Connected(s)
    /\ username[s] # Nobody
    /\ hits[s] < MaxEvents
    /\ hits' = [hits EXCEPT ![s] = @ + 1]
    /\ post[m] = "unsent"
    /\ post' = [post EXCEPT ![m] = "verifying"]
    /\ UNCHANGED <<clientVars, username, pendingAuth, logins, begun, brokenOff,
                   presenceVars,
                   senders>>

\* Three seconds after it was counted a message leaves the window.
WindowMoves(s) ==
    /\ hits[s] > 0
    /\ hits' = [hits EXCEPT ![s] = @ - 1]
    /\ UNCHANGED <<clientVars, username, pendingAuth, logins, begun, brokenOff,
                   presenceVars,
                   senders, post>>

PostMoves(m, from, to) ==
    /\ post[m] = from
    /\ post' = [post EXCEPT ![m] = to]
    /\ UNCHANGED <<connection, identity, welcomed, socketVars, presenceVars,
                   senders>>

Verified(m) == PostMoves(m, "verifying", "saving") /\ UNCHANGED received

\* The signature is wrong, or the insert fails and stores nothing.
Refused(m) ==
    /\ PostMoves(m, "verifying", "refused") \/ PostMoves(m, "saving", "refused")
    /\ UNCHANGED received

\* The insert, at the database.
Save(m) == PostMoves(m, "saving", "stored") /\ UNCHANGED received

\* Deviation: only those who have joined are sent a message.
AudienceJoined == {s \in Sockets : Connected(s) /\ s \in welcomed}

\* io.emit(): everybody connected, logged in or not.
Audience == {s \in Sockets : Connected(s)}

\* saveMessage() returns, then the adapter's insert: the message goes out to
\* those who are connected by then.
Broadcast(m) ==
    /\ PostMoves(m, "stored", "sent")
    /\ received' = [s \in Sockets |->
                       IF s \in Audience THEN received[s] \cup {m} ELSE received[s]]

\* The answer to the insert is lost, or the adapter's own insert fails: nothing
\* goes out.
AnswerLost(m) == PostMoves(m, "stored", "lost") /\ UNCHANGED received

-----------------------------------------------------------------------------
LoginStep(l) ==
    \/ Challenge(l) \/ TurnedAway(l)
    \/ Claim(l) \/ AlreadyTaken(l)
    \/ Register(l) \/ RegisterFails(l)
    \/ HistoryReads(l) \/ Welcome(l) \/ WelcomeWithout(l)

SocketStep(s) ==
    \/ Connect(s) \/ Disconnect(s)
    \/ \E n \in Names, k \in Keys : AuthStart(s, n, k)
    \/ AuthResponse(s) \/ AuthExpires(s)
    \/ \E m \in Messages : SendMessage(s, m)
    \/ WindowMoves(s)

MessageStep(m) == Verified(m) \/ Refused(m) \/ Save(m) \/ Broadcast(m) \/ AnswerLost(m)

Next ==
    \/ \E s \in Sockets : SocketStep(s)
    \/ \E l \in logins : LoginStep(l)
    \/ \E m \in Messages : MessageStep(m)
    \/ \E n \in Names : Forget(n)

Spec == Init /\ [][Next]_vars

-----------------------------------------------------------------------------
(* Properties.                                                             *)

\* "Usernames are unique per server": no two sockets hold one name, however
\* many logins for it await their proofs at the same time.
OneSocketPerName ==
    \A s, t \in Sockets : online[s] = online[t] /\ online[s] # Nobody => s = t

\* Nobody is pushed out of the list while still connected: a socket that may
\* send messages is online, under the very name it sends them with.
LoggedInIsOnline ==
    \A s \in Sockets : Connected(s) => online[s] = username[s]

LoginUnderWay(s) ==
    \E l \in logins : l.socket = s /\ l.at \in {"registering", "reading", "decoding"}

\* Everything that changes who is online ends by emitting it: the list emitted
\* last is right, whichever handlers were suspended meanwhile, unless a login
\* that has claimed its name is still under way or was broken off.  This is
\* about what is emitted: the adapter may still drop it or be overtaken.
EmittedWhenQuiet ==
    \/ emitted = Online
    \/ \E s \in Sockets : LoginUnderWay(s) \/ s \in brokenOff

\* A newcomer misses nothing: the messages that were saved while it logged in
\* are in the history it was sent, or it has been sent them one by one.
NewcomerMissesNothing ==
    \A s \in welcomed : Connected(s) => Sent \subseteq received[s]

\* "Keeps track of who is online right now": a name is held only by a socket
\* that is connected.
OnlineIsConnected ==
    \A s \in Sockets : online[s] # Nobody => Connected(s)

\* A socket ceases to hold its name only by disconnecting, or by claiming
\* another one for itself: nobody takes a name from its holder.
NobodyIsPushedOut ==
    [][ \A s \in Sockets : online[s] # Nobody /\ online'[s] # online[s]
          => \/ Connected(s) /\ connection'[s] = "gone"
             \/ online'[s] \in Names /\ online'[s] = username'[s] ]_vars

NameLock(n) == INSTANCE Lock WITH
    Owners <- Sockets,
    holders <- {s \in Sockets : online[s] = n}

\* "Usernames are unique per server", as a lock for each of them: a name that
\* is online is given back before another socket gets it.
NamesAreLocks == \A n \in Names : NameLock(n)!Spec
=============================================================================
