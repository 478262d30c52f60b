----------------------------- MODULE ChatProofs -----------------------------
(***************************************************************************)
(* Proofs about Chat for any sockets, names, keys and messages.            *)
(***************************************************************************)
EXTENDS Chat, TLAPS

\* A socket that has not gone is online under its own name.
NamesMatch == \A s \in Sockets : connection[s] # "gone" => online[s] = username[s]

\* No name that is online has the mark of a recent disconnect: presence.add()
\* takes the mark away.
MarksAreFree == \A s \in Sockets : online[s] \notin recent

PresenceInv == OneSocketPerName /\ NamesMatch /\ MarksAreFree

\* Only a socket that has connected logs in or is welcomed.
LoginsAreConnected ==
    /\ \A l \in logins : connection[l.socket] # "new"
    /\ \A s \in welcomed : connection[s] # "new"

\* What a newcomer has not been sent one by one is in the history it awaits.
HistoryCovers ==
    \A l \in logins :
        l.at = "decoding" /\ Connected(l.socket) => Sent \subseteq received[l.socket] \cup l.history

HistoryInv == LoginsAreConnected /\ HistoryCovers /\ NewcomerMissesNothing

IInv == TypeOK /\ PresenceInv /\ EmittedWhenQuiet /\ HistoryInv

-----------------------------------------------------------------------------
(* Types.                                                                  *)

LEMMA LoginTypes ==
    ASSUME TypeOK, NEW l \in logins
    PROVE  /\ l \in Logins
           /\ l.socket \in Sockets /\ l.name \in Names /\ l.key \in Keys
           /\ l.history \in SUBSET Messages
           /\ l.name # Nobody
BY ChatAssumption DEF TypeOK, Logins

LEMMA LoginGoesOnTypes ==
    ASSUME TypeOK, NEW l \in logins, NEW at, LoginGoesOn(l, at),
           at \in {"finding", "verifying", "registering", "reading", "decoding"}
    PROVE  logins' \in SUBSET Logins
<1>1. [l EXCEPT !.at = at] \in Logins
  BY LoginTypes DEF Logins
<1> QED BY <1>1 DEF LoginGoesOn, TypeOK

LEMMA LoginStepTypes ==
    ASSUME TypeOK, NEW l \in logins, LoginStep(l)
    PROVE  TypeOK'
<1> USE LoginTypes DEF clientVars, presenceVars
<1>1. CASE Challenge(l)
  BY <1>1 DEF Challenge, LoginEnds, TypeOK, Challenges
<1>2. CASE TurnedAway(l)
  BY <1>2 DEF TurnedAway, LoginEnds, TypeOK
<1>3. CASE Claim(l)
  <2>1. logins' \in SUBSET Logins
    BY <1>3, LoginGoesOnTypes DEF Claim
  <2>2. online' \in [Sockets -> Names \cup {Nobody}] /\ recent' \in SUBSET Names
    BY <1>3 DEF Claim, RecentAfterAdd, TypeOK
  <2> QED BY <1>3, <2>1, <2>2 DEF Claim, TypeOK
<1>4. CASE AlreadyTaken(l)
  BY <1>4 DEF AlreadyTaken, LoginEnds, TypeOK
<1>5. CASE Register(l)
  <2>1. logins' \in SUBSET Logins
    BY <1>5, LoginGoesOnTypes DEF Register
  <2> QED BY <1>5, <2>1 DEF Register, TypeOK
<1>6. CASE RegisterFails(l)
  BY <1>6 DEF RegisterFails, LoginEnds, TypeOK
<1>7. CASE HistoryReads(l)
  <2>1. Stored \in SUBSET Messages
    BY DEF Stored
  <2>2. [l EXCEPT !.at = "decoding", !.history = Stored] \in Logins
    BY <2>1 DEF Logins
  <2> QED BY <1>7, <2>2 DEF HistoryReads, TypeOK
<1>8. CASE Welcome(l)
  <2>1. Online \in SUBSET Names
    BY DEF TypeOK, Online
  <2> QED BY <1>8, <2>1 DEF Welcome, EmittedNow, LoginEnds, TypeOK
<1>9. CASE WelcomeWithout(l)
  <2>1. Online \in SUBSET Names
    BY DEF TypeOK, Online
  <2> QED BY <1>9, <2>1 DEF WelcomeWithout, EmittedNow, LoginEnds, TypeOK
<1> QED BY <1>1, <1>2, <1>3, <1>4, <1>5, <1>6, <1>7, <1>8, <1>9 DEF LoginStep

LEMMA SocketStepTypes ==
    ASSUME TypeOK, NEW s \in Sockets, SocketStep(s)
    PROVE  TypeOK'
<1> USE ChatAssumption DEF socketVars, clientVars, presenceVars
<1>1. CASE Connect(s)
  BY <1>1 DEF Connect, TypeOK
<1>2. CASE Disconnect(s)
  <2>1. online' \in [Sockets -> Names \cup {Nobody}]
    BY <1>2 DEF Disconnect, TypeOK
  <2>2. Online' \in SUBSET Names
    BY <2>1 DEF Online
  <2>3. recent' \in SUBSET Names /\ emitted' \in SUBSET Names
    BY <1>2, <2>2 DEF Disconnect, TypeOK
  <2>4. hits' \in [Sockets -> 0..MaxEvents]
    BY <1>2 DEF Disconnect, TypeOK
  <2> QED BY <1>2, <2>1, <2>3, <2>4 DEF Disconnect, TypeOK
<1>3. ASSUME NEW n \in Names, NEW k \in Keys, AuthStart(s, n, k) PROVE TypeOK'
  <2>1. [at |-> "finding", socket |-> s, name |-> n, key |-> k, history |-> {}] \in Logins
    BY DEF Logins
  <2>2. begun' \in 0..MaxLogins
    BY <1>3 DEF AuthStart, TypeOK
  <2> QED BY <1>3, <2>1, <2>2 DEF AuthStart, TypeOK
<1>4. CASE AuthResponse(s)
  <2>1. pendingAuth[s] \in Challenges
    BY <1>4 DEF AuthResponse, Pending, TypeOK
  <2>2. [at |-> "verifying", socket |-> s, name |-> pendingAuth[s].name,
         key |-> pendingAuth[s].key, history |-> {}] \in Logins
    BY <2>1 DEF Logins, Challenges
  <2> QED BY <1>4, <2>2 DEF AuthResponse, TypeOK
<1>5. CASE AuthExpires(s)
  BY <1>5 DEF AuthExpires, TypeOK
<1>6. ASSUME NEW m \in Messages, SendMessage(s, m) PROVE TypeOK'
  <2>1. hits' \in [Sockets -> 0..MaxEvents]
    BY <1>6 DEF SendMessage, TypeOK
  <2> QED BY <1>6, <2>1 DEF SendMessage, TypeOK, PostStates
<1>7. CASE WindowMoves(s)
  <2>1. hits' \in [Sockets -> 0..MaxEvents]
    BY <1>7 DEF WindowMoves, TypeOK
  <2> QED BY <1>7, <2>1 DEF WindowMoves, TypeOK
<1> QED BY <1>1, <1>2, <1>3, <1>4, <1>5, <1>6, <1>7 DEF SocketStep

LEMMA MessageStepTypes ==
    ASSUME TypeOK, NEW m \in Messages, MessageStep(m)
    PROVE  TypeOK'
<1> USE DEF socketVars, clientVars, presenceVars, PostMoves
<1>1. CASE Verified(m)
  BY <1>1 DEF Verified, TypeOK, PostStates
<1>2. CASE Refused(m)
  BY <1>2 DEF Refused, TypeOK, PostStates
<1>3. CASE Save(m)
  BY <1>3 DEF Save, TypeOK, PostStates
<1>4. CASE Broadcast(m)
  <2>1. received' \in [Sockets -> SUBSET Messages]
    BY <1>4 DEF Broadcast, TypeOK
  <2> QED BY <1>4, <2>1 DEF Broadcast, TypeOK, PostStates
<1>5. CASE AnswerLost(m)
  BY <1>5 DEF AnswerLost, TypeOK, PostStates
<1> QED BY <1>1, <1>2, <1>3, <1>4, <1>5 DEF MessageStep

LEMMA StepTypes == TypeOK /\ [Next]_vars => TypeOK'
<1> SUFFICES ASSUME TypeOK, [Next]_vars PROVE TypeOK'
  OBVIOUS
<1>1. ASSUME NEW n \in Names, Forget(n) PROVE TypeOK'
  BY <1>1 DEF Forget, clientVars, socketVars, TypeOK
<1>2. CASE UNCHANGED vars
  BY <1>2 DEF vars, clientVars, socketVars, presenceVars, TypeOK
<1> QED BY <1>1, <1>2, SocketStepTypes, LoginStepTypes, MessageStepTypes DEF Next

-----------------------------------------------------------------------------
(* Presence.                                                               *)

LEMMA StepPresence == TypeOK /\ PresenceInv /\ [Next]_vars => PresenceInv'
<1> SUFFICES ASSUME TypeOK, PresenceInv, [Next]_vars PROVE PresenceInv'
  OBVIOUS
<1> USE DEF PresenceInv, OneSocketPerName, NamesMatch, MarksAreFree
<1> USE DEF vars, clientVars, socketVars, presenceVars, TypeOK
<1>1. ASSUME UNCHANGED <<connection, username, online, recent>> PROVE PresenceInv'
  BY <1>1
<1>2. ASSUME NEW s \in Sockets, Connect(s) PROVE PresenceInv'
  BY <1>2 DEF Connect
<1>3. ASSUME NEW s \in Sockets, Disconnect(s) PROVE PresenceInv'
  <2>1. /\ connection' = [connection EXCEPT ![s] = "gone"]
        /\ online' = [online EXCEPT ![s] = Nobody]
        /\ recent' = IF online[s] # Nobody THEN recent \cup {online[s]} ELSE recent
        /\ UNCHANGED username
    BY <1>3 DEF Disconnect
  <2>2. Nobody \notin recent
    BY ChatAssumption
  <2> QED BY <2>1, <2>2
<1>4. ASSUME NEW n \in Names, Forget(n) PROVE PresenceInv'
  BY <1>4 DEF Forget
<1>5. ASSUME NEW l \in logins, Claim(l) PROVE PresenceInv'
  <2>1. l.socket \in Sockets /\ l.name \in Names /\ l.name # Nobody
    BY LoginTypes
  <2>2. ~Taken(l.name)
    BY <1>5, <2>1 DEF Claim, Taken, Online, Reclaimable
  <2>3. \A s \in Sockets : online[s] # l.name
    BY <2>1, <2>2 DEF Taken, Online
  <2>4. /\ online' = [online EXCEPT ![l.socket] = l.name]
        /\ recent' = recent \ {l.name}
        /\ username' = [username EXCEPT ![l.socket] = l.name]
        /\ UNCHANGED connection
    BY <1>5, <2>1, <2>2 DEF Claim, Holder, RecentAfterAdd
  <2> QED BY <2>1, <2>3, <2>4
<1>6. ASSUME NEW l \in logins, LoginStep(l), ~Claim(l) PROVE PresenceInv'
  <2>1. UNCHANGED <<connection, username, online, recent>>
    BY <1>6 DEF LoginStep, Challenge, TurnedAway, AlreadyTaken, Register, RegisterFails,
                HistoryReads, Welcome, WelcomeWithout
  <2> QED BY <1>1, <2>1
<1>7. ASSUME NEW s \in Sockets, SocketStep(s), ~Connect(s), ~Disconnect(s)
      PROVE  PresenceInv'
  <2>1. UNCHANGED <<connection, username, online, recent>>
    BY <1>7 DEF SocketStep, AuthStart, AuthResponse, AuthExpires, SendMessage, WindowMoves
  <2> QED BY <1>1, <2>1
<1>8. ASSUME NEW m \in Messages, MessageStep(m) PROVE PresenceInv'
  <2>1. UNCHANGED <<connection, username, online, recent>>
    BY <1>8 DEF MessageStep, Verified, Refused, Save, Broadcast, AnswerLost, PostMoves
  <2> QED BY <1>1, <2>1
<1> QED BY <1>1, <1>2, <1>3, <1>4, <1>5, <1>6, <1>7, <1>8 DEF Next

\* A login that goes on is under way if it was, and so is every other one.
LEMMA LoginGoesOnUnderWay ==
    ASSUME TypeOK, NEW l \in logins, NEW at, LoginGoesOn(l, at),
           at \in {"registering", "reading", "decoding"}
    PROVE  LoginUnderWay(l.socket)'
<1>1. [l EXCEPT !.at = at] \in logins'
  BY DEF LoginGoesOn
<1>2. [l EXCEPT !.at = at].socket = l.socket /\ [l EXCEPT !.at = at].at = at
  BY LoginTypes DEF Logins
<1> QED BY <1>1, <1>2 DEF LoginUnderWay

LEMMA StepEmitted == TypeOK /\ EmittedWhenQuiet /\ [Next]_vars => EmittedWhenQuiet'
<1> SUFFICES ASSUME TypeOK, EmittedWhenQuiet, [Next]_vars PROVE EmittedWhenQuiet'
  OBVIOUS
<1> USE DEF vars, clientVars, socketVars, presenceVars
<1>1. ASSUME UNCHANGED <<online, emitted>>, brokenOff \subseteq brokenOff',
             \A s \in Sockets : LoginUnderWay(s) => LoginUnderWay(s)'
      PROVE  EmittedWhenQuiet'
  BY <1>1 DEF EmittedWhenQuiet, Online
<1>2. ASSUME logins \subseteq logins'
      PROVE  \A s \in Sockets : LoginUnderWay(s) => LoginUnderWay(s)'
  BY <1>2 DEF LoginUnderWay
<1>3. ASSUME NEW l \in logins, LoginEnds(l), l.at \in {"finding", "verifying"}
      PROVE  \A s \in Sockets : LoginUnderWay(s) => LoginUnderWay(s)'
  BY <1>3 DEF LoginUnderWay, LoginEnds
<1>4. ASSUME NEW s \in Sockets, SocketStep(s), ~Disconnect(s) PROVE EmittedWhenQuiet'
  <2>1. UNCHANGED <<online, emitted, brokenOff>> /\ logins \subseteq logins'
    BY <1>4 DEF SocketStep, Connect, AuthStart, AuthResponse, AuthExpires, SendMessage,
                WindowMoves
  <2> QED BY <1>1, <1>2, <2>1
<1>5. ASSUME NEW s \in Sockets, Disconnect(s) PROVE EmittedWhenQuiet'
  <2>1. UNCHANGED <<logins, brokenOff>>
    BY <1>5 DEF Disconnect
  <2>2. CASE online[s] # Nobody
    BY <1>5, <2>2 DEF Disconnect, EmittedWhenQuiet
  <2>3. CASE online[s] = Nobody
    <3>1. UNCHANGED <<online, emitted>>
      BY <1>5, <2>3 DEF Disconnect, TypeOK
    <3> QED BY <1>1, <1>2, <2>1, <3>1
  <2> QED BY <2>2, <2>3
<1>6. ASSUME NEW l \in logins, Challenge(l) \/ TurnedAway(l) \/ AlreadyTaken(l)
      PROVE  EmittedWhenQuiet'
  <2>1. UNCHANGED <<online, emitted, brokenOff>>
    BY <1>6 DEF Challenge, TurnedAway, AlreadyTaken
  <2>2. LoginEnds(l) /\ l.at \in {"finding", "verifying"}
    BY <1>6 DEF Challenge, TurnedAway, AlreadyTaken, Proved
  <2> QED BY <1>1, <1>3, <2>1, <2>2
<1>7. ASSUME NEW l \in logins, Claim(l) \/ Register(l) \/ HistoryReads(l)
      PROVE  EmittedWhenQuiet'
  <2>1. LoginUnderWay(l.socket)'
    <3>1. CASE Claim(l)
      BY <3>1, LoginGoesOnUnderWay DEF Claim
    <3>2. CASE Register(l)
      BY <3>2, LoginGoesOnUnderWay DEF Register
    <3>3. CASE HistoryReads(l)
      <4> DEFINE read == [l EXCEPT !.at = "decoding", !.history = Stored]
      <4>1. read \in logins' /\ read.socket = l.socket /\ read.at = "decoding"
        BY <3>3, LoginTypes DEF HistoryReads, Logins
      <4> QED BY <4>1 DEF LoginUnderWay
    <3> QED BY <1>7, <3>1, <3>2, <3>3
  <2> QED BY <2>1, LoginTypes DEF EmittedWhenQuiet
<1>8. ASSUME NEW l \in logins, RegisterFails(l) PROVE EmittedWhenQuiet'
  BY <1>8, LoginTypes DEF RegisterFails, EmittedWhenQuiet
<1>9. ASSUME NEW l \in logins, Welcome(l) \/ WelcomeWithout(l) PROVE EmittedWhenQuiet'
  BY <1>9 DEF Welcome, WelcomeWithout, EmittedNow, EmittedWhenQuiet, Online
<1>10. ASSUME NEW m \in Messages, MessageStep(m) PROVE EmittedWhenQuiet'
  <2>1. UNCHANGED <<online, emitted, brokenOff, logins>>
    BY <1>10 DEF MessageStep, Verified, Refused, Save, Broadcast, AnswerLost, PostMoves
  <2> QED BY <1>1, <1>2, <2>1
<1>11. ASSUME NEW n \in Names, Forget(n) PROVE EmittedWhenQuiet'
  <2>1. UNCHANGED <<online, emitted, brokenOff, logins>>
    BY <1>11 DEF Forget
  <2> QED BY <1>1, <1>2, <2>1
<1>12. CASE UNCHANGED vars
  <2>1. UNCHANGED <<online, emitted, brokenOff, logins>>
    BY <1>12
  <2> QED BY <1>1, <1>2, <2>1
<1> QED BY <1>4, <1>5, <1>6, <1>7, <1>8, <1>9, <1>10, <1>11, <1>12 DEF Next, LoginStep

-----------------------------------------------------------------------------
(* The history of a newcomer.                                              *)

LEMMA StepHistory == TypeOK /\ HistoryInv /\ [Next]_vars => HistoryInv'
<1> SUFFICES ASSUME TypeOK, HistoryInv, [Next]_vars PROVE HistoryInv'
  OBVIOUS
<1> USE DEF vars, clientVars, socketVars, presenceVars
<1> USE DEF HistoryInv, LoginsAreConnected, HistoryCovers, NewcomerMissesNothing, Connected
\* Nothing to do with messages, and no login begins to decode a history.
<1>1. ASSUME UNCHANGED <<received, welcomed, post>>,
             \A s \in Sockets : /\ connection'[s] = "new" => connection[s] = "new"
                                /\ connection'[s] = "connected" => connection[s] # "gone",
             \A l \in logins' : /\ l.socket \in Sockets /\ connection'[l.socket] # "new"
                                /\ l.at = "decoding" => l \in logins
      PROVE  HistoryInv'
  <2>1. Sent' = Sent
    BY <1>1 DEF Sent
  <2>2. welcomed \subseteq Sockets /\ connection \in [Sockets -> {"new", "connected", "gone"}]
    BY DEF TypeOK
  <2> QED BY <1>1, <2>1, <2>2
<1>2. \A l \in logins : l.socket \in Sockets
  BY LoginTypes
<1>3. ASSUME NEW s \in Sockets, Connect(s) \/ Disconnect(s) PROVE HistoryInv'
  <2>1. UNCHANGED <<received, welcomed, post, logins>>
    BY <1>3 DEF Connect, Disconnect
  <2>2. \A t \in Sockets : /\ connection'[t] = "new" => connection[t] = "new"
                           /\ connection'[t] = "connected" => connection[t] # "gone"
    BY <1>3 DEF Connect, Disconnect, TypeOK
  <2> QED BY <1>1, <1>2, <2>1, <2>2
<1>4. ASSUME NEW s \in Sockets,
             (\E n \in Names, k \in Keys : AuthStart(s, n, k)) \/ AuthResponse(s)
      PROVE  HistoryInv'
  <2>1. UNCHANGED <<connection, received, welcomed, post>> /\ connection[s] = "connected"
    BY <1>4 DEF AuthStart, AuthResponse
  <2>2. \A l \in logins' : l \in logins \/ (l.socket = s /\ l.at # "decoding")
    BY <1>4 DEF AuthStart, AuthResponse
  <2> QED BY <1>1, <1>2, <2>1, <2>2
<1>5. ASSUME UNCHANGED <<connection, received, welcomed, post>>, logins' \subseteq logins
      PROVE  HistoryInv'
  BY <1>1, <1>2, <1>5
<1>6. ASSUME NEW l \in logins, NEW at, LoginGoesOn(l, at), at # "decoding",
             UNCHANGED <<connection, received, welcomed, post>>
      PROVE  HistoryInv'
  <2>1. [l EXCEPT !.at = at].socket = l.socket /\ [l EXCEPT !.at = at].at = at
    BY LoginTypes DEF Logins
  <2>2. \A x \in logins' : x \in logins \/ (x.socket = l.socket /\ x.at # "decoding")
    BY <1>6, <2>1 DEF LoginGoesOn
  <2> QED BY <1>1, <1>2, <1>6, <2>2
<1>7. ASSUME NEW s \in Sockets, SocketStep(s) PROVE HistoryInv'
  <2>1. CASE AuthExpires(s) \/ WindowMoves(s)
    BY <1>5, <2>1 DEF AuthExpires, WindowMoves
  <2>2. ASSUME NEW m \in Messages, SendMessage(s, m) PROVE HistoryInv'
    <3>1. Sent' = Sent
      BY <2>2 DEF SendMessage, Sent, TypeOK
    <3> QED BY <2>2, <3>1 DEF SendMessage
  <2> QED BY <1>3, <1>4, <1>7, <2>1, <2>2 DEF SocketStep
<1>8. ASSUME NEW l \in logins, HistoryReads(l) PROVE HistoryInv'
  <2> DEFINE read == [l EXCEPT !.at = "decoding", !.history = Stored]
  <2>1. read.socket = l.socket /\ read.history = Stored
    BY LoginTypes DEF Logins
  <2>2. Sent \subseteq Stored /\ Sent' = Sent
    BY <1>8 DEF HistoryReads, Sent, Stored
  <2>3. \A x \in logins' : x \in logins \/ x = read
    BY <1>8 DEF HistoryReads
  <2> HIDE DEF read
  <2> QED BY <1>8, <2>1, <2>2, <2>3 DEF HistoryReads
<1>9. ASSUME NEW l \in logins, Welcome(l) PROVE HistoryInv'
  <2>1. Sent' = Sent /\ logins' \subseteq logins /\ UNCHANGED connection
    BY <1>9 DEF Welcome, LoginEnds, Sent
  <2>2. CASE connection[l.socket] = "connected"
    <3>1. /\ received' = [received EXCEPT ![l.socket] = @ \cup l.history]
          /\ welcomed' = welcomed \cup {l.socket}
          /\ l.at = "decoding"
      BY <1>9, <2>2 DEF Welcome
    <3>2. \A s \in Sockets : received[s] \subseteq received'[s]
      BY <3>1 DEF TypeOK
    <3>3. received'[l.socket] = received[l.socket] \cup l.history
      BY <1>2, <3>1 DEF TypeOK
    <3> QED BY <1>2, <2>1, <2>2, <3>1, <3>2, <3>3 DEF TypeOK
  <2>3. CASE connection[l.socket] # "connected"
    BY <1>9, <1>5, <2>1, <2>3 DEF Welcome
  <2> QED BY <2>2, <2>3
<1>10. ASSUME NEW l \in logins, LoginStep(l) PROVE HistoryInv'
  <2>1. CASE Challenge(l) \/ TurnedAway(l) \/ AlreadyTaken(l) \/ RegisterFails(l)
              \/ WelcomeWithout(l)
    BY <1>5, <2>1 DEF Challenge, TurnedAway, AlreadyTaken, RegisterFails, WelcomeWithout,
                      LoginEnds
  <2>2. CASE Claim(l) \/ Register(l)
    BY <1>6, <2>2 DEF Claim, Register
  <2> QED BY <1>8, <1>9, <1>10, <2>1, <2>2 DEF LoginStep
<1>11. ASSUME NEW m \in Messages, Broadcast(m) PROVE HistoryInv'
  <2>1. Sent' \subseteq Sent \cup {m}
    BY <1>11 DEF Broadcast, PostMoves, Sent, TypeOK
  <2>2. \A s \in Sockets : /\ received[s] \subseteq received'[s]
                           /\ connection[s] = "connected" => m \in received'[s]
    BY <1>11 DEF Broadcast, Audience, TypeOK
  <2>3. UNCHANGED <<connection, welcomed, logins>>
    BY <1>11 DEF Broadcast, PostMoves
  <2> QED BY <1>2, <2>1, <2>2, <2>3 DEF TypeOK
<1>12. ASSUME NEW m \in Messages, MessageStep(m), ~Broadcast(m) PROVE HistoryInv'
  <2>1. UNCHANGED <<connection, received, welcomed, logins>>
    BY <1>12 DEF MessageStep, Verified, Refused, Save, AnswerLost, PostMoves
  <2>2. \A x \in Messages : post'[x] = "sent" => post[x] = "sent"
    BY <1>12 DEF MessageStep, Verified, Refused, Save, AnswerLost, PostMoves, TypeOK
  <2>3. Sent' \subseteq Sent
    BY <2>2 DEF Sent
  <2> QED BY <2>1, <2>3
<1>13. ASSUME NEW n \in Names, Forget(n) PROVE HistoryInv'
  BY <1>5, <1>13 DEF Forget
<1>14. CASE UNCHANGED vars
  BY <1>5, <1>14
<1> QED BY <1>7, <1>10, <1>11, <1>12, <1>13, <1>14 DEF Next

-----------------------------------------------------------------------------
LEMMA InitEstablishes == Init => IInv
<1> SUFFICES ASSUME Init PROVE IInv
  OBVIOUS
<1> USE DEF Init
<1>1. TypeOK
  BY ChatAssumption DEF TypeOK, PostStates
<1>2. PresenceInv
  BY DEF PresenceInv, OneSocketPerName, NamesMatch, MarksAreFree
<1>3. EmittedWhenQuiet
  BY DEF EmittedWhenQuiet, Online
<1>4. HistoryInv
  BY DEF HistoryInv, LoginsAreConnected, HistoryCovers, NewcomerMissesNothing
<1> QED BY <1>1, <1>2, <1>3, <1>4 DEF IInv

LEMMA StepKeeps == IInv /\ [Next]_vars => IInv'
BY StepTypes, StepPresence, StepEmitted, StepHistory DEF IInv

THEOREM ChatInvariance == Spec => []IInv
BY InitEstablishes, StepKeeps, PTL DEF Spec

\* The chat keeps its type.
THEOREM ChatType == Spec => []TypeOK
BY ChatInvariance, PTL DEF IInv

\* No two sockets ever hold one name, for any number of sockets and names.
THEOREM NamesAreUnique == Spec => []OneSocketPerName
BY ChatInvariance, PTL DEF IInv, PresenceInv

\* A connected socket that is logged in is online: reclaiming a name never
\* pushes anybody out, because no name that is online has a mark.
THEOREM LoggedInStaysOnline == Spec => []LoggedInIsOnline
<1>1. IInv => LoggedInIsOnline
  BY DEF IInv, PresenceInv, NamesMatch, LoggedInIsOnline, Connected
<1> QED BY <1>1, ChatInvariance, PTL

\* Once no login is under way, and none was broken off, the list of users
\* emitted last (socketHandlers.js) is the list of who is online: no handler
\* changes it without emitting it, and none emits an older one.  Whether the
\* adapter delivers what is emitted, and in which order, is not said.
THEOREM EmissionsSettle == Spec => []EmittedWhenQuiet
BY ChatInvariance, PTL DEF IInv

\* The history and the broadcasts together leave a newcomer no gap.
THEOREM NewcomersAreServed == Spec => []NewcomerMissesNothing
BY ChatInvariance, PTL DEF IInv, HistoryInv

-----------------------------------------------------------------------------
(* Who holds a name.                                                       *)

\* A claim takes a name that nobody holds, whatever the marks say.
LEMMA ClaimTakes ==
    ASSUME IInv, NEW l \in logins, Claim(l)
    PROVE  /\ l.socket \in Sockets /\ l.name \in Names /\ l.name # Nobody
           /\ \A s \in Sockets : online[s] # l.name
           /\ online' = [online EXCEPT ![l.socket] = l.name]
           /\ username' = [username EXCEPT ![l.socket] = l.name]
           /\ UNCHANGED connection
<1>1. l.socket \in Sockets /\ l.name \in Names /\ l.name # Nobody
  BY LoginTypes DEF IInv
<1>2. ~Taken(l.name)
  BY <1>1 DEF Claim, Taken, Online, Reclaimable, IInv, PresenceInv, MarksAreFree
<1>3. \A s \in Sockets : online[s] # l.name
  BY <1>1, <1>2 DEF Taken, Online
<1>4. online \in [Sockets -> Names \cup {Nobody}]
  BY DEF IInv, TypeOK
<1>5. online' = [online EXCEPT ![l.socket] = l.name]
  BY <1>1, <1>2, <1>4 DEF Claim, Holder
<1> QED BY <1>1, <1>3, <1>5 DEF Claim, clientVars

\* The list changes with the disconnect of a socket or a claim, at that socket.
LEMMA OnlineSteps ==
    ASSUME IInv, [Next]_vars
    PROVE  \/ UNCHANGED online
           \/ \E s \in Sockets : /\ Disconnect(s)
                                 /\ online' = [online EXCEPT ![s] = Nobody]
           \/ \E l \in logins : Claim(l)
<1> USE DEF vars, clientVars, socketVars, presenceVars
<1>1. ASSUME NEW s \in Sockets, SocketStep(s), ~Disconnect(s) PROVE UNCHANGED online
  BY <1>1 DEF SocketStep, Connect, AuthStart, AuthResponse, AuthExpires, SendMessage,
              WindowMoves
<1>2. ASSUME NEW s \in Sockets, Disconnect(s)
      PROVE  online' = [online EXCEPT ![s] = Nobody]
  BY <1>2 DEF Disconnect
<1>3. ASSUME NEW l \in logins, LoginStep(l), ~Claim(l) PROVE UNCHANGED online
  BY <1>3 DEF LoginStep, Challenge, TurnedAway, AlreadyTaken, Register, RegisterFails,
              HistoryReads, Welcome, WelcomeWithout
<1>4. ASSUME NEW m \in Messages, MessageStep(m) PROVE UNCHANGED online
  BY <1>4 DEF MessageStep, Verified, Refused, Save, Broadcast, AnswerLost, PostMoves
<1>5. ASSUME NEW n \in Names, Forget(n) PROVE UNCHANGED online
  BY <1>5 DEF Forget
<1>6. CASE UNCHANGED vars
  BY <1>6
<1> QED BY <1>1, <1>2, <1>3, <1>4, <1>5, <1>6 DEF Next

\* Likewise the connections.
LEMMA ConnectionSteps ==
    ASSUME [Next]_vars
    PROVE  \/ UNCHANGED connection
           \/ \E s \in Sockets : connection' = [connection EXCEPT ![s] = "connected"]
           \/ \E s \in Sockets : Disconnect(s)
<1> USE DEF vars, clientVars
<1>1. ASSUME NEW s \in Sockets, SocketStep(s), ~Disconnect(s)
      PROVE  UNCHANGED connection \/ connection' = [connection EXCEPT ![s] = "connected"]
  BY <1>1 DEF SocketStep, Connect, AuthStart, AuthResponse, AuthExpires, SendMessage,
              WindowMoves
<1>2. ASSUME NEW l \in logins, LoginStep(l) PROVE UNCHANGED connection
  <2>1. CASE Claim(l) \/ Register(l) \/ HistoryReads(l) \/ Welcome(l)
    BY <2>1 DEF Claim, Register, HistoryReads, Welcome
  <2>2. CASE ~(Claim(l) \/ Register(l) \/ HistoryReads(l) \/ Welcome(l))
    BY <1>2, <2>2 DEF LoginStep, Challenge, TurnedAway, AlreadyTaken, RegisterFails,
                      WelcomeWithout
  <2> QED BY <2>1, <2>2
<1>3. ASSUME NEW m \in Messages, MessageStep(m) PROVE UNCHANGED connection
  BY <1>3 DEF MessageStep, Verified, Refused, Save, Broadcast, AnswerLost, PostMoves
<1>4. ASSUME NEW n \in Names, Forget(n) PROVE UNCHANGED connection
  BY <1>4 DEF Forget
<1>5. CASE UNCHANGED vars
  BY <1>5
<1> QED BY <1>1, <1>2, <1>3, <1>4, <1>5 DEF Next

\* A connected socket keeps its name, and so does one that has gone.  The
\* second half of the login handler, which takes a name away from a recent
\* holder (socketHandlers.js, presence.js), never does.
THEOREM NamesAreKept == Spec => NobodyIsPushedOut
<1>1. ASSUME IInv, [Next]_vars
      PROVE  \A s \in Sockets : online[s] # Nobody /\ online'[s] # online[s]
               => \/ Connected(s) /\ connection'[s] = "gone"
                  \/ online'[s] \in Names /\ online'[s] = username'[s]
  <2>1. /\ online \in [Sockets -> Names \cup {Nobody}]
        /\ username \in [Sockets -> Names \cup {Nobody}]
        /\ connection \in [Sockets -> {"new", "connected", "gone"}]
    BY <1>1 DEF IInv, TypeOK
  <2>2. CASE UNCHANGED online
    BY <2>2
  <2>3. ASSUME NEW t \in Sockets, Disconnect(t), online' = [online EXCEPT ![t] = Nobody],
               NEW s \in Sockets, online'[s] # online[s]
        PROVE  Connected(s) /\ connection'[s] = "gone"
    <3>1. s = t
      BY <2>1, <2>3
    <3>2. Connected(t) /\ connection' = [connection EXCEPT ![t] = "gone"]
      BY <2>3 DEF Disconnect
    <3> QED BY <2>1, <3>1, <3>2
  <2>4. ASSUME NEW l \in logins, Claim(l), NEW s \in Sockets, online'[s] # online[s]
        PROVE  online'[s] \in Names /\ online'[s] = username'[s]
    <3>1. /\ l.socket \in Sockets /\ l.name \in Names
          /\ online' = [online EXCEPT ![l.socket] = l.name]
          /\ username' = [username EXCEPT ![l.socket] = l.name]
      BY <1>1, <2>4, ClaimTakes
    <3> QED BY <2>1, <2>4, <3>1
  <2> QED BY <1>1, <2>2, <2>3, <2>4, OnlineSteps
<1> QED BY <1>1, ChatInvariance, PTL DEF Spec, NobodyIsPushedOut

HoldersOf(n) == {s \in Sockets : online[s] = n}

LEMMA StepLocks ==
    ASSUME IInv, [Next]_vars, NEW n \in Names
    PROVE  [NameLock(n)!Next]_(HoldersOf(n))
<1>1. online \in [Sockets -> Names \cup {Nobody}] /\ n # Nobody
  BY ChatAssumption DEF IInv, TypeOK
<1>2. \A s, t \in Sockets : online[s] = n /\ online[t] = n => s = t
  BY <1>1 DEF IInv, PresenceInv, OneSocketPerName
<1>3. CASE UNCHANGED online
  BY <1>3 DEF HoldersOf
\* A socket that holds the name gets something else instead.
<1>4. ASSUME NEW s \in Sockets, NEW other, other # n, online' = [online EXCEPT ![s] = other]
      PROVE  HoldersOf(n)' = HoldersOf(n) \/ NameLock(n)!GiveBack
  <2>1. \A t \in Sockets : online'[t] = IF t = s THEN other ELSE online[t]
    BY <1>1, <1>4
  <2>2. CASE online[s] = n
    <3>1. HoldersOf(n) = {s}
      BY <1>2, <2>2 DEF HoldersOf
    <3>2. HoldersOf(n)' = {}
      BY <1>2, <1>4, <2>1, <2>2 DEF HoldersOf
    <3> QED BY <3>1, <3>2 DEF NameLock!GiveBack, HoldersOf
  <2>3. CASE online[s] # n
    BY <1>4, <2>1, <2>3 DEF HoldersOf
  <2> QED BY <2>2, <2>3
<1>5. ASSUME NEW l \in logins, Claim(l), l.name = n PROVE NameLock(n)!Next
  <2>1. /\ l.socket \in Sockets
        /\ \A s \in Sockets : online[s] # n
        /\ online' = [online EXCEPT ![l.socket] = n]
    BY <1>5, ClaimTakes
  <2>2. HoldersOf(n) = {}
    BY <2>1 DEF HoldersOf
  <2>3. HoldersOf(n)' = {l.socket}
    BY <1>1, <2>1 DEF HoldersOf
  <2>4. NameLock(n)!Take(l.socket)
    BY <2>2, <2>3 DEF NameLock!Take, HoldersOf
  <2> QED BY <2>1, <2>4 DEF NameLock!Next
<1>6. ASSUME NEW l \in logins, Claim(l), l.name # n
      PROVE  HoldersOf(n)' = HoldersOf(n) \/ NameLock(n)!GiveBack
  BY <1>4, <1>6, ClaimTakes
<1>7. ASSUME NEW s \in Sockets, online' = [online EXCEPT ![s] = Nobody]
      PROVE  HoldersOf(n)' = HoldersOf(n) \/ NameLock(n)!GiveBack
  BY <1>1, <1>4, <1>7
<1> QED BY <1>3, <1>5, <1>6, <1>7, OnlineSteps DEF NameLock!Next

\* Every name is a lock: at most one socket has it, and it is free for a moment
\* before another gets it, however the logins for it interleave.
THEOREM NamesAreLocked == Spec => NamesAreLocks
<1> SUFFICES ASSUME NEW n \in Names PROVE Spec => NameLock(n)!Spec
  BY DEF NamesAreLocks
<1>1. Init => NameLock(n)!Init
  BY ChatAssumption DEF Init, NameLock!Init
<1>2. IInv /\ [Next]_vars => [NameLock(n)!Next]_({s \in Sockets : online[s] = n})
  BY StepLocks DEF HoldersOf
<1> QED BY <1>1, <1>2, ChatInvariance, PTL DEF Spec, NameLock!Spec

\* The claims of sockets that are still connected.
ClaimsComeInTime == \A l \in logins : Claim(l) => Connected(l.socket)

\* A name is held by a socket that has gone only if one has claimed it after
\* its disconnect, while its proof was being checked (socketHandlers.js): as
\* long as no claim comes so late, everybody in the list is connected.
THEOREM GhostsComeLate == Spec /\ [][ClaimsComeInTime]_vars => []OnlineIsConnected
<1>1. Init => OnlineIsConnected
  BY DEF Init, OnlineIsConnected
<1>2. ASSUME IInv, OnlineIsConnected, [Next]_vars, [ClaimsComeInTime]_vars
      PROVE  OnlineIsConnected'
  <2>1. /\ online \in [Sockets -> Names \cup {Nobody}]
        /\ connection \in [Sockets -> {"new", "connected", "gone"}]
    BY <1>2 DEF IInv, TypeOK
  <2>2. ASSUME NEW s \in Sockets, Disconnect(s), online' = [online EXCEPT ![s] = Nobody]
        PROVE  OnlineIsConnected'
    <3>1. connection' = [connection EXCEPT ![s] = "gone"]
      BY <2>2 DEF Disconnect
    <3> QED BY <1>2, <2>1, <2>2, <3>1 DEF OnlineIsConnected, Connected
  <2>3. ASSUME NEW l \in logins, Claim(l) PROVE OnlineIsConnected'
    <3>1. /\ l.socket \in Sockets /\ l.name # Nobody
          /\ \A s \in Sockets : online[s] # l.name
          /\ online' = [online EXCEPT ![l.socket] = l.name]
          /\ UNCHANGED connection
      BY <1>2, <2>3, ClaimTakes
    <3>2. online' # online
      BY <2>1, <3>1
    <3>3. ClaimsComeInTime
      BY <1>2, <3>2 DEF vars, presenceVars
    <3>4. Connected(l.socket)
      BY <2>3, <3>3 DEF ClaimsComeInTime
    <3> QED BY <1>2, <2>1, <3>1, <3>4 DEF OnlineIsConnected, Connected
  <2>4. ASSUME UNCHANGED online, ~ \E s \in Sockets : Disconnect(s) PROVE OnlineIsConnected'
    <3>1. \A s \in Sockets : Connected(s) => Connected(s)'
      <4>1. \/ UNCHANGED connection
            \/ \E s \in Sockets : connection' = [connection EXCEPT ![s] = "connected"]
        BY <1>2, <2>4, ConnectionSteps
      <4> QED BY <2>1, <4>1 DEF Connected
    <3> QED BY <1>2, <2>4, <3>1 DEF OnlineIsConnected
  <2>5. ASSUME NEW s \in Sockets, Disconnect(s) PROVE online' = [online EXCEPT ![s] = Nobody]
    BY <2>5 DEF Disconnect
  <2> QED BY <1>2, <2>2, <2>3, <2>4, <2>5, OnlineSteps
<1> QED BY <1>1, <1>2, ChatInvariance, PTL DEF Spec
=============================================================================
