-------------------------------- MODULE Room --------------------------------
(***************************************************************************)
(* What the feed of one backend promises: it is filled before the backend  *)
(* listens, holds only what is stored, and loses nothing until the process *)
(* ends.  When it learns of what others store is left open.                *)
(***************************************************************************)
CONSTANTS Ids,   \* of messages
          Whole  \* one find returns every message there can be

VARIABLES up,    \* the room has been read and the process has not ended
          room,  \* the ids it holds
          stored \* the ids in the database

roomVars == <<up, room, stored>>

Init ==
    /\ up = FALSE
    /\ room = {}
    /\ stored = {}

\* Through this backend or another.
Store(i) ==
    /\ stored' = stored \cup {i}
    /\ UNCHANGED <<up, room>>

\* load().
Load ==
    /\ ~up
    /\ up' = TRUE
    /\ room' \in SUBSET stored
    /\ Whole => room' = stored
    /\ UNCHANGED stored

\* addLocal(), the change stream or a resync, one message or several.
Learn ==
    /\ up
    /\ room' \in SUBSET stored
    /\ room \subseteq room'
    /\ UNCHANGED <<up, stored>>

End ==
    /\ up
    /\ up' = FALSE
    /\ room' = {}
    /\ UNCHANGED stored

Next == (\E i \in Ids : Store(i)) \/ Load \/ Learn \/ End

Spec == Init /\ [][Next]_roomVars
=============================================================================
