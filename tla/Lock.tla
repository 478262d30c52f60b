-------------------------------- MODULE Lock --------------------------------
(***************************************************************************)
(* Something that one owner at a time may have: it is taken when nobody    *)
(* has it, and goes from one owner to another only by being given back in  *)
(* between.  Chat uses it for each username (presence.js), Supervisor for  *)
(* the service and its port (supervise.sh).                                *)
(***************************************************************************)
CONSTANT Owners

VARIABLE holders  \* who has it

Init == holders = {}

Take(o) ==
    /\ holders = {}
    /\ holders' = {o}

GiveBack ==
    /\ holders # {}
    /\ holders' = {}

Next == GiveBack \/ \E o \in Owners : Take(o)

Spec == Init /\ [][Next]_holders

-----------------------------------------------------------------------------
\* Two owners never have it at once.
Exclusive == \A o, p \in holders : o = p
=============================================================================
