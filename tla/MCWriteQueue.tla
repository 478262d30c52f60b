---------------------------- MODULE MCWriteQueue ----------------------------
(***************************************************************************)
(* Small instances of WriteQueue for TLC.  Callers are numbers here, and   *)
(* call in the order of their numbers: which of them is first makes no     *)
(* difference to the queue, and the ids are any in any order.  (A symmetry *)
(* set would say the same, but not in a run that checks liveness; nothing  *)
(* is assumed of the fairness of insert(), the action that is constrained.)*)
(***************************************************************************)
EXTENDS WriteQueue

InOrder ==
    \A c, d \in Callers :
        c < d /\ outcome[c] = "idle" => outcome'[d] = "idle"
=============================================================================
