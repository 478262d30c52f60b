----------------------------- MODULE MCBalancer -----------------------------
(***************************************************************************)
(* Small instances of Balancer for TLC.                                    *)
(***************************************************************************)
EXTENDS Balancer, TLC

RequestSymmetry == Permutations(Requests)
=============================================================================
