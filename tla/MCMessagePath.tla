--------------------------- MODULE MCMessagePath ---------------------------
(***************************************************************************)
(* Small instances of MessagePath for TLC.                                 *)
(***************************************************************************)
EXTENDS MessagePath, TLC

PathSymmetry == Permutations(Requests) \cup Permutations(Backends)
=============================================================================
