------------------------------- MODULE MCChat -------------------------------
(***************************************************************************)
(* Small instances of Chat for TLC.                                        *)
(***************************************************************************)
EXTENDS Chat, TLC

ChatSymmetry ==
    Permutations(Sockets) \cup Permutations(Names) \cup Permutations(Keys)
        \cup Permutations(Messages)
=============================================================================
