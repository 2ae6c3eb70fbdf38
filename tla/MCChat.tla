------------------------------- MODULE MCChat -------------------------------
(* A small instance of Chat for TLC.                                       *)
EXTENDS Chat, TLC

(* Neither the two ends nor their sessions are told apart.                 *)
Swaps == {p @@ q : p \in Permutations(User), q \in Permutations(Session)}
=============================================================================
