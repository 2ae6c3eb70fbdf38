----------------------------- MODULE MCHandshake ----------------------------
(* Small instances of Handshake for TLC.                                   *)
EXTENDS Handshake, TLC

CONSTANTS alice, bob, s1, s2

(* Two sessions that crossed, one asked by each.                           *)
EachAsks == (s1 :> alice) @@ (s2 :> bob)
EachAccepts == (s1 :> bob) @@ (s2 :> alice)

SwapKeys == Permutations(Key)
=============================================================================
