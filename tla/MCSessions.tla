------------------------------ MODULE MCSessions ------------------------------
(* Two users, one of whom asks twice, or each of whom asks once.           *)
EXTENDS Sessions, TLC

CONSTANTS alice, bob, s1, s2

AskedTwice    == (s1 :> alice) @@ (s2 :> alice)
AcceptedTwice == (s1 :> bob) @@ (s2 :> bob)
Alike         == Permutations({s1, s2})

AskedBoth    == (s1 :> alice) @@ (s2 :> bob)
AcceptedBoth == (s1 :> bob) @@ (s2 :> alice)
=============================================================================
