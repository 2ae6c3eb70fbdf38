------------------------------- MODULE MCRelay -------------------------------
(* Small instances of Relay for TLC.                                       *)
EXTENDS Relay, TLC

CONSTANTS alice, bob, carol, a1, a2, b1, k1

(* Who holds which connection: alice reconnects, or each user has one.     *)
Reconnecting == (a1 :> alice) @@ (a2 :> alice) @@ (b1 :> bob)
TwoUsers     == (a1 :> alice) @@ (b1 :> bob)
ThreeUsers   == (a1 :> alice) @@ (b1 :> bob) @@ (k1 :> carol)

(* The two connections of alice are interchangeable; so are users that     *)
(* have one connection each, together with it.  Not used with liveness.    *)
SwapConnections == Permutations(Conn \ {b1})
SwapUsers ==
    {p @@ [c \in Conn |-> CHOOSE d \in Conn : user[d] = p[user[c]]] :
        p \in Permutations(User)}
=============================================================================
