----------------------------- MODULE MCAccounts -----------------------------
(* A small instance of Accounts for TLC.                                   *)
EXTENDS Accounts, TLC

CONSTANTS alice, Alice, bob, home, work, right, wrong, c1, c2, c3, c4, c5

(* alice logs in at home, twice, once with a capital, and at work; there   *)
(* somebody else does as Alice, with a password of his own, and at home,   *)
(* where file names do not tell the two apart, as bob.                     *)
Normalized == (alice :> alice) @@ (Alice :> alice) @@ (bob :> bob)
Typed      == (c1 :> alice) @@ (c2 :> Alice) @@ (c3 :> alice) @@ (c4 :> Alice) @@ (c5 :> bob)
Machines   == (c1 :> home) @@ (c2 :> home) @@ (c3 :> work) @@ (c4 :> work) @@ (c5 :> home)
Passwords  == (c1 :> right) @@ (c2 :> right) @@ (c3 :> right) @@ (c4 :> wrong) @@ (c5 :> right)

SwapKeys == Permutations(Key)
=============================================================================
