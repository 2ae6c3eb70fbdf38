------------------------------ MODULE MCRequests ------------------------------
(* Two users ask a third.                                                  *)
EXTENDS Requests

CONSTANTS alice, bob, carol

(* alice may ask again.                                                    *)
AskCarol == [p \in Pairs |-> CASE p = <<alice, carol>> -> 2
                               [] p = <<bob, carol>>   -> 1
                               [] OTHER                -> 0]
=============================================================================
