----------------------------- MODULE Agreement ------------------------------
(***************************************************************************)
(* What the handshake promises: for every session the initiator decides on *)
(* one pair of ephemeral keys, each used in no other session, and the      *)
(* responder either adopts exactly that pair, once, or ends up with none.  *)
(* Handshake.tla is shown to implement this specification.                 *)
(***************************************************************************)
CONSTANTS Session,  \* the sessions minted by the relay
          Key       \* ephemeral key pairs

VARIABLES decided,  \* decided[s]: the pairs <<own, peer's>> the initiator of s
                    \*   was handed session keys for
          adopted   \* adopted[s]: likewise the responder, in the same order

avars == <<decided, adopted>>

AInit == /\ decided = [s \in Session |-> {}]
         /\ adopted = [s \in Session |-> {}]

Decide(s, p) ==
    /\ decided[s] = {}
    /\ \A t \in Session : \A q \in decided[t] : q[1] # p[1] /\ q[2] # p[2]
    /\ decided' = [decided EXCEPT ![s] = {p}]
    /\ UNCHANGED adopted

Adopt(s) ==
    /\ decided[s] # {}
    /\ adopted[s] = {}
    /\ adopted' = [adopted EXCEPT ![s] = decided[s]]
    /\ UNCHANGED decided

ANext == \E s \in Session : Adopt(s) \/ \E p \in Key \X Key : Decide(s, p)

ASpec == AInit /\ [][ANext]_avars
=============================================================================
