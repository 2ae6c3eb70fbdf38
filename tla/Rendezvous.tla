----------------------------- MODULE Rendezvous -----------------------------
(***************************************************************************)
(* What the relay promises about who may talk to whom, with no sockets,    *)
(* tasks or awaits in it: a user asks another one, an answer uses the      *)
(* request up, an accepted request becomes at most one session between     *)
(* exactly those two users, and a session that has ended never returns.    *)
(* Relay.tla is shown to implement this specification.                     *)
(***************************************************************************)
CONSTANTS User,       \* the accounts
          SessionId,  \* the identifiers the relay may mint
          Nobody      \* no user: the party of a session not minted yet

VARIABLES asked,      \* pairs <<requester, target>> waiting for an answer
          live,       \* sessions the relay routes for
          initiator,  \* initiator[s]: who asked, for every session ever minted
          responder   \* responder[s]: who accepted

avars == <<asked, live, initiator, responder>>

AInit == /\ asked = {}
         /\ live = {}
         /\ initiator = [s \in SessionId |-> Nobody]
         /\ responder = [s \in SessionId |-> Nobody]

Ask(r, t) ==
    /\ r # t
    /\ asked' = asked \cup {<<r, t>>}
    /\ UNCHANGED <<live, initiator, responder>>

(* Requests lapse: denied, undeliverable, or a party went away. *)
Lapse(gone) ==
    /\ asked' = asked \ gone
    /\ UNCHANGED <<live, initiator, responder>>

(* An accepted request is consumed by the one session it is turned into;   *)
(* the session may be dead on arrival when the requester cannot be told.   *)
Grant(r, t, s) ==
    /\ <<r, t>> \in asked
    /\ initiator[s] = Nobody
    /\ asked' = asked \ {<<r, t>>}
    /\ initiator' = [initiator EXCEPT ![s] = r]
    /\ responder' = [responder EXCEPT ![s] = t]
    /\ live' \in {live, live \cup {s}}

End(s) ==
    /\ live' = live \ {s}
    /\ UNCHANGED <<asked, initiator, responder>>

(* A user leaves: all its requests, either way round, and all its sessions *)
(* go in one step.                                                         *)
Leave(u) ==
    /\ asked' = {p \in asked : p[1] # u /\ p[2] # u}
    /\ live' = {s \in live : initiator[s] # u /\ responder[s] # u}
    /\ UNCHANGED <<initiator, responder>>

ANext ==
    \/ \E r, t \in User : Ask(r, t)
    \/ \E gone \in SUBSET asked : Lapse(gone)
    \/ \E r, t \in User, s \in SessionId : Grant(r, t, s)
    \/ \E s \in SessionId : End(s)
    \/ \E u \in User : Leave(u)

ASpec == AInit /\ [][ANext]_avars
=============================================================================
