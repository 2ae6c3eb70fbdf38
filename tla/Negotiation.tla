----------------------------- MODULE Negotiation ----------------------------
(***************************************************************************)
(* What two users may expect of a session, with no queues, connections or  *)
(* tables in it.  It is negotiated by one message that goes back and forth *)
(* between its ends, over the relay, in eight hops:                        *)
(*     accept 1 2   init 3 4   response 5 6   confirm 7 8                  *)
(* odd ones to the relay, even ones from it.  The relay forwards only what *)
(* belongs to a live session; the initiator establishes the session when   *)
(* it has the response, the responder when it has the confirm, each once   *)
(* and in the place of any other session of the two; once the message is   *)
(* lost, or has arrived, nothing more is negotiated.  Sessions.tla is      *)
(* shown to implement this specification.                                  *)
(***************************************************************************)
EXTENDS Naturals

CONSTANTS User, Session, initiator, responder

VARIABLES hop,   \* hop[s]: where the message is; 0 before it is sent, 9 when
                 \*   it is gone
          live,  \* sessions the relay forwards for
          held   \* held[u]: sessions u has established and not dropped

avars == <<hop, live, held>>

Over == 9
AParties(s) == {initiator[s], responder[s]}
OfTheSame(s) == {t \in Session : AParties(t) = AParties(s)}

AInit == /\ hop = [s \in Session |-> 0]
         /\ live = {}
         /\ held = [u \in User |-> {}]

(* Of the sessions in S the message of some is lost.                       *)
Lost(S) ==
    /\ hop' \in [Session -> 0..Over]
    /\ \A s \in Session :
          \/ hop'[s] = hop[s]
          \/ s \in S /\ hop[s] # 0 /\ hop'[s] = Over

Propose(s) ==
    /\ hop[s] = 0
    /\ hop' = [hop EXCEPT ![s] = 1]
    /\ UNCHANGED <<live, held>>

(* The message takes its next hop, or goes nowhere.                        *)
Move(s) == \E n \in {hop[s] + 1, Over} : hop' = [hop EXCEPT ![s] = n]

(* The relay passes it on; with the accept it makes the session.           *)
Forward(s) ==
    /\ hop[s] \in {1, 3, 5, 7}
    /\ hop[s] # 1 => s \in live
    /\ Move(s)
    /\ live' = live \cup {s}
    /\ UNCHANGED held

Answer(s) == hop[s] \in {2, 4} /\ Move(s) /\ UNCHANGED <<live, held>>

Establish(u, s) == held' = [held EXCEPT ![u] = (@ \ OfTheSame(s)) \cup {s}]

(* The initiator establishes the session, whether or not it can tell.      *)
Decide(s) ==
    /\ hop[s] = 6
    /\ Move(s)
    /\ Establish(initiator[s], s)
    /\ UNCHANGED live

Adopt(s) ==
    /\ hop[s] = 8
    /\ Move(s)
    /\ Establish(responder[s], s)
    /\ UNCHANGED live

Lose == UNCHANGED <<live, held>> /\ Lost(Session)

(* An end drops a session.                                                 *)
Drop(u, s) == held' = [held EXCEPT ![u] = @ \ {s}] /\ UNCHANGED <<hop, live>>

(* An end drops them all, with what was on its way there or from there.    *)
Reset(u) ==
    /\ held' = [held EXCEPT ![u] = {}]
    /\ Lost({s \in Session : u \in AParties(s)})
    /\ UNCHANGED live

(* The relay ends the sessions of a user, or, going down, all of them.     *)
End(u) == live' = {s \in live : u \notin AParties(s)} /\ UNCHANGED <<hop, held>>
EndAll == live' = {} /\ UNCHANGED held /\ Lost(Session)

ANext ==
    \/ Lose \/ EndAll
    \/ \E u \in User : Reset(u) \/ End(u) \/ \E s \in Session : Drop(u, s)
    \/ \E s \in Session : Propose(s) \/ Forward(s) \/ Answer(s) \/ Decide(s) \/ Adopt(s)

ASpec == AInit /\ [][ANext]_avars
=============================================================================
