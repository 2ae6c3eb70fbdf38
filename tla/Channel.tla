------------------------------ MODULE Channel -------------------------------
(***************************************************************************)
(* What a secure session promises to the reader of its messages: of the    *)
(* lines the peer wrote in it, some are shown, none twice, none out of     *)
(* order, and nothing else is.  Chat.tla is shown to implement this.       *)
(***************************************************************************)
EXTENDS Naturals, Sequences

CONSTANTS User, Session

VARIABLES written,  \* written[u][s]: how many lines u wrote in session s
          shown     \* shown[u][s]: the numbers of the lines of s that the peer
                    \*   of u wrote and u was shown, in the order of display

avars == <<written, shown>>

AInit == /\ written = [u \in User |-> [s \in Session |-> 0]]
         /\ shown = [u \in User |-> [s \in Session |-> <<>>]]

Write(u, s) ==
    /\ written' = [written EXCEPT ![u][s] = @ + 1]
    /\ UNCHANGED shown

(* Line n of the peer p of u is next. *)
Show(u, p, s, n) ==
    /\ n \in 1..written[p][s]
    /\ \A i \in DOMAIN shown[u][s] : shown[u][s][i] < n
    /\ shown' = [shown EXCEPT ![u][s] = Append(@, n)]
    /\ UNCHANGED written

ANext ==
    \/ \E u \in User, s \in Session : Write(u, s)
    \/ \E u \in User, p \in User, s \in Session :
           p # u /\ \E n \in 1..written[p][s] : Show(u, p, s, n)

ASpec == AInit /\ [][ANext]_avars
=============================================================================
