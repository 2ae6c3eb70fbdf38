------------------------------- MODULE Sessions -------------------------------
(***************************************************************************)
(* Secure sessions from end to end: the relay that grants and ends them    *)
(* (server/relay.py, server/sessions.py), the handshakes that establish    *)
(* them (client/handshake.py), the tables in which both ends keep them     *)
(* (client/active_sessions.py, client/main.py) and the connections between *)
(* (client/relay_client.py, server/presence.py).                           *)
(*                                                                         *)
(* Relay.tla has the handlers of the relay at every await, Handshake.tla   *)
(* the keys and the threads of a handshake, Chat.tla what is done with a   *)
(* session; here a handler is one step and a handshake is its three        *)
(* frames, and the question is what the two ends and the relay believe.    *)
(* ERROR frames are printed and change nothing: they are left out, the     *)
(* send that may fail is not.                                              *)
(***************************************************************************)
EXTENDS Naturals, Sequences

CONSTANTS User,        \* connected accounts
          Session,     \* session ids the relay may mint
          initiator,   \* who asked for s
          responder,   \* who accepts it
          NoSession,   \* no entry in the table
          MaxFaults    \* bound: connections that break or are displaced,
                       \*   clients that end, restarts and frames refused

ASSUME SessionAssumption ==
    /\ initiator \in [Session -> User]
    /\ responder \in [Session -> User]
    /\ \A s \in Session : initiator[s] # responder[s]
    /\ NoSession \notin Session

VARIABLES
    link,       \* a client's connection: up; cut (served, but not the
                \*   registered one); broken (not noticed yet); down
    deaf,       \* clients whose callbacks are not installed
    hs,         \* HandshakeManager._sessions: handshakes that wait
    table,      \* active_sessions._by_peer
    active,     \* users with a registered socket at the relay
    live,       \* _handshake_sessions
    telling,    \* <<s, p>>: a finally block has to tell p that s has ended
    up, down    \* frames on their way to the relay and from the relay

(* History.                                                                *)
VARIABLES
    accepted,    \* sessions somebody has accepted
    unconfirmed, \* sessions whose confirm did not establish them
    forgotten,   \* sessions the relay routes for a connection that is gone
    faults       \* the bound

client  == <<link, deaf, hs, table>>
relay   == <<active, live, telling>>
causes  == <<unconfirmed, forgotten>>
vars    == <<client, relay, up, down, accepted, causes, faults>>

Frames(kinds) == [kind : kinds, session : Session]
Steps == {"init", "response", "confirm"}

TypeOK ==
    /\ link \in [User -> {"up", "cut", "broken", "down"}]
    /\ deaf \in SUBSET User
    /\ hs \in [User -> SUBSET Session]
    /\ table \in [User -> [User -> Session \cup {NoSession}]]
    /\ active \in SUBSET User
    /\ live \in SUBSET Session
    /\ telling \in SUBSET (Session \X User)
    /\ up \in [User -> Seq(Frames(Steps \cup {"accept"}))]
    /\ down \in [User -> Seq(Frames(Steps \cup {"accept", "end"}))]
    /\ accepted \in SUBSET Session
    /\ unconfirmed \in SUBSET Session
    /\ forgotten \in SUBSET Session
    /\ faults \in Nat

Init ==
    /\ link = [u \in User |-> "up"]
    /\ deaf = {}
    /\ hs = [u \in User |-> {}]
    /\ table = [u \in User |-> [p \in User |-> NoSession]]
    /\ active = User
    /\ live = {}
    /\ telling = {}
    /\ up = [u \in User |-> <<>>]
    /\ down = [u \in User |-> <<>>]
    /\ accepted = {}
    /\ unconfirmed = {}
    /\ forgotten = {}
    /\ faults = 0

Frame(k, s) == [kind |-> k, session |-> s]
Parties(s)  == {initiator[s], responder[s]}
Other(s, u) == IF u = initiator[s] THEN responder[s] ELSE initiator[s]
-----------------------------------------------------------------------------
(* The client.  What it sends over a connection that works is read by the  *)
(* relay, whether or not that has it registered.                           *)
Connected(u) == link[u] \in {"up", "cut"}

(* The loop thread hands a frame to the socket; one written to a broken    *)
(* connection is lost without a word.                                      *)
Send(u, f) == up' = IF Connected(u) THEN [up EXCEPT ![u] = Append(@, f)] ELSE up

(* The shell accepts a request (Requests.tla).                             *)
Accept(s) ==
    LET u == responder[s]
    IN  /\ s \notin accepted
        /\ accepted' = accepted \cup {s}
        /\ Connected(u) /\ u \notin deaf
        /\ Send(u, Frame("accept", s))
        /\ UNCHANGED <<client, relay, down, causes, faults>>

Begin(u, s) == hs' = [hs EXCEPT ![u] = @ \cup {s}]
Over(u, s)  == hs' = [hs EXCEPT ![u] = @ \ {s}]

(* store: an older session with the same peer is replaced.                 *)
Store(u, s) == table' = [table EXCEPT ![u][Other(s, u)] = s]

(* _on_connect_result: the initiator begins the handshake.                 *)
OnAccept(u, s) ==
    /\ Begin(u, s)
    /\ Send(u, Frame("init", s))
    /\ UNCHANGED <<table, unconfirmed>>

(* _handle_init: ignored if there is a handshake for s already.            *)
OnInit(u, s) ==
    /\ Begin(u, s)
    /\ IF s \in hs[u] THEN UNCHANGED up ELSE Send(u, Frame("response", s))
    /\ UNCHANGED <<table, unconfirmed>>

(* _handle_response: the key of the peer cannot be fetched or the signature *)
(* is wrong; or the session is stored and its confirm sent, unheard.       *)
OnResponse(u, s) ==
    /\ Over(u, s)
    /\ \/ s \in hs[u] /\ Store(u, s) /\ Send(u, Frame("confirm", s))
       \/ UNCHANGED <<table, up>>
    /\ UNCHANGED unconfirmed

(* _handle_confirm: the same without an answer.                            *)
OnConfirm(u, s) ==
    /\ Over(u, s)
    /\ \/ s \in hs[u] /\ Store(u, s) /\ UNCHANGED unconfirmed
       \/ unconfirmed' = unconfirmed \cup {s} /\ UNCHANGED table
    /\ UNCHANGED up

(* Variant: the entry of the peer goes, whatever session it is.            *)
OnEndOfPeer(u, s) ==
    /\ table' = [table EXCEPT ![u][Other(s, u)] = NoSession]
    /\ UNCHANGED <<hs, up, unconfirmed>>

(* _on_session_end: the entry goes if it is that session.  A handshake     *)
(* that waits is not told.                                                 *)
OnEnd(u, s) ==
    /\ table' = [table EXCEPT ![u] = [p \in User |-> IF @[p] = s THEN NoSession ELSE @[p]]]
    /\ UNCHANGED <<hs, up, unconfirmed>>

(* Frames that arrive before the callbacks are installed are dropped.      *)
OnNothing(k, s) ==
    /\ unconfirmed' = IF k = "confirm" THEN unconfirmed \cup {s} ELSE unconfirmed
    /\ UNCHANGED <<hs, table, up>>

Receive(u) ==
    /\ down[u] # <<>>
    /\ down' = [down EXCEPT ![u] = Tail(@)]
    /\ LET k == Head(down[u]).kind
           s == Head(down[u]).session
       IN  IF u \in deaf THEN OnNothing(k, s)
           ELSE CASE k = "accept"   -> OnAccept(u, s)
                  [] k = "init"     -> OnInit(u, s)
                  [] k = "response" -> OnResponse(u, s)
                  [] k = "confirm"  -> OnConfirm(u, s)
                  [] k = "end"      -> OnEnd(u, s)
    /\ UNCHANGED <<link, deaf, relay, accepted, forgotten, faults>>

(* The timer of a handshake.                                               *)
Timeout(u, s) ==
    /\ s \in hs[u]
    /\ Over(u, s)
    /\ UNCHANGED <<link, deaf, table, relay, up, down, accepted, causes, faults>>

Fault == faults < MaxFaults /\ faults' = faults + 1

(* The connection breaks: of what is on the way in each direction, only a  *)
(* first part arrives.                                                     *)
Lose(u, i, j) ==
    /\ Connected(u)
    /\ Fault
    /\ link' = [link EXCEPT ![u] = "broken"]
    /\ up' = [up EXCEPT ![u] = SubSeq(@, 1, i)]
    /\ down' = [down EXCEPT ![u] = SubSeq(@, 1, j)]
    /\ UNCHANGED <<deaf, hs, table, relay, accepted, causes>>

(* The pump has dispatched what arrived and ends: connected is false.      *)
Notice(u) ==
    /\ link[u] = "broken"
    /\ down[u] = <<>>
    /\ link' = [link EXCEPT ![u] = "down"]
    /\ UNCHANGED <<deaf, hs, table, relay, up, down, accepted, causes, faults>>

(* Variant: the sessions are kept over a reconnection.                     *)
CarriedOver(u) == table

Cleared(u) == [table EXCEPT ![u] = [p \in User |-> NoSession]]

(* _reconnect_with_backoff and _on_reconnected, or the login of a new      *)
(* process: the relay registers the socket, and keeps the sessions of a    *)
(* connection it has not cleaned up after; the table is cleared, the       *)
(* handshakes go on.  The step stands for the moment replace() writes the  *)
(* entry.  Between auth_result and that moment it awaits old.close():      *)
(* until then the relay reads nothing of u and writes to the old socket or *)
(* to none, as while the link is down.  For a registration that overlaps   *)
(* another see Displace.                                                   *)
Connect(u) ==
    /\ link[u] = "down"
    /\ link' = [link EXCEPT ![u] = "up"]
    /\ table' = Cleared(u)
    /\ active' = active \cup {u}
    /\ up' = [up EXCEPT ![u] = <<>>]
    /\ forgotten' = forgotten \cup {s \in live : u \in Parties(s)}
    /\ UNCHANGED <<deaf, hs, live, telling, down, accepted, unconfirmed, faults>>

(* The process ends; its successor is deaf until run() installs the        *)
(* callbacks.                                                              *)
Exit(u, i) ==
    /\ Fault
    /\ link' = [link EXCEPT ![u] = "down"]
    /\ deaf' = deaf \cup {u}
    /\ hs' = [hs EXCEPT ![u] = {}]
    /\ table' = Cleared(u)
    /\ up' = [up EXCEPT ![u] = SubSeq(@, 1, i)]
    /\ down' = [down EXCEPT ![u] = <<>>]
    /\ UNCHANGED <<relay, accepted, causes>>

Install(u) ==
    /\ u \in deaf /\ link[u] # "down"
    /\ deaf' = deaf \ {u}
    /\ UNCHANGED <<link, hs, table, relay, up, down, accepted, causes, faults>>
-----------------------------------------------------------------------------
(* The relay.                                                              *)

(* The working connection of u loses its entry: a message that repeats a   *)
(* string nobody can encode is written to it, and send_to removes it; or   *)
(* replace() writes another socket over it, of a registration of u that    *)
(* had begun before (presence.py:43-49, 76-80).                            *)
Displace(u) ==
    /\ link[u] = "up"
    /\ Fault
    /\ link' = [link EXCEPT ![u] = "cut"]
    /\ active' \in {active, active \ {u}}
    /\ UNCHANGED <<deaf, hs, table, live, telling, up, down, accepted, causes>>

(* send_to(u, f) returned True: f is on its way, or was written to a       *)
(* connection that is no longer there.                                     *)
Deliver(u, f) ==
    /\ u \in active
    /\ down' = IF link[u] = "up" THEN [down EXCEPT ![u] = Append(@, f)] ELSE down
    /\ UNCHANGED active

(* It returned False: no socket, or one that failed and is dropped.        *)
Unreachable(u) == u \notin active \/ link[u] # "up"

(* An ERROR frame to u, whose socket may be dropped likewise; the sockets  *)
(* in rest are left.  A connection that is cut hears nothing.              *)
Refuse(u, rest) ==
    /\ active' \in IF link[u] = "up" THEN {rest} ELSE {rest, rest \ {u}}
    /\ UNCHANGED down

(* The task of the connection of u reads its next frame.                   *)
Read(u, f) ==
    /\ up[u] # <<>>
    /\ f = Head(up[u])
    /\ up' = [up EXCEPT ![u] = Tail(@)]

Unheard(f) ==
    unconfirmed' = IF f.kind = "confirm" THEN unconfirmed \cup {f.session} ELSE unconfirmed

(* connect_response(accept): a session is minted and granted to its        *)
(* initiator, and ended again if that is gone; or the request is not known *)
(* any more.                                                               *)
Grant(s) ==
    LET i == initiator[s]
        r == responder[s]
    IN  /\ Read(r, Frame("accept", s))
        /\ \/ live' = live \cup {s} /\ Deliver(i, Frame("accept", s))
           \/ Unreachable(i) /\ Refuse(r, active \ {i}) /\ UNCHANGED live
           \/ Refuse(r, active) /\ UNCHANGED live
        /\ UNCHANGED <<client, telling, accepted, causes, faults>>

(* Variant: whatever the relay knows of the session.                       *)
RouteBlindly(u, k, s) ==
    /\ Read(u, Frame(k, s))
    /\ Deliver(Other(s, u), Frame(k, s))
    /\ UNCHANGED <<client, live, telling, accepted, causes, faults>>

(* _route_opaque: to the other party of a session the relay knows.         *)
Route(u, k, s) ==
    /\ Read(u, Frame(k, s))
    /\ \/ s \in live /\ Deliver(Other(s, u), Frame(k, s)) /\ UNCHANGED unconfirmed
       \/ /\ s \in live /\ Unreachable(Other(s, u))
          /\ Refuse(u, active \ {Other(s, u)}) /\ Unheard(Frame(k, s))
       \/ s \notin live /\ Refuse(u, active) /\ Unheard(Frame(k, s))
    /\ UNCHANGED <<client, live, telling, accepted, forgotten, faults>>

(* _ws_message_limiter refuses the next frame of u.                        *)
Limited(u) ==
    /\ Fault
    /\ LET f == Head(up[u]) IN Read(u, f) /\ Unheard(f)
    /\ Refuse(u, active)
    /\ UNCHANGED <<client, live, telling, accepted, forgotten>>

SessionsOf(u) == {s \in live : u \in Parties(s)}

(* Variant: it is the initiator that is told, whoever is gone.             *)
OwedToInitiator(u) == {<<s, initiator[s]>> : s \in SessionsOf(u)}

(* clear_handshake_sessions_for_user: each session of u and its other end. *)
Owed(u) == {<<s, Other(s, u)>> : s \in SessionsOf(u)}

(* The finally block of ws_endpoint, once the frames that arrived are read. *)
(* A socket that was replaced or dropped is not cleaned up after; the one  *)
(* that displaced a connection may end at any time.                        *)
Cleanup(u) ==
    /\ u \in active
    /\ link[u] = "cut" \/ (link[u] # "up" /\ up[u] = <<>>)
    /\ active' = active \ {u}
    /\ live' = live \ SessionsOf(u)
    /\ telling' = telling \cup Owed(u)
    /\ UNCHANGED <<client, up, down, accepted, causes, faults>>

(* It goes on: a SESSION_END for each of them, with an await in between.   *)
Tell(s, p) ==
    /\ <<s, p>> \in telling
    /\ telling' = telling \ {<<s, p>>}
    /\ \/ Deliver(p, Frame("end", s))
       \/ Unreachable(p) /\ active' = active \ {p} /\ UNCHANGED down
    /\ UNCHANGED <<client, live, up, accepted, causes, faults>>

(* The relay goes down with its tables and every connection, and is back.  *)
Restart ==
    /\ Fault
    /\ active' = {}
    /\ live' = {}
    /\ telling' = {}
    /\ link' = [u \in User |-> IF Connected(u) THEN "broken" ELSE link[u]]
    /\ up' = [u \in User |-> <<>>]
    /\ UNCHANGED <<deaf, hs, table, down, accepted, causes>>
-----------------------------------------------------------------------------
Loop(u) ==
    \/ Receive(u) \/ Notice(u) \/ Connect(u)
    \/ \E s \in Session : Timeout(u, s)

Process(u) == Install(u) \/ \E i \in 0..Len(up[u]) : Exit(u, i)

Serve(u) ==
    \/ \E s \in Session : \/ responder[s] = u /\ Grant(s)
                         \/ \E k \in Steps : Route(u, k, s)
                         \/ Tell(s, u)
    \/ Cleanup(u)

Environment(u) ==
    \/ \E i \in 0..Len(up[u]), j \in 0..Len(down[u]) : Lose(u, i, j)
    \/ Limited(u) \/ Displace(u)

Next ==
    \/ \E s \in Session : Accept(s)
    \/ \E u \in User : Loop(u) \/ Process(u) \/ Serve(u) \/ Environment(u)
    \/ Restart

Spec == Init /\ [][Next]_vars
-----------------------------------------------------------------------------
(* Properties.                                                             *)

(* Some frame of q is f.                                                    *)
In(f, q) == \E n \in 1..Len(q) : q[n] = f

Holds(u, s) == table[u][Other(s, u)] = s

(* A client whose connection is registered does not keep a session the     *)
(* relay has ended without being told (relay.py:195-202): the SESSION_END  *)
(* is on its way, or the finally block has still to send it, whatever ran  *)
(* in between, and nothing of a handshake comes after it.                  *)
DeadIsTold ==
    \A s \in Session : \A u \in Parties(s) :
        s \notin live /\ link[u] = "up" =>
            /\ Holds(u, s) => <<s, u>> \in telling \/ In(Frame("end", s), down[u])
            /\ \A n \in 1..Len(down[u]) :
                  down[u][n] \in Frames({"response", "confirm"}) /\ down[u][n].session = s =>
                      \/ <<s, u>> \in telling
                      \/ \E m \in (n + 1)..Len(down[u]) : down[u][m] = Frame("end", s)

(* A session that is live and held by one end is held by the other, or     *)
(* another live one of the two, or its confirm is still to come; both ends *)
(* being registered.  The exceptions: its confirm did not come or was too  *)
(* late (handshake.py:230-237 establishes before it sends), and one of the *)
(* ends came back before the relay had cleaned up after its old connection. *)
HeldTogether ==
    \A s \in live \ forgotten :
        LET i == initiator[s]
            r == responder[s]
        IN  link[i] = "up" /\ link[r] = "up" =>
                /\ Holds(i, s) => \/ table[r][i] \in live
                                  \/ In(Frame("confirm", s), up[i])
                                  \/ In(Frame("confirm", s), down[r])
                                  \/ s \in unconfirmed
                /\ Holds(r, s) => table[i][r] \in live

(* A handshake produces one session per pair of users (handshake.py:8):    *)
(* when nothing is on its way, two connected ends that each hold a session *)
(* with the other hold the same one.  The code does not keep that.         *)
OneSessionPerPair ==
    \A u, p \in User :
        /\ up[u] = <<>> /\ down[u] = <<>> /\ hs[u] = {} /\ link[u] = "up"
        /\ up[p] = <<>> /\ down[p] = <<>> /\ hs[p] = {} /\ link[p] = "up"
        /\ table[u][p] # NoSession /\ table[p][u] # NoSession
        => table[u][p] = table[p][u]

(* What is left of it.  If one of two users has asked for the sessions, the *)
(* one stored last at the one end is the one stored last at the other      *)
(* (active_sessions.py:20-22 keeps what comes last): two connected ends    *)
(* hold the same, whatever else is on its way, unless the confirm of the   *)
(* initiator's is still to come or did not establish it.                   *)
OneSessionUnlessCrossed ==
    \A s, t \in Session :
        LET i == initiator[s]
            r == responder[s]
        IN  /\ initiator[t] = i /\ responder[t] = r
            /\ link[i] = "up" /\ link[r] = "up"
            /\ Holds(i, s) /\ Holds(r, t)
            /\ ~In(Frame("confirm", s), up[i]) /\ ~In(Frame("confirm", s), down[r])
            => s = t \/ s \in unconfirmed

(* Negotiation with the one message of s where the wires have it.          *)
Hop(s) ==
    LET i == initiator[s]
        r == responder[s]
        On(k, q) == In(Frame(k, s), q)
    IN  CASE s \notin accepted        -> 0
          [] On("accept", up[r])      -> 1
          [] On("accept", down[i])    -> 2
          [] On("init", up[i])        -> 3
          [] On("init", down[r])      -> 4
          [] On("response", up[r])    -> 5
          [] On("response", down[i])  -> 6
          [] On("confirm", up[i])     -> 7
          [] On("confirm", down[r])   -> 8
          [] OTHER                    -> 9

N == INSTANCE Negotiation
     WITH hop <- [s \in Session |-> Hop(s)],
          held <- [u \in User |-> {s \in Session : u \in Parties(s) /\ Holds(u, s)}]

(* Whatever the queues, timers and connections do, a session goes the way  *)
(* of Negotiation: what a handler of either end or of the relay does is    *)
(* one of its steps, and nobody is left out or comes twice.                *)
ImplementsNegotiation == N!ASpec
-----------------------------------------------------------------------------
(* What makes DeadIsTold inductive: who is up is registered, a client      *)
(* reconnects only after it has read what had arrived, and a process       *)
(* without callbacks has no sessions.                                      *)
Registered == \A u \in User : link[u] = "up" => u \in active
Drained    == \A u \in User : link[u] = "down" => down[u] = <<>>
Fresh      == \A u \in deaf, p \in User : table[u][p] = NoSession
=============================================================================
