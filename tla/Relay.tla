-------------------------------- MODULE Relay --------------------------------
(***************************************************************************)
(* The websocket relay: server/relay.py over the two in-memory tables of   *)
(* server/presence.py and server/sessions.py.                              *)
(*                                                                         *)
(* Every connection is served by an asyncio task of its own (ws_endpoint). *)
(* The process is single threaded, so a task runs alone from one await to  *)
(* the next: an action below is one such stretch of code, and pc[c] names  *)
(* the await at which the task of connection c is suspended.  A message    *)
(* whose send leaves the task nothing to do but go on (an error reply, a   *)
(* presence broadcast) is one step, taken when the send returns.           *)
(***************************************************************************)
EXTENDS Naturals, FiniteSets

CONSTANTS User,        \* registered accounts (normalized usernames)
          Conn,        \* websocket connections, each used once
          user,        \* user[c]: the account whose token the client of c has
          SessionId,   \* identifiers secrets.token_hex(16) may return
          MaxPending,  \* _MAX_PENDING_PER_TARGET
          MaxDown,     \* bound: connections the environment may take down
          MaxGarbled,  \* bound: open sockets in `cut` before no more frames
                       \*   come that cannot be written out again
          NoConn,      \* "no socket": a missing key of `active`
          Nobody,      \* "no user"
          NoSession    \* "no session"

ASSUME NoneAssumption == /\ NoConn \notin Conn
                         /\ Nobody \notin User
                         /\ NoSession \notin SessionId
ASSUME UserAssumption == user \in [Conn -> User]
ASSUME BoundsAssumption ==
    MaxPending \in Nat \ {0} /\ MaxDown \in Nat /\ MaxGarbled \in Nat

VARIABLES
    active,     \* ConnectionManager.active: user -> its registered socket
    pending,    \* _pending: target -> the requesters it has not answered
    live,       \* the keys of _handshake_sessions
    initiator,  \* the parties of a session; remembered after its entry has
    responder,  \*   gone, so that an identifier is never minted twice
    pc,         \* where the task of a connection is suspended
    link,       \* the socket: open; lost (the client is gone, the server has
                \*   not noticed); closed (the server called close)
    sending,    \* the socket a suspended routed send is writing to
    about,      \* the session minted by a suspended connect_response
    todo,       \* SESSION_ENDs a finally block still has to send
    rest        \* recipients a presence broadcast still has to reach

(* History: what the clients were told, and what the relay lost track of.  *)
VARIABLES
    knows,      \* sessions the client behind a socket holds
    strayed,    \* users whose entry in `active` was once taken away by
                \*   something else than the finally block of its own task
    cut,        \* sockets that were open when their entry was taken away so
    withdrawn   \* sessions ended because their connect_response failed

tables  == <<active, pending, live, initiator, responder>>
task    == <<pc, sending, about, todo, rest>>
history == <<knows, strayed, cut, withdrawn>>
vars    == <<tables, task, link, history>>

(* The awaits of ws_endpoint after which its try/finally is in force, a     *)
(* frame has been received or is awaited, and the expiry timer runs.        *)
Loop == {"serve", "request", "response", "route", "reply", "leaving"}
Routing == {"request", "response", "route"}
PC   == Loop \cup {"new", "closeOld", "greet", "announce",
                   "farewell", "offline", "done"}

TypeOK ==
    /\ active \in [User -> Conn \cup {NoConn}]
    /\ pending \in [User -> SUBSET User]
    /\ live \in SUBSET SessionId
    /\ initiator \in [SessionId -> User \cup {Nobody}]
    /\ responder \in [SessionId -> User \cup {Nobody}]
    /\ pc \in [Conn -> PC]
    /\ link \in [Conn -> {"open", "lost", "closed"}]
    /\ sending \in [Conn -> Conn \cup {NoConn}]
    /\ about \in [Conn -> SessionId \cup {NoSession}]
    /\ todo \in [Conn -> SUBSET (SessionId \X User)]
    /\ rest \in [Conn -> SUBSET User]
    /\ knows \in [Conn -> SUBSET SessionId]
    /\ strayed \in SUBSET User
    /\ cut \in SUBSET Conn
    /\ withdrawn \in SUBSET SessionId

Init ==
    /\ active = [u \in User |-> NoConn]
    /\ pending = [u \in User |-> {}]
    /\ live = {}
    /\ initiator = [s \in SessionId |-> Nobody]
    /\ responder = [s \in SessionId |-> Nobody]
    /\ pc = [c \in Conn |-> "new"]
    /\ link = [c \in Conn |-> "open"]
    /\ sending = [c \in Conn |-> NoConn]
    /\ about = [c \in Conn |-> NoSession]
    /\ todo = [c \in Conn |-> {}]
    /\ rest = [c \in Conn |-> {}]
    /\ knows = [c \in Conn |-> {}]
    /\ strayed = {}
    /\ cut = {}
    /\ withdrawn = {}
-----------------------------------------------------------------------------
(* server/presence.py: the table of registered sockets.                    *)

Online == {u \in User : active[u] # NoConn}

(* Variants of disconnect: one that forgets the identity check, one that   *)
(* forgets to remove the entry.                                            *)
DisconnectByName(u, d) == [active EXCEPT ![u] = NoConn]
DisconnectNothing(u, d) == active

(* disconnect(u, d) drops the entry of u only while it still is socket d.  *)
Disconnect(u, d) ==
    [active EXCEPT ![u] = IF active[u] = d THEN NoConn ELSE active[u]]

(* The frame of send_to(t, ..) leaves: the socket was not closed by the    *)
(* server.  What is written to a lost link never arrives.                  *)
Writable(t) == active[t] # NoConn /\ link[active[t]] # "closed"

(* disconnect() from the exception handler of send_to, whatever was raised:*)
(* the user of d loses its entry here and not in the finally block of d.   *)
DropEntry(d) ==
    /\ active' = Disconnect(user[d], d)
    /\ IF active[user[d]] = d
       THEN /\ strayed' = strayed \cup {user[d]}
            /\ cut' = IF link[d] = "open" THEN cut \cup {d} ELSE cut
       ELSE UNCHANGED <<strayed, cut>>

(* A message of the relay's own wording fails on a socket that is down.    *)
DropFailed(d) == link[d] # "open" /\ DropEntry(d)

(* One that repeats a string of the sender's fails on any socket when the  *)
(* string cannot be encoded (JSON can spell half of a surrogate pair).     *)
DropGarbled(t) ==
    /\ active[t] # NoConn
    /\ Cardinality(cut) < MaxGarbled
    /\ DropEntry(active[t])

(* send_to(t, ..) returns False without suspending.                        *)
Unreachable(t) ==
    \/ /\ active[t] = NoConn
       /\ UNCHANGED <<active, strayed, cut>>
    \/ /\ active[t] # NoConn
       /\ DropFailed(active[t])

(* A send_to whose result nobody looks at.                                 *)
SendAndForget(t) ==
    \/ Writable(t) /\ UNCHANGED <<active, strayed, cut>>
    \/ Unreachable(t)

(* knows' after the client behind the registered socket of t learns s.     *)
Learn(t, s) ==
    IF link[active[t]] = "open" THEN [knows EXCEPT ![active[t]] = @ \cup {s}]
                                ELSE knows
-----------------------------------------------------------------------------
(* server/sessions.py: requests and sessions.                              *)

AddRequest(r, t) == [pending EXCEPT ![t] = @ \cup {r}]

PendingFull(r, t) == r \notin pending[t] /\ Cardinality(pending[t]) >= MaxPending

(* Variant: an answer that does not use the request up.                    *)
PeekPending(r, t) == pending

PopPending(r, t) == [pending EXCEPT ![t] = @ \ {r}]

(* Variant: only the requests made to u are cleared.                       *)
ClearTargetOnly(u) == [pending EXCEPT ![u] = {}]

(* clear_for_user: u is neither asked nor asking any more.                 *)
ClearForUser(u) ==
    [t \in User |-> IF t = u THEN {} ELSE pending[t] \ {u}]

SessionsOf(u) == {s \in live : initiator[s] = u \/ responder[s] = u}

(* other_party: Nobody when s is not live or u takes no part in it.        *)
OtherParty(s, u) ==
    IF s \notin live THEN Nobody
    ELSE IF initiator[s] = u THEN responder[s]
    ELSE IF responder[s] = u THEN initiator[s]
    ELSE Nobody

(* Variants: sessions u accepted are forgotten; the party to tell is       *)
(* looked up after the entry is gone.                                      *)
EndedAsInitiator(u) == {<<s, responder[s]>> : s \in {x \in live : initiator[x] = u}}
EndedLookedUpLate(u) == {<<s, Nobody>> : s \in SessionsOf(u)}

(* clear_handshake_sessions_for_user: each ended session and whom to tell. *)
EndedSessions(u) == {<<s, OtherParty(s, u)>> : s \in SessionsOf(u)}
-----------------------------------------------------------------------------
(* Authenticate and register.                                              *)

(* The bound of the model on the failures of its environment.              *)
MayGoDown == Cardinality({d \in Conn : link[d] # "open"}) < MaxDown

(* No valid first frame in time, a bad token, an unknown user (4401); or   *)
(* auth_result cannot be sent and the exception ends the task.             *)
AuthFails(c) ==
    /\ pc[c] = "new"
    /\ link[c] = "open" => MayGoDown
    /\ pc' = [pc EXCEPT ![c] = "done"]
    /\ link' = [link EXCEPT ![c] = "closed"]
    /\ UNCHANGED <<tables, sending, about, todo, rest, history>>

(* active[u] = c, and USER_LIST is being sent to c.  Overwriting an entry  *)
(* takes it away from a socket that has not run its finally block.         *)
Enter(c) ==
    /\ active' = [active EXCEPT ![user[c]] = c]
    /\ strayed' = IF active[user[c]] = NoConn THEN strayed
                                              ELSE strayed \cup {user[c]}
    /\ cut' = cut \cup {d \in {active[user[c]]} : d # NoConn /\ link[d] = "open"}
    /\ pc' = [pc EXCEPT ![c] = "greet"]
    /\ UNCHANGED <<pending, live, initiator, responder, sending, about,
                   todo, rest, knows, withdrawn>>

(* The token is good, auth_result is out, and replace() finds no old       *)
(* socket, or close() on the one it finds raises at once.                  *)
Register(c) ==
    /\ pc[c] = "new"
    /\ active[user[c]] # NoConn => link[active[user[c]]] # "open"
    /\ Enter(c)
    /\ UNCHANGED link

(* Likewise, but replace() awaits old.close(4409): the old socket is marked *)
(* closed, and its entry stays for the time being.                         *)
CloseOld(c) ==
    /\ pc[c] = "new"
    /\ active[user[c]] # NoConn
    /\ link[active[user[c]]] # "closed"
    /\ link' = [link EXCEPT ![active[user[c]]] = "closed"]
    /\ pc' = [pc EXCEPT ![c] = "closeOld"]
    /\ UNCHANGED <<tables, sending, about, todo, rest, history>>

(* ... and then writes the entry, whatever happened to it meanwhile.       *)
TakeOver(c) ==
    /\ pc[c] = "closeOld"
    /\ Enter(c)
    /\ UNCHANGED link

(* c has the recipients vs of a broadcast left; the last one done, the     *)
(* task goes on to p.                                                      *)
Broadcasting(c, during, vs, p) ==
    /\ rest' = [rest EXCEPT ![c] = vs]
    /\ pc' = [pc EXCEPT ![c] = IF vs = {} THEN p ELSE during]

(* USER_LIST is out; the "online" broadcast takes its list of recipients.  *)
(* After it the expiry timer is armed and the receive loop entered.        *)
Greet(c) ==
    /\ pc[c] = "greet"
    /\ link[c] # "closed"
    /\ Broadcasting(c, "announce", Online \ {user[c]}, "serve")
    /\ UNCHANGED <<tables, sending, about, todo, link, history>>

(* USER_LIST cannot be sent: the exception leaves ws_endpoint before its   *)
(* try block, so no finally block runs for the entry just written.         *)
GreetFails(c) ==
    /\ pc[c] = "greet"
    /\ link[c] # "open"
    /\ pc' = [pc EXCEPT ![c] = "done"]
    /\ UNCHANGED <<tables, sending, about, todo, rest, link, history>>

Announce(c, v) ==
    /\ pc[c] = "announce"
    /\ v \in rest[c]
    /\ SendAndForget(v)
    /\ Broadcasting(c, "announce", rest[c] \ {v}, "serve")
    /\ UNCHANGED <<pending, live, initiator, responder, sending, about, todo,
                   link, knows, withdrawn>>
-----------------------------------------------------------------------------
(* One frame of the receive loop.  A task blocked in receive may still be  *)
(* handed one frame after its socket was closed by the server (the next    *)
(* receive raises), and whatever a lost client had sent before.            *)

GoTo(c, p) == pc' = [pc EXCEPT ![c] = p]

NextFrame(c) == IF link[c] = "closed" THEN "leaving" ELSE "serve"

(* A frame answered to its sender only: rate limited, malformed, an        *)
(* unknown type, list_users, a request to oneself.                         *)
JustReply(c) ==
    /\ pc[c] = "serve"
    /\ GoTo(c, "reply")
    /\ UNCHANGED <<tables, sending, about, todo, rest, link, history>>

(* An answer that repeats the `type` or the `to` of its frame, and cannot  *)
(* be encoded: the task serves on without the entry of its user.           *)
EchoGarbled(c) ==
    /\ pc[c] = "serve"
    /\ DropGarbled(user[c])
    /\ GoTo(c, NextFrame(c))
    /\ UNCHANGED <<pending, live, initiator, responder, sending, about,
                   todo, rest, link, knows, withdrawn>>

(* The answer goes to whatever socket the user has registered by now.      *)
Reply(c) ==
    /\ pc[c] = "reply"
    /\ SendAndForget(user[c])
    /\ GoTo(c, NextFrame(c))
    /\ UNCHANGED <<pending, live, initiator, responder, sending, about,
                   todo, rest, link, knows, withdrawn>>

(* The routed send of c is under way to the registered socket of t.        *)
BeginSend(c, t, p) ==
    /\ Writable(t)
    /\ sending' = [sending EXCEPT ![c] = active[t]]
    /\ GoTo(c, p)
    /\ UNCHANGED <<active, strayed, cut>>

(* The routed send fails at once; c answers its own user.                  *)
FailSend(c, t) ==
    /\ Unreachable(t)
    /\ GoTo(c, "reply")
    /\ UNCHANGED sending

(* connect_request to t: registered first, taken back if t is unreachable. *)
ConnectRequest(c, t) ==
    /\ pc[c] = "serve"
    /\ t # user[c]
    /\ \/ /\ PendingFull(user[c], t)
          /\ GoTo(c, "reply")
          /\ UNCHANGED <<active, strayed, cut, pending, sending>>
       \/ /\ ~PendingFull(user[c], t)
          /\ BeginSend(c, t, "request")
          /\ pending' = AddRequest(user[c], t)
       \/ /\ ~PendingFull(user[c], t)
          /\ FailSend(c, t)
          /\ pending' = PopPending(user[c], t)
    /\ UNCHANGED <<live, initiator, responder, about, todo, rest, link,
                   knows, withdrawn>>

(* create_handshake_session: t asked, the user of c accepted.              *)
Mint(c, t, s) ==
    /\ initiator[s] = Nobody
    /\ initiator' = [initiator EXCEPT ![s] = t]
    /\ responder' = [responder EXCEPT ![s] = user[c]]

(* connect_response(accept) to a pending request of t: the request is      *)
(* consumed, s is minted, and t is told; if t cannot be told s ends again. *)
AcceptRequest(c, t, s) ==
    /\ pc[c] = "serve"
    /\ t \in pending[user[c]]
    /\ pending' = PopPending(t, user[c])
    /\ Mint(c, t, s)
    /\ \/ /\ BeginSend(c, t, "response")
          /\ live' = live \cup {s}
          /\ about' = [about EXCEPT ![c] = s]
          /\ knows' = Learn(t, s)
       \/ /\ FailSend(c, t)
          /\ UNCHANGED <<live, about, knows>>
    /\ UNCHANGED <<todo, rest, link, withdrawn>>

(* connect_response(deny): as above without a session.                     *)
DenyRequest(c, t) ==
    /\ pc[c] = "serve"
    /\ t \in pending[user[c]]
    /\ pending' = PopPending(t, user[c])
    /\ \/ BeginSend(c, t, "response")
       \/ FailSend(c, t)
    /\ UNCHANGED <<live, initiator, responder, about, todo, rest, link,
                   knows, withdrawn>>

(* Variant: forwarded to whomever the frame names.                         *)
RouteAsAddressed(c, s) ==
    /\ pc[c] = "serve"
    /\ OtherParty(s, user[c]) # Nobody
    /\ \E t \in User \ {user[c]} : BeginSend(c, t, "route") /\ knows' = Learn(t, s)
    /\ UNCHANGED <<pending, live, initiator, responder, about, todo,
                   rest, link, withdrawn>>

(* relay and encrypted_message: forwarded to the other party of s only;    *)
(* the receiver of a first relay frame learns the session from it.  The    *)
(* payload is any string, so the send may fail because of it.              *)
Route(c, s) ==
    /\ pc[c] = "serve"
    /\ LET t == OtherParty(s, user[c])
       IN  /\ t # Nobody
           /\ \/ BeginSend(c, t, "route") /\ knows' = Learn(t, s)
              \/ FailSend(c, t) /\ UNCHANGED knows
              \/ /\ DropGarbled(t)
                 /\ GoTo(c, "reply")
                 /\ UNCHANGED <<sending, knows>>
    /\ UNCHANGED <<pending, live, initiator, responder, about, todo,
                   rest, link, withdrawn>>

(* A client ends s itself: the entry goes and the other party is told.     *)
SessionEnd(c, s) ==
    /\ pc[c] = "serve"
    /\ LET t    == OtherParty(s, user[c])
           mine == {d \in Conn : user[d] = user[c]}
           told == IF Writable(t) THEN {active[t]} ELSE {}
       IN  /\ t # Nobody
           /\ SendAndForget(t)
           /\ knows' = [d \in Conn |-> IF d \in mine \cup told
                                       THEN knows[d] \ {s} ELSE knows[d]]
    /\ live' = live \ {s}
    /\ GoTo(c, NextFrame(c))
    /\ UNCHANGED <<pending, initiator, responder, sending, about, todo,
                   rest, link, withdrawn>>
-----------------------------------------------------------------------------
(* A suspended routed send resumes.                                        *)

Sent(c) ==
    /\ pc[c] \in Routing
    /\ GoTo(c, NextFrame(c))
    /\ sending' = [sending EXCEPT ![c] = NoConn]
    /\ about' = [about EXCEPT ![c] = NoSession]
    /\ UNCHANGED <<tables, todo, rest, link, history>>

(* ... or raises because the socket went down under it: send_to returns    *)
(* False and the handler takes back what it had registered.                *)
SendFailed(c) ==
    /\ pc[c] \in Routing
    /\ DropFailed(sending[c])
    /\ pending' = IF pc[c] = "request" THEN PopPending(user[c], user[sending[c]])
                                       ELSE pending
    /\ live' = live \ {about[c]}
    /\ withdrawn' = withdrawn \cup ({about[c]} \ {NoSession})
    /\ GoTo(c, "reply")
    /\ sending' = [sending EXCEPT ![c] = NoConn]
    /\ about' = [about EXCEPT ![c] = NoSession]
    /\ UNCHANGED <<initiator, responder, todo, rest, link, knows>>
-----------------------------------------------------------------------------
(* The end of a connection.                                                *)

(* The client goes away, noticed or not.                                   *)
Lose(c) ==
    /\ pc[c] # "done"
    /\ link[c] = "open" /\ MayGoDown
    /\ link' = [link EXCEPT ![c] = "lost"]
    /\ UNCHANGED <<tables, task, history>>

(* _expire_at: the JWT is over.                                            *)
Expire(c) ==
    /\ pc[c] \in Loop
    /\ link[c] # "closed"
    /\ link[c] = "open" => MayGoDown
    /\ link' = [link EXCEPT ![c] = "closed"]
    /\ UNCHANGED <<tables, task, history>>

(* The finally block has the sessions owed in ts left to announce; after   *)
(* the last one it broadcasts "offline" to whoever is online then.         *)
Parting(c, ts, online) ==
    /\ todo' = [todo EXCEPT ![c] = ts]
    /\ IF ts # {} THEN GoTo(c, "farewell") /\ UNCHANGED rest
                  ELSE Broadcasting(c, "offline", online, "done")

(* The finally block runs up to its first await.  Only the task whose      *)
(* socket is still registered cleans up after its user.                    *)
Finally(c) ==
    /\ active' = Disconnect(user[c], c)
    /\ IF active[user[c]] = c
       THEN /\ pending' = ClearForUser(user[c])
            /\ live' = live \ SessionsOf(user[c])
            /\ Parting(c, EndedSessions(user[c]), Online \ {user[c]})
       ELSE /\ GoTo(c, "done")
            /\ UNCHANGED <<pending, live, todo, rest>>
    /\ UNCHANGED <<initiator, responder, sending, about, history>>

(* receive_text raises because the socket is down.                         *)
Cleanup(c) ==
    /\ \/ pc[c] = "serve" /\ link[c] # "open"
       \/ pc[c] = "leaving"
    /\ Finally(c)
    /\ UNCHANGED link

(* A frame raises what the loop does not catch (a binary frame, JSON nested *)
(* too deep) on an open socket.  Nothing is written to it or read from it  *)
(* any more, and the server closes it when the task ends.                  *)
Breaks(c) ==
    /\ pc[c] = "serve"
    /\ link[c] = "open" /\ MayGoDown
    /\ Finally(c)
    /\ link' = [link EXCEPT ![c] = "closed"]

(* SESSION_END(peer_disconnected) to the other party of one ended session. *)
Farewell(c, s, v) ==
    /\ pc[c] = "farewell"
    /\ <<s, v>> \in todo[c]
    /\ SendAndForget(v)
    /\ knows' = IF Writable(v) THEN [knows EXCEPT ![active[v]] = @ \ {s}]
                               ELSE knows
    /\ Parting(c, todo[c] \ {<<s, v>>}, {u \in User : active'[u] # NoConn})
    /\ UNCHANGED <<pending, live, initiator, responder, sending, about, link,
                   withdrawn>>

Offline(c, v) ==
    /\ pc[c] = "offline"
    /\ v \in rest[c]
    /\ SendAndForget(v)
    /\ Broadcasting(c, "offline", rest[c] \ {v}, "done")
    /\ UNCHANGED <<pending, live, initiator, responder, sending, about, todo,
                   link, knows, withdrawn>>
-----------------------------------------------------------------------------
(* What the client of c may do, and what the task of c does by itself.     *)

Frame(c) ==
    \/ JustReply(c) \/ EchoGarbled(c) \/ Breaks(c)
    \/ \E t \in User : ConnectRequest(c, t) \/ DenyRequest(c, t)
    \/ \E t \in User, s \in SessionId : AcceptRequest(c, t, s)
    \/ \E s \in SessionId : Route(c, s) \/ SessionEnd(c, s)

Client(c) ==
    \/ Frame(c)
    \/ Lose(c)
    \/ Expire(c)

Task(c) ==
    \/ AuthFails(c) \/ Register(c) \/ CloseOld(c) \/ TakeOver(c)
    \/ Greet(c) \/ GreetFails(c) \/ Reply(c) \/ Sent(c) \/ SendFailed(c)
    \/ \E v \in User : Announce(c, v) \/ Offline(c, v)
    \/ \E s \in SessionId, v \in User : Farewell(c, s, v)

Next == \E c \in Conn : Client(c) \/ Task(c) \/ Cleanup(c)

Spec == Init /\ [][Next]_vars

(* The event loop resumes every task whose await has ended.  A task whose   *)
(* socket is down gets the disconnect once the finitely many frames it had  *)
(* buffered are read, hence strong fairness of Cleanup.                     *)
Fairness == \A c \in Conn : WF_vars(Task(c)) /\ SF_vars(Cleanup(c))

FairSpec == Spec /\ Fairness
-----------------------------------------------------------------------------
(* Properties.                                                             *)

(* Only the two users a session was minted for ever hold it, and each of   *)
(* them under its own name: routing never leaks a session to a third user  *)
(* (other_party, _route_opaque).                                           *)
OnlyPartiesHear ==
    \A c \in Conn : \A s \in knows[c] : user[c] \in {initiator[s], responder[s]}

(* A request or a live session of a user who is not online can only be     *)
(* left by a user whose entry in `active` was once taken away behind the   *)
(* back of its task (send_to's exception handler, replace): the finally    *)
(* block of ws_endpoint and the undo steps of the handlers miss nothing,   *)
(* in whatever order tasks run.                                            *)
OrphansOnlyFromStrays ==
    /\ \A t \in User : \A r \in pending[t] : {r, t} \subseteq Online \cup strayed
    /\ \A s \in live : {initiator[s], responder[s]} \subseteq Online \cup strayed

(* Some finally block still has to send SESSION_END(s) to u.                *)
Owed(s, u) == \E c \in Conn : <<s, u>> \in todo[c]

(* A registered, working client that holds a session the relay has ended   *)
(* has its SESSION_END coming.  The one exception: the responder of a      *)
(* session whose connect_response failed after the initiator got it is     *)
(* answered requester_offline instead (_handle_connect_response).          *)
NobodyLeftInTheDark ==
    \A c \in Conn : \A s \in knows[c] :
        (active[user[c]] = c /\ link[c] = "open")
            => s \in live \cup withdrawn \/ Owed(s, user[c])

(* disconnect() compares sockets: a socket that is open and served is the  *)
(* registered one of its user, through late finally blocks of replaced     *)
(* connections, failed sends and reconnections.  It loses its entry in two *)
(* ways only (`cut`): to a message that could not be encoded, or to a      *)
(* registration that had begun before its own.                             *)
ServedIsRegistered ==
    \A c \in Conn :
        (pc[c] \in Loop \cup {"greet", "announce"} /\ link[c] = "open")
            => active[user[c]] = c \/ c \in cut

(* The relay implements the abstract authority on requests and sessions.   *)
Asked == {p \in User \X User : p[1] \in pending[p[2]]}

R == INSTANCE Rendezvous WITH asked <- Asked

ImplementsRendezvous == R!ASpec

(* A registered socket that went down while it was being served does not   *)
(* stay registered: the user goes offline or a newer socket takes over.    *)
DeadSocketForgotten ==
    \A c \in Conn :
        (pc[c] \in Loop /\ link[c] # "open") ~> (\A u \in User : active[u] # c)

(* A client that holds a session the relay has ended is told, unless its   *)
(* own connection goes first (exception as in NobodyLeftInTheDark).        *)
EndedSessionIsTold ==
    \A c \in Conn, s \in SessionId :
        (s \in knows[c] \ (live \cup withdrawn) /\ active[user[c]] = c)
            ~> (s \notin knows[c] \/ active[user[c]] # c \/ link[c] # "open")
-----------------------------------------------------------------------------
(* What holds the tables and the suspended tasks together, and makes the   *)
(* invariants above inductive.                                             *)
Unregistered == {"new", "closeOld"}

(* An entry of `active` names a socket registered under that very name.    *)
EntriesNamed ==
    \A u \in User : active[u] # NoConn =>
        user[active[u]] = u /\ pc[active[u]] \notin Unregistered

(* A task between registration and cleanup has the entry of its user,      *)
(* unless that user strayed.                                               *)
TasksRegistered ==
    \A c \in Conn : pc[c] \in Loop \cup {"greet", "announce"} =>
        active[user[c]] = c \/ user[c] \in strayed

(* A routed send has a socket; only a connect_response can take back a     *)
(* session.                                                                *)
SendsRouted ==
    \A c \in Conn : /\ pc[c] \in Routing => sending[c] \in Conn
                    /\ pc[c] # "response" => about[c] = NoSession

(* Both parties of a session are fixed in one step, and it is live only    *)
(* after that.                                                             *)
MintedTogether ==
    \A s \in SessionId : /\ initiator[s] = Nobody <=> responder[s] = Nobody
                         /\ s \in live => initiator[s] # Nobody

(* A socket that never registered was told nothing.                        *)
NothingToldEarly ==
    \A c \in Conn : pc[c] \in Unregistered => knows[c] = {}

(* Only a connection the server has closed leaves its loop by an exception. *)
LeavingIsClosed == \A c \in Conn : pc[c] = "leaving" => link[c] = "closed"

(* Only a finally block owes anything.                                     *)
TodoInFarewell == \A c \in Conn : pc[c] # "farewell" => todo[c] = {}

(* All of them together: what the tables and the tasks know of each other  *)
(* stays consistent across every await.                                    *)
Bookkeeping == /\ EntriesNamed
               /\ TasksRegistered
               /\ SendsRouted
               /\ MintedTogether
               /\ NothingToldEarly
               /\ LeavingIsClosed
               /\ TodoInFarewell
-----------------------------------------------------------------------------
(* What a comment of the repository says, and the code does not do.        *)

(* client/main.py:91-95: when a client is back after losing its connection *)
(* "o relay ja invalidou (server-side) qualquer sessao": the relay routes  *)
(* for no session of a finished connection whose user is served again.     *)
SessionDiesWithConnection ==
    \A c, d \in Conn :
        (pc[c] = "done" /\ active[user[c]] = d /\ pc[d] = "serve")
            => knows[c] \cap live = {}
=============================================================================
