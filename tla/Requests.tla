------------------------------- MODULE Requests -------------------------------
(***************************************************************************)
(* Connection requests from end to end: the shells that ask, accept and    *)
(* deny (client/commands.py), the requests a client keeps until they are   *)
(* answered (client/connection_state.py), the pending table of the relay   *)
(* (server/sessions.py, server/relay.py) and the connections between them. *)
(*                                                                         *)
(* Relay.tla has the handlers of the relay at every await; here each runs  *)
(* in one step, so that what remains are the races between the clients and *)
(* the relay.  A connection delivers in order and may break; what was sent *)
(* last is then lost.                                                      *)
(***************************************************************************)
EXTENDS Naturals, Sequences

CONSTANTS User,        \* registered accounts
          maxAsks,     \* bound: how often r asks t, for each <<r, t>>
          MaxFaults    \* bound: connections that break or are displaced,
                       \*   clients that end, restarts and frames refused

Pairs == User \X User

ASSUME AskAssumption ==
    /\ maxAsks \in [Pairs -> Nat]
    /\ \A u \in User : maxAsks[<<u, u>>] = 0     \* _cmd_connect refuses that

VARIABLES
    proc,       \* a client: off; deaf (connected, its callbacks not yet
                \*   installed); on
    link,       \* its connection: up; cut (served, but not the registered
                \*   one); broken (not noticed yet); down
    incoming,   \* _incoming: requesters shown to the user, not answered
    answering,  \* whom the shell took from _incoming and has to answer
    active,     \* users with a registered socket at the relay
    pending,    \* _pending: target -> requesters
    up, down    \* frames on their way to the relay and from the relay

(* History.                                                                *)
VARIABLES
    asks,       \* how often r has asked t, the first bound of the model
    open,       \* requests and answers sent that have not reached their end
    slipped,    \* <<r, t>>: t was denied the sight of r's pending request
    lapsed,     \* <<r, t>>: the relay forgot r's request unanswered
    repeated,   \* <<r, t>>: r asked again while its request was held
    faults      \* how much went wrong, the other bound

client  == <<proc, link, incoming, answering>>
relay   == <<active, pending>>
wires   == <<up, down>>
told    == <<slipped, lapsed, repeated>>
history == <<asks, open, told, faults>>
vars    == <<client, relay, wires, history>>

(* Accepting and denying differ in what the relay does next (Relay.tla);   *)
(* here both are an answer.                                                *)
Sendable == [kind : {"request", "answer"}, peer : User]
Frames   == [kind : {"request", "answer", "requestFailed", "answerFailed"},
             peer : User]
Matters  == {"request", "answer"} \X User \X User

TypeOK ==
    /\ proc \in [User -> {"off", "deaf", "on"}]
    /\ link \in [User -> {"up", "cut", "broken", "down"}]
    /\ incoming \in [User -> SUBSET User]
    /\ answering \in [User -> SUBSET User]
    /\ active \in SUBSET User
    /\ pending \in [User -> SUBSET User]
    /\ up \in [User -> Seq(Sendable)]
    /\ down \in [User -> Seq(Frames)]
    /\ asks \in [Pairs -> Nat]
    /\ open \in SUBSET Matters
    /\ slipped \in SUBSET Pairs
    /\ lapsed \in SUBSET Pairs
    /\ repeated \in SUBSET Pairs
    /\ faults \in Nat

Init ==
    /\ proc = [u \in User |-> "off"]
    /\ link = [u \in User |-> "down"]
    /\ incoming = [u \in User |-> {}]
    /\ answering = [u \in User |-> {}]
    /\ active = {}
    /\ pending = [u \in User |-> {}]
    /\ up = [u \in User |-> <<>>]
    /\ down = [u \in User |-> <<>>]
    /\ asks = [p \in Pairs |-> 0]
    /\ open = {}
    /\ slipped = {}
    /\ lapsed = {}
    /\ repeated = {}
    /\ faults = 0

Request(u) == [kind |-> "request", peer |-> u]
Answer(u)  == [kind |-> "answer", peer |-> u]

(* What a frame for u is about.                                            *)
Matter(u, f) ==
    CASE f.kind = "request"       -> <<"request", f.peer, u>>
      [] f.kind = "answer"        -> <<"answer", f.peer, u>>
      [] f.kind = "requestFailed" -> <<"request", u, f.peer>>
      [] f.kind = "answerFailed"  -> <<"answer", u, f.peer>>
-----------------------------------------------------------------------------
(* The client: one process from login to exit.                             *)

(* The client may send, and the relay reads what it sends.                 *)
Connected(u) == link[u] \in {"up", "cut"}

(* connect_ws and _reconnect_with_backoff: the relay registers the new     *)
(* socket and keeps what it knows of the user.  Unread frames of an older  *)
(* connection are dropped with it.  A request the relay still holds from   *)
(* then, and this client does not, is not sent again.                      *)
(* The step stands for the moment replace() writes the entry.  Between     *)
(* auth_result and that moment it awaits old.close(): until then the relay *)
(* reads nothing of u and writes to the old socket or to none, as while    *)
(* the link is down, so what the client does meanwhile may as well come    *)
(* after.  For a registration that overlaps another see Displace.          *)
Enter(u, shown) ==
    /\ link' = [link EXCEPT ![u] = "up"]
    /\ active' = active \cup {u}
    /\ up' = [up EXCEPT ![u] = <<>>]
    /\ slipped' = slipped \cup {<<r, u>> : r \in pending[u] \ shown}
    /\ UNCHANGED <<incoming, answering, pending, down, asks, open, lapsed, repeated, faults>>

(* auth.login() connects; run() installs the callbacks after it returned.  *)
Login(u) ==
    /\ proc[u] = "off"
    /\ proc' = [proc EXCEPT ![u] = "deaf"]
    /\ Enter(u, {})

Install(u) ==
    /\ proc[u] = "deaf"
    /\ proc' = [proc EXCEPT ![u] = "on"]
    /\ UNCHANGED <<link, incoming, answering, relay, wires, history>>

Reconnect(u) ==
    /\ proc[u] # "off"
    /\ link[u] = "down"
    /\ Enter(u, incoming[u] \cup answering[u])
    /\ UNCHANGED proc

(* connect: send_connect_request.  Without a connection nothing happens    *)
(* (set_outgoing writes a variable that is never read).                    *)
Connect(r, t) ==
    /\ proc[r] = "on" /\ answering[r] = {} /\ Connected(r)
    /\ asks[<<r, t>>] < maxAsks[<<r, t>>]
    /\ asks' = [asks EXCEPT ![<<r, t>>] = @ + 1]
    /\ up' = [up EXCEPT ![r] = Append(@, Request(t))]
    /\ open' = open \cup {<<"request", r, t>>}
    /\ UNCHANGED <<client, relay, down, told, faults>>

(* accept and deny: pop_incoming takes the request named, or the oldest ... *)
PopIncoming(t, r) ==
    /\ proc[t] = "on" /\ answering[t] = {}
    /\ r \in incoming[t]
    /\ incoming' = [incoming EXCEPT ![t] = @ \ {r}]
    /\ answering' = [answering EXCEPT ![t] = {r}]
    /\ UNCHANGED <<proc, link, relay, wires, history>>

(* ... and then the answer is sent, if there is a connection.  Whether     *)
(* _send reports the loss or not, what was taken is gone.                  *)
SendAnswer(t, r) ==
    /\ r \in answering[t]
    /\ answering' = [answering EXCEPT ![t] = {}]
    /\ IF Connected(t)
       THEN /\ up' = [up EXCEPT ![t] = Append(@, Answer(r))]
            /\ open' = open \cup {<<"answer", t, r>>}
       ELSE UNCHANGED <<up, open>>
    /\ UNCHANGED <<proc, link, incoming, relay, down, asks, told, faults>>

(* Variant: one slot instead of a queue.                                   *)
PushOverwriting(u, r) == [incoming EXCEPT ![u] = {r}]

PushIncoming(u, r) == [incoming EXCEPT ![u] = @ \cup {r}]

(* The loop thread dispatches a frame; one without a callback is dropped.  *)
Receive(u) ==
    /\ down[u] # <<>>
    /\ LET f == Head(down[u])
       IN  /\ open' = open \ {Matter(u, f)}
           /\ IF f.kind # "request" THEN UNCHANGED <<incoming, slipped>>
              ELSE IF proc[u] = "on"
                   THEN incoming' = PushIncoming(u, f.peer) /\ UNCHANGED slipped
                   ELSE slipped' = slipped \cup {<<f.peer, u>>} /\ UNCHANGED incoming
    /\ down' = [down EXCEPT ![u] = Tail(@)]
    /\ UNCHANGED <<proc, link, answering, relay, up, asks, lapsed, repeated, faults>>

Fault == faults < MaxFaults /\ faults' = faults + 1

(* The connection breaks: of what is on the way in each direction, only a  *)
(* first part arrives.  u is owed nothing for what it had sent.            *)
Break(u, i, j) ==
    /\ up' = [up EXCEPT ![u] = SubSeq(@, 1, i)]
    /\ down' = [down EXCEPT ![u] = SubSeq(@, 1, j)]
    /\ open' = {m \in open : m[2] # u} \ {Matter(u, down[u][k]) : k \in (j + 1)..Len(down[u])}

Lose(u, i, j) ==
    /\ Connected(u)
    /\ Fault
    /\ link' = [link EXCEPT ![u] = "broken"]
    /\ Break(u, i, j)
    /\ UNCHANGED <<proc, incoming, answering, relay, asks, told>>

(* The pump has dispatched what arrived and ends: connected is false.      *)
Notice(u) ==
    /\ link[u] = "broken"
    /\ down[u] = <<>>
    /\ link' = [link EXCEPT ![u] = "down"]
    /\ UNCHANGED <<proc, incoming, answering, relay, wires, history>>

(* The process ends, and with it the queue of requests.                    *)
Exit(u, i) ==
    /\ proc[u] # "off"
    /\ Fault
    /\ proc' = [proc EXCEPT ![u] = "off"]
    /\ link' = [link EXCEPT ![u] = "down"]
    /\ incoming' = [incoming EXCEPT ![u] = {}]
    /\ answering' = [answering EXCEPT ![u] = {}]
    /\ Break(u, i, 0)
    /\ UNCHANGED <<relay, asks, told>>
-----------------------------------------------------------------------------
(* The relay.                                                              *)

AddRequest(r, t) == [pending EXCEPT ![t] = @ \cup {r}]
PopPending(r, t) == [pending EXCEPT ![t] = @ \ {r}]

(* Variant: the key goes with the requests, and the next lookup fails.     *)
ClearWithKey(u) == [t \in User \ {u} |-> pending[t] \ {u}]

(* clear_for_user: u is neither asked nor asking any more.                 *)
ClearForUser(u) == [t \in User |-> IF t = u THEN {} ELSE pending[t] \ {u}]

Held(table) == {p \in Pairs : p[1] \in table[p[2]]}

(* The working connection of u loses its entry: a message that repeats a   *)
(* string nobody can encode is written to it, and send_to removes it; or   *)
(* replace() writes another socket over it, of a registration of u that    *)
(* had begun before (presence.py:43-49, 76-80).                            *)
Displace(u) ==
    /\ link[u] = "up"
    /\ Fault
    /\ link' = [link EXCEPT ![u] = "cut"]
    /\ active' \in {active, active \ {u}}
    /\ UNCHANGED <<proc, incoming, answering, pending, wires, asks, open, told>>

(* send_to(u, f) returned True: f is on its way, or was written to a       *)
(* connection that is no longer there.                                     *)
Deliver(u, f) ==
    /\ u \in active
    /\ UNCHANGED active
    /\ IF link[u] = "up"
       THEN down' = [down EXCEPT ![u] = Append(@, f)] /\ UNCHANGED open
       ELSE open' = open \ {Matter(u, f)} /\ UNCHANGED down

(* send_to(t, ..) returned False: t has no socket, or one that failed and  *)
(* is dropped.                                                             *)
Unreachable(t) == t \notin active \/ link[t] # "up"

(* An ERROR frame to u, whose socket may be dropped likewise; the sockets  *)
(* in rest are left.  A connection that is cut hears nothing.              *)
Refuse(u, f, rest) ==
    /\ IF link[u] = "up"
       THEN active' = rest /\ down' = [down EXCEPT ![u] = Append(@, f)]
       ELSE active' \in {rest, rest \ {u}} /\ UNCHANGED down
    /\ UNCHANGED open

Failed(f) ==
    [kind |-> IF f.kind = "request" THEN "requestFailed" ELSE "answerFailed",
     peer |-> f.peer]

(* The task of the connection of u reads its next frame.                   *)
Read(u, f) ==
    /\ up[u] # <<>>
    /\ f = Head(up[u])
    /\ up' = [up EXCEPT ![u] = Tail(@)]

(* _ws_message_limiter or _connect_request_limiter refuses it, or a full   *)
(* table a request.  Who sent an answer does not know the request any      *)
(* more; the relay still does.                                             *)
Limited(u) ==
    /\ Fault
    /\ LET f == Head(up[u])
       IN  /\ Read(u, f)
           /\ Refuse(u, Failed(f), active)
           /\ slipped' = IF f.kind = "request" THEN slipped
                                               ELSE slipped \cup {<<f.peer, u>>}
    /\ UNCHANGED <<client, pending, asks, lapsed, repeated>>

(* connect_request: registered, forwarded, and taken back if t is not      *)
(* there; taking back a repeated request takes the first one back too.     *)
HandleRequest(r, t) ==
    LET again == {p \in {<<r, t>>} : r \in pending[t]}
    IN  /\ Read(r, Request(t))
        /\ \/ /\ pending' = AddRequest(r, t)
              /\ Deliver(t, Request(r))
              /\ slipped' = slipped \ {<<r, t>>}
              /\ repeated' = repeated \cup again
              /\ UNCHANGED lapsed
           \/ /\ Unreachable(t)
              /\ pending' = PopPending(r, t)
              /\ Refuse(r, Failed(Request(t)), active \ {t})
              /\ lapsed' = lapsed \cup again
              /\ UNCHANGED <<slipped, repeated>>
        /\ UNCHANGED <<client, asks, faults>>

(* Variant: an answer to nothing is ignored without a word.                *)
NoPendingSilently(t, r) ==
    /\ r \notin pending[t]
    /\ UNCHANGED <<relay, down, open>>

NoPending(t, r) ==
    /\ r \notin pending[t]
    /\ Refuse(t, Failed(Answer(r)), active)
    /\ UNCHANGED pending

(* Variant: the answer uses up every request made to t.                    *)
PopAll(r, t) == [pending EXCEPT ![t] = {}]

PopAnswered(r, t) == PopPending(r, t)

(* connect_response: the request is used up and the answer forwarded; if   *)
(* the requester is gone, who answered is told.                            *)
HandleAnswer(t, r) ==
    /\ Read(t, Answer(r))
    /\ \/ NoPending(t, r)
       \/ /\ r \in pending[t]
          /\ pending' = PopAnswered(r, t)
          /\ \/ Deliver(r, Answer(t))
             \/ Unreachable(r) /\ Refuse(t, Failed(Answer(r)), active \ {r})
    /\ UNCHANGED <<client, asks, told, faults>>

(* The finally block of ws_endpoint, once the frames that arrived are read. *)
(* A socket that was replaced or dropped is not cleaned up after; the one  *)
(* that displaced a connection may end at any time.                        *)
Cleanup(u) ==
    /\ u \in active
    /\ link[u] = "cut" \/ (link[u] # "up" /\ up[u] = <<>>)
    /\ active' = active \ {u}
    /\ pending' = ClearForUser(u)
    /\ lapsed' = lapsed \cup (Held(pending) \ Held(pending'))
    /\ UNCHANGED <<client, wires, asks, open, slipped, repeated, faults>>

(* The relay goes down with its tables and every connection, and is back.  *)
Restart ==
    /\ Fault
    /\ active' = {}
    /\ pending' = [t \in User |-> {}]
    /\ link' = [u \in User |-> IF Connected(u) THEN "broken" ELSE link[u]]
    /\ up' = [u \in User |-> <<>>]
    /\ lapsed' = lapsed \cup Held(pending)
    /\ open' = {}
    /\ UNCHANGED <<proc, incoming, answering, down, asks, slipped, repeated>>
-----------------------------------------------------------------------------
Shell(u) ==
    \/ \E t \in User : Connect(u, t)
    \/ \E r \in User : PopIncoming(u, r) \/ SendAnswer(u, r)

Loop(u) == Receive(u) \/ Notice(u) \/ Reconnect(u)

Process(u) == Login(u) \/ Install(u) \/ \E i \in 0..Len(up[u]) : Exit(u, i)

Handle(u) ==
    \E t \in User : HandleRequest(u, t) \/ HandleAnswer(u, t)

Environment(u) ==
    \/ \E i \in 0..Len(up[u]), j \in 0..Len(down[u]) : Lose(u, i, j)
    \/ Limited(u) \/ Displace(u)

Next ==
    \/ \E u \in User : \/ Shell(u) \/ Loop(u) \/ Process(u)
                       \/ Handle(u) \/ Cleanup(u) \/ Environment(u)
    \/ Restart

Spec == Init /\ [][Next]_vars

(* The loop thread takes the frames that arrive, and the relay reads and   *)
(* serves every connection.  Nobody has to log in, to ask or to answer.    *)
Fairness ==
    \A u \in User : /\ WF_vars(Receive(u))
                    /\ WF_vars(Handle(u) \/ Limited(u))

FairSpec == Spec /\ Fairness
-----------------------------------------------------------------------------
(* Properties.                                                             *)

(* Some frame of s is f.                                                    *)
In(f, s) == \E i \in 1..Len(s) : s[i] = f

Answered(r, t) == r \in answering[t] \/ In(Answer(r), up[t])

(* A request the relay holds for a user whose connection is registered is  *)
(* in front of that user or about to be, or the answer is on its way: no   *)
(* request is overwritten by another (connection_state.py:9-12), dropped   *)
(* by accept and deny or forgotten over a reconnection.  The exceptions    *)
(* are the requests that slipped: dispatched before the callbacks are      *)
(* installed, kept by the relay from a connection it did not clean up      *)
(* after, or answered with a frame the rate limiter refused.               *)
HeldIsShown ==
    \A r, t \in User :
        r \in pending[t] /\ link[t] = "up" =>
            \/ r \in incoming[t] \/ In(Request(r), down[t]) \/ Answered(r, t)
            \/ <<r, t>> \in slipped

(* A request a user is shown, or about to be, can be answered: the relay   *)
(* still holds it.  The exceptions: the relay forgot it with a connection, *)
(* with a restart or with a repetition that failed, or it was made twice   *)
(* before it was answered, which is shown twice if the answer crosses the  *)
(* repetition, although the first answer uses both up (sessions.py:64-72). *)
ShownIsHeld ==
    \A r, t \in User :
        r \in incoming[t] \/ In(Request(r), down[t]) =>
            r \in pending[t] \/ <<r, t>> \in lapsed \cup repeated

(* Who asks or answers over a working connection is not met with silence   *)
(* (relay.py:298-299): the frame arrives, its sender hears that it did not, *)
(* or it went down with a connection, the receiver's or the sender's own.  *)
(* Only a sender who is cut off may wait in vain.                          *)
EveryMatterEnds ==
    \A p \in {x \in Pairs : maxAsks[x] > 0} :
        \A m \in {<<"request", p[1], p[2]>>, <<"answer", p[2], p[1]>>} :
            (m \in open) ~> (m \notin open \/ link[m[2]] = "cut")
-----------------------------------------------------------------------------
(* What makes ShownIsHeld inductive: the client and the wires keep at most *)
(* one trace of a request, and only of one the relay holds.                *)
Once(f, s) == \A i, j \in 1..Len(s) : s[i] = f /\ s[j] = f => i = j

Traced(r, t) ==
    r \in incoming[t] \/ In(Request(r), down[t]) \/ Answered(r, t)

OneTrace ==
    \A r, t \in User : <<r, t>> \notin lapsed \cup repeated =>
        /\ Traced(r, t) => r \in pending[t]
        /\ r \in incoming[t] => ~In(Request(r), down[t])
        /\ Answered(r, t) => r \notin incoming[t] /\ ~In(Request(r), down[t])
        /\ r \in answering[t] => ~In(Answer(r), up[t])
        /\ Once(Request(r), down[t]) /\ Once(Answer(r), up[t])

(* ... and a shell answers one request at a time.                          *)
Shells ==
    \A u \in User :
        /\ proc[u] = "off" => incoming[u] = {} /\ answering[u] = {}
        /\ \A r, q \in answering[u] : r = q
=============================================================================
