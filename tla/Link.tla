-------------------------------- MODULE Link --------------------------------
(***************************************************************************)
(* client/relay_client.py: the connection of one client to the relay, from *)
(* connect_ws to close, with what client/main.py hangs on it.              *)
(*                                                                         *)
(* Two threads.  The loop thread runs _main: it connects, authenticates,   *)
(* serves until the connection is lost and tries again a limited number of *)
(* times; `loop' names the await it is suspended at.  The shell thread     *)
(* logs in, registers the callbacks, works, and closes; it reads and       *)
(* writes the fields of the loop thread without a lock.                    *)
(***************************************************************************)
EXTENDS Naturals

CONSTANTS Sock,         \* websockets, each used once (bounds the connections)
          MaxAttempts,  \* reconnect_max_attempts
          NoSock

ASSUME SockAssumption == NoSock \notin Sock
ASSUME AttemptsAssumption == MaxAttempts \in Nat \ {0}

VARIABLES
    loop,       \* where the loop thread is
    attempt,    \* attempt of _reconnect_with_backoff; 0: the first connection
    ws,         \* _ws
    sock,       \* down: the relay or the network; closed: by this client
    connected,
    tried,      \* _connected_evt
    stop,       \* _stop
    shell,      \* where the shell thread is
    hooked,     \* the callbacks of client/main.py are registered
    told,       \* what was last said about the connection: to the user, or,
                \*   before there were callbacks, to nobody ("missed")
    secured     \* sockets over which the sessions in active_sessions were
                \*   negotiated

conn == <<ws, sock>>
user == <<told, secured>>
vars == <<loop, attempt, conn, connected, tried, stop, shell, hooked, user>>

TypeOK ==
    /\ loop \in {"off", "dial", "auth", "serve", "closing", "backoff", "done",
                 "crashed"}
    /\ attempt \in 0..MaxAttempts
    /\ ws \in Sock \cup {NoSock}
    /\ sock \in [Sock -> {"unused", "open", "down", "closed"}]
    /\ connected \in BOOLEAN /\ tried \in BOOLEAN /\ stop \in BOOLEAN
    /\ shell \in {"login", "waiting", "refused", "ready", "closing", "joining",
                  "gone"}
    /\ hooked \in BOOLEAN
    /\ told \in {"nothing", "missed", "lost", "restored", "gaveUp"}
    /\ secured \in SUBSET Sock

Init ==
    /\ loop = "off" /\ attempt = 0
    /\ ws = NoSock /\ sock = [s \in Sock |-> "unused"]
    /\ connected = FALSE /\ tried = FALSE /\ stop = FALSE
    /\ shell = "login" /\ hooked = FALSE
    /\ told = "nothing" /\ secured = {}

Tell(what) == told' = IF hooked THEN what ELSE "missed"
-----------------------------------------------------------------------------
(* The loop thread: _connect_and_auth.                                     *)

(* Variants: one attempt too many; attempts that are not counted.          *)
FailedLate ==
    IF attempt = 0
    THEN loop' = "done" /\ tried' = TRUE /\ UNCHANGED <<attempt, told>>
    ELSE /\ UNCHANGED tried
         /\ IF attempt <= MaxAttempts
            THEN loop' = "backoff" /\ attempt' = attempt + 1 /\ UNCHANGED told
            ELSE loop' = "done" /\ Tell("gaveUp") /\ UNCHANGED attempt

FailedUncounted ==
    IF attempt = 0
    THEN loop' = "done" /\ tried' = TRUE /\ UNCHANGED <<attempt, told>>
    ELSE loop' = "backoff" /\ UNCHANGED <<attempt, told, tried>>

(* It returns False.  The first connection is not retried; a reconnection  *)
(* is, until its attempts are used up.                                     *)
Failed ==
    IF attempt = 0
    THEN loop' = "done" /\ tried' = TRUE /\ UNCHANGED <<attempt, told>>
    ELSE /\ UNCHANGED tried
         /\ IF attempt < MaxAttempts
            THEN loop' = "backoff" /\ attempt' = attempt + 1 /\ UNCHANGED told
            ELSE loop' = "done" /\ Tell("gaveUp") /\ UNCHANGED attempt

DialFails ==
    /\ loop = "dial"
    /\ Failed
    /\ UNCHANGED <<conn, connected, stop, shell, hooked, secured>>

(* _ws is replaced and the auth message goes out before the next await.    *)
DialOk(s) ==
    /\ loop = "dial"
    /\ sock[s] = "unused"
    /\ ws' = s
    /\ sock' = [sock EXCEPT ![s] = "open"]
    /\ loop' = "auth"
    /\ UNCHANGED <<attempt, connected, tried, stop, shell, hooked, user>>

(* No answer, a closed socket or a refusal (say, an expired token): _ws is *)
(* closed first.                                                           *)
AuthFails ==
    /\ loop = "auth"
    /\ sock' = [sock EXCEPT ![ws] = "closed"]
    /\ loop' = "closing"
    /\ UNCHANGED <<attempt, ws, connected, tried, stop, shell, hooked, user>>

CloseDone ==
    /\ loop = "closing"
    /\ Failed
    /\ UNCHANGED <<conn, connected, stop, shell, hooked, secured>>

(* Variant: sessions survive a reconnection.                               *)
OnReconnectedKeeping == Tell("restored") /\ UNCHANGED secured

(* _on_reconnected, once it is registered, drops every session.            *)
OnReconnected ==
    /\ Tell("restored")
    /\ secured' = IF hooked THEN {} ELSE secured

(* Variant: _main does not look at _stop after a reconnection.             *)
AuthOkDeaf ==
    /\ loop = "auth"
    /\ sock[ws] = "open"
    /\ connected' = TRUE
    /\ loop' = "serve"
    /\ IF attempt = 0 THEN tried' = TRUE /\ UNCHANGED user
                      ELSE OnReconnected /\ UNCHANGED tried
    /\ UNCHANGED <<attempt, conn, stop, shell, hooked>>

(* auth_result(ok): _main looks at _stop and serves.                       *)
AuthOk ==
    /\ loop = "auth"
    /\ sock[ws] = "open"
    /\ connected' = TRUE
    /\ loop' = IF stop THEN "done" ELSE "serve"
    /\ IF attempt = 0 THEN tried' = TRUE /\ UNCHANGED user
                      ELSE OnReconnected /\ UNCHANGED tried
    /\ UNCHANGED <<attempt, conn, stop, shell, hooked>>
-----------------------------------------------------------------------------
(* The loop thread: _main.                                                 *)

(* A handshake completes over the connection being served.                 *)
Establish ==
    /\ loop = "serve"
    /\ hooked
    /\ secured' = secured \cup {ws}
    /\ UNCHANGED <<loop, attempt, conn, connected, tried, stop, shell, hooked, told>>

(* Variant: `connected' stays as it is.                                    *)
LostSilently ==
    /\ loop = "serve"
    /\ IF stop THEN loop' = "done" /\ UNCHANGED <<attempt, connected, told>>
               ELSE /\ loop' = "backoff" /\ attempt' = 1
                    /\ UNCHANGED connected
                    /\ Tell("lost")
    /\ UNCHANGED <<conn, tried, stop, shell, hooked, secured>>

(* _pump_until_closed returns: a regular end when close() asked for it, a  *)
(* loss otherwise.                                                         *)
Lost ==
    /\ loop = "serve"
    /\ IF stop THEN loop' = "done" /\ UNCHANGED <<attempt, connected, told>>
               ELSE /\ loop' = "backoff" /\ attempt' = 1
                    /\ connected' = FALSE
                    /\ Tell("lost")
    /\ UNCHANGED <<conn, tried, stop, shell, hooked, secured>>

PumpEnds == ws # NoSock /\ sock[ws] # "open" /\ Lost

(* A callback raised in _dispatch: the socket itself stays open.           *)
PumpRaises == hooked /\ Lost

(* A callback of client/main.py raises in _main (they write to a terminal, *)
(* which may be gone, and name peers it may be unable to show): nothing    *)
(* catches it there, and the loop thread ends where it was.                *)
Crashes == hooked /\ loop' = "crashed" /\ UNCHANGED told

OnDisconnectedRaises ==
    /\ \/ loop = "serve" /\ ~stop /\ connected' = FALSE
       \/ /\ \/ loop \in {"dial", "closing"} /\ attempt = MaxAttempts
             \/ loop = "backoff" /\ stop
          /\ UNCHANGED connected
    /\ Crashes
    /\ UNCHANGED <<attempt, conn, tried, stop, shell, hooked, secured>>

(* _on_reconnected may have dropped the sessions by then or not.           *)
OnReconnectedRaises ==
    /\ loop = "auth" /\ attempt # 0
    /\ sock[ws] = "open"
    /\ connected' = TRUE
    /\ secured' \in {secured, {}}
    /\ Crashes
    /\ UNCHANGED <<attempt, conn, tried, stop, shell, hooked>>

(* The delay of an attempt is over.                                        *)
WakeUp ==
    /\ loop = "backoff"
    /\ IF stop THEN loop' = "done" /\ Tell("gaveUp")
               ELSE loop' = "dial" /\ UNCHANGED told
    /\ UNCHANGED <<attempt, conn, connected, tried, stop, shell, hooked, secured>>
-----------------------------------------------------------------------------
(* The relay or the network.                                               *)
GoDown(s) ==
    /\ sock[s] = "open"
    /\ sock' = [sock EXCEPT ![s] = "down"]
    /\ UNCHANGED <<loop, attempt, ws, connected, tried, stop, shell, hooked, user>>
-----------------------------------------------------------------------------
(* The shell thread.                                                       *)

ShellGoes(from, to) == shell = from /\ shell' = to

(* connect_ws starts the loop thread ...                                   *)
ConnectWs ==
    /\ ShellGoes("login", "waiting")
    /\ loop' = "dial"
    /\ UNCHANGED <<attempt, conn, connected, tried, stop, hooked, user>>

(* ... and waits for the first attempt; it goes by `connected' as it finds *)
(* it then.                                                                *)
ConnectReturns ==
    /\ tried
    /\ ShellGoes("waiting", IF connected THEN "ready" ELSE "refused")
    /\ UNCHANGED <<loop, attempt, conn, connected, tried, stop, hooked, user>>

ConnectTimesOut ==
    /\ ~tried
    /\ ShellGoes("waiting", "refused")
    /\ UNCHANGED <<loop, attempt, conn, connected, tried, stop, hooked, user>>

(* run() registers the callbacks after login() has connected.              *)
Hook ==
    /\ shell = "ready" /\ ~hooked
    /\ hooked' = TRUE
    /\ UNCHANGED <<loop, attempt, conn, connected, tried, stop, shell, user>>

Close ==
    /\ hooked
    /\ ShellGoes("ready", "closing")
    /\ stop' = TRUE
    /\ UNCHANGED <<loop, attempt, conn, connected, tried, hooked, user>>

Ended == loop \in {"done", "crashed"}

(* close() closes whatever _ws is by now, unless the loop has ended.       *)
CloseSocket ==
    /\ ShellGoes("closing", "joining")
    /\ sock' = IF ~Ended /\ ws # NoSock /\ sock[ws] = "open"
               THEN [sock EXCEPT ![ws] = "closed"] ELSE sock
    /\ UNCHANGED <<loop, attempt, ws, connected, tried, stop, hooked, user>>

(* join returns when the loop thread has ended, or after five seconds.     *)
Joined ==
    /\ ShellGoes("joining", "gone")
    /\ connected' = FALSE
    /\ UNCHANGED <<loop, attempt, conn, tried, stop, hooked, user>>
-----------------------------------------------------------------------------
Loop ==
    \/ DialFails \/ \E s \in Sock : DialOk(s)
    \/ AuthFails \/ AuthOk \/ CloseDone
    \/ PumpEnds \/ WakeUp

Shell ==
    \/ ConnectReturns \/ ConnectTimesOut \/ Hook
    \/ CloseSocket \/ Joined

Next ==
    \/ Loop \/ Shell
    \/ ConnectWs \/ Close \/ Establish \/ PumpRaises
    \/ OnDisconnectedRaises \/ OnReconnectedRaises
    \/ \E s \in Sock : GoDown(s)

Spec == Init /\ [][Next]_vars

(* Every await of _connect_and_auth has a timeout of ten seconds, a sleep  *)
(* ends, a closed socket ends the pump; the shell goes through close().    *)
(* Nobody has to type /exit, and the relay need not ever answer.           *)
Fairness == WF_vars(Loop) /\ WF_vars(Shell)

FairSpec == Spec /\ Fairness
-----------------------------------------------------------------------------
(* Properties.                                                             *)

(* What the user was last told agrees with `connected', by which every     *)
(* command decides whether it may send, until close() has begun.  Two      *)
(* things leave it open: a loss nobody heard of (run() registers the       *)
(* callbacks late), and a callback that ended the loop thread.             *)
UserKnows ==
    (hooked /\ ~stop /\ told # "missed" /\ loop # "crashed") =>
        (connected <=> told \in {"nothing", "restored"})

(* While a connection is served, no session negotiated over an earlier one *)
(* is in use (_on_reconnected).                                            *)
FreshSessions == loop = "serve" => secured \subseteq {ws}

(* A lost connection is restored or given up, and the user is told which,  *)
(* even if the relay never comes back (bounded retries), unless a callback *)
(* ended the loop thread.                                                  *)
LossResolved == told = "lost" ~> told \in {"restored", "gaveUp"} \/ loop = "crashed"

(* After close() the loop thread ends, wherever it was.                    *)
LoopEnds == stop ~> Ended
-----------------------------------------------------------------------------
(* What the two threads may rely on, and what makes the above inductive.   *)

(* `connected' holds exactly while a connection is served, until close()   *)
(* or a crash of the loop thread.                                          *)
ConnectedWhileServed ==
    /\ loop \in {"auth", "serve", "closing"} => ws # NoSock
    /\ ~stop /\ loop # "crashed" => (connected <=> loop = "serve")

(* The first connection is tried before anything else happens.             *)
FirstThingsFirst ==
    /\ shell = "login" => loop = "off" /\ ~tried
    /\ hooked \/ shell = "ready" => tried
    /\ stop => hooked
    /\ ~tried => attempt = 0 /\ loop # "serve"
    /\ (tried /\ attempt = 0) => loop = "serve" \/ Ended

(* Before there are callbacks, nobody is told and no session is made; a    *)
(* login that went well and was told of no loss is connected.              *)
NothingUnhooked ==
    /\ ~hooked => told \in {"nothing", "missed"} /\ secured = {}
    /\ (shell = "ready" /\ told = "nothing" /\ loop # "crashed") => connected
    /\ hooked => shell \in {"ready", "closing", "joining", "gone"}
    /\ stop <=> shell \in {"closing", "joining", "gone"}

Orderly == /\ ConnectedWhileServed
           /\ FirstThingsFirst
           /\ NothingUnhooked
=============================================================================
