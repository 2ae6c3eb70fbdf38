# NightChat in TLA+

NightChat is a terminal chat with end-to-end encryption: a relay
(`src/server`) that knows accounts, published identity keys and who is
online, and a client (`src/client`) that logs in, asks other users for a
session, negotiates its keys in a signed handshake and sends encrypted lines
through the relay. This directory models the parts of it that keep state and
run concurrently, checks them with TLC on small instances and proves the main
results with TLAPS for every value of the constants.

`PROJECT.json` is the machine-readable side of this file: components, runs,
mutants (for every property a plausible bug that breaks it), the map from
definitions to source lines, hazards, findings and theorems.

## 1. Inventory

| part | state | operations | interacts with |
|---|---|---|---|
| websocket relay: `server/relay.py`, `presence.py`, `sessions.py` | `active` (user -> socket), `_pending` (target -> requesters), `_handshake_sessions`; a suspended task per connection | authenticate, register/replace, connect_request, connect_response, route, session_end, failed send, token expiry, `finally` block | every client's link; sends to sockets of other users' tasks |
| accounts and keys: `server/main.py`, `models.py`, `auth.py`, `deps.py`, `validation.py` | tables: password hash, public key | exists, register, login, GET/PUT public-key | login flow of the client |
| login flow and identity: `client/authentication.py`, `crypto_identity.py`, `identity_store.py`, `uninstall.py` | key file per typed name and machine, identity in memory | register or login, load or generate, save, compare, publish; uninstall | REST side of the relay, then the link |
| client link: `client/relay_client.py` | `_ws`, `connected`, `_stop`, `_connected_evt`; loop thread and shell thread | connect_ws, authenticate, pump, back off and reconnect, close | websocket relay; callbacks of `client/main.py` |
| handshake manager: `client/handshake.py`, `shared/handshake.py` | `_sessions` of pending handshakes, a timer thread each | initiate, handle init/response/confirm, blocking key fetch, time out | link (frames), REST (keys of peers), table of sessions |
| chat: `client/chat.py`, `aead.py`, `active_sessions.py`, `shared/messaging.py` | table peer -> SessionState with two counters and two keys | store, drop, take, encrypt, decrypt | shell thread and loop thread share the table |
| shell and callbacks: `client/main.py`, `commands.py`, `connection_state.py`, `chat_state.py`, `presence.py` | queue of incoming requests (the name of the outgoing one is written and never read) | connect, accept, deny, chat, close; callbacks | all client parts |
| rate limiter: `server/ratelimit.py` | a deque of moments per key: address (REST) or user (websocket) | allow | relay and REST handlers |
| schemas, wire format, crypto wrappers, configuration, logging, terminal, `client/identity.py` | none that lasts or decides anything | conversions, I/O | |

What is hard in it, and the property that makes each part right:

* **Relay.** A single thread, but every `await` hands it to another task: a
  connection is replaced while its old task is still in its `finally` block, a
  send to a dying socket removes somebody else's entry, two registrations of a
  user overlap, and a string that cannot be encoded makes the send to a working
  socket raise. Right means: tables stay consistent, a socket that is open and
  served is the registered one of its user (with two named exceptions),
  sessions reach only their parties, clients are told of ended sessions, dead
  sockets go.
* **Handshake.** Timer threads fire while a handler is blocked in an HTTP
  request; frames are lost, late or read twice; the entry found after the
  request may not be the one seen before it, or the request raises. Right means:
  both ends get the same keys or one gets none, and every handshake is reported.
* **Chat.** The shell takes a session out of the table and encrypts later,
  while the loop thread replaces or drops it; a line may raise after its counter
  was taken. Right means: nonces never repeat, lines are shown in order and once.
* **Link.** Two threads share fields without a lock; the loop thread reconnects
  a bounded number of times; `close()` may come at any moment; callbacks are
  registered late, and one that raises may end the loop thread. Right means:
  nobody is left with a wrong idea of the connection (with two named exceptions),
  no session survives a reconnection, the thread ends.
* **Login.** A login takes four requests and two file operations, each of which
  may fail, be answered and the answer lost, or be overtaken by another device
  of the same user; two registrations may both find a name free. Right means:
  passwords and keys stay with their owner, peers find the key a client holds,
  the user is not locked out.
* **Requests, end to end.** A request is kept twice, by the relay and by the
  client that is asked, with two wires in between; either may be forgotten while
  the other is not: a connection breaks, a process ends, the relay restarts, the
  shell has taken the request out and cannot send the answer. Right means: the
  relay holds what the user is shown and the other way round, and nobody who
  asks or answers over a working connection is met with silence.
* **Sessions, end to end.** A session is known to the relay and to a table at
  either end, and a handshake between the ends decides when the latter begins.
  Right means: nobody keeps a dead session without being told, and a live one
  is held at both ends or at neither.
* **Rate limiter.** REST handlers run in a pool of threads and share a deque
  without a lock. Right means: the limit is kept where calls cannot overlap, and
  where they can what is admitted beyond it is accounted for and nobody is refused
  for good.

## 2. Modules

| module | models | abstract side |
|---|---|---|
| `Relay` | websocket relay | `Rendezvous`: who asked whom, which sessions are live, in four operations |
| `Handshake` | both managers of every session, frames, timers, key fetch | `Agreement`: one decided pair of keys per session, adopted at most once |
| `Chat` | table of sessions, counters, frames, what is shown | `Channel`: what is shown is an ordered part of what was written |
| `Link` | loop and shell thread of one client | |
| `Accounts` | tables of the relay, key files, logins, uninstaller | |
| `Limiter` | `allow()` for one key, by several threads | |
| `Requests` | connect, accept, deny: shells, queues of the clients, wires, pending table of the relay | composes the requests of `Relay` with the ups and downs of `Link` and the shell |
| `Sessions` | accept, handshake, end: tables of both ends, wires, relay | composes the sessions of `Relay`, the frames of `Handshake`, the table of `Chat` and reconnection; `Negotiation`: one message per session, which goes through eight hops or is lost, and each end takes the session up once, from its own hop |

`MCx` gives module `x` its small instances, `xProofs` holds its theorems.
`ImplementsRendezvous`, `ImplementsAgreement`, `ImplementsChannel` and
`ImplementsNegotiation` state the refinements, with `INSTANCE ... WITH` mappings
where names differ (in `Sessions` the message of a session is found where the
wires have it: `Hop`).

The first six look at one component each, at every point where another thread or
task can run. `Requests` and `Sessions` compose them from end to end. There a
handler is one step (what its awaits allow is in `Relay` and `Handshake`), and
the steps between are those of the network and of the processes: frames travel
in order on two wires per client, a connection breaks and loses what was sent
last, a client ends and is started again, the relay restarts, the rate limiter
refuses a frame. Registration is the moment `replace()` writes the entry:
between `auth_result` and that moment it awaits `old.close()`, the relay reads
nothing of the new connection and writes nothing to it, so what the client does
meanwhile may as well come after. What else those awaits allow, that a
connection which works loses its entry to an overlapping registration or to a
send that raises, is the action `Displace`; the connection is then `cut`: the
relay reads it and does not write to it. A client that is `ready` in `Accounts`
calls `ConnectWs` in `Link`, which is `Login` in `Requests`; `Establish` in
`Link` and a decided key in `Handshake` are `Store` in `Chat` and `Sessions`;
`OnReconnected` in `Link` is `Drop` in `Chat` and `Connect` in `Sessions`.

### How actions correspond to code

* **Relay.** `pc[c]` is the `await` at which the task of connection `c` is
  suspended; an action is the code from one `await` to the next.
  `Register`/`CloseOld`/`TakeOver` are `replace()` around `await old.close()`;
  `ConnectRequest`, `AcceptRequest`, `DenyRequest`, `Route` run to the `send_to`
  they await, `Sent`/`SendFailed` are the rest; `Finally`, `Farewell`, `Offline`
  are the `finally` block, entered by `Cleanup` when the socket is down and by
  `Breaks` when a frame raises what the loop does not catch. `send_to` drops the
  entry of the receiver whatever was raised (`DropEntry`): messages of the
  relay's own wording fail on a socket that is down (`DropFailed`), those that
  repeat a string of the sender's on any socket (`DropGarbled` in `Route`,
  `EchoGarbled` for an answer to the sender). `link` is what the environment
  does to a socket: `lost` is a peer that vanished before the server noticed. A
  send after which the task does nothing but go on (error replies, presence,
  SESSION_END) is one step, taken when it returns. Refusals that only answer the
  sender share `JustReply`: it does everything such a refusal does to state,
  which is nothing but the await.
* **Handshake.** A `_PendingHandshake` is known by the key pair made for it.
  `Fetch` blocks the handler; `AcceptResponse`, `AcceptConfirm` and `Fail` are
  what follows, on the entry found before. `Expire` and `OnTimeout` are the
  timer thread before and after it gets the lock. `FetchRaises` is an exception
  out of the key fetch: the handler is left, the handshake stays pending until its
  timer. `sent` only grows: a frame
  never delivered is lost, one delivered late is overtaken, one delivered twice
  is repeated. Malformed messages, an unavailable key, a signature that does
  not verify and a degenerate secret all end in `_fail`, so they are `Fail`.
* **Chat.** `TakeSession` and `EncryptOutgoing` are the two halves of a line
  in `_cmd_chat`, with the loop thread's `Store` and `Drop` in between.
  `EncryptFails` is whatever raises after the increment: `plaintext.encode` for
  a line that cannot be encoded, `counter.to_bytes(8)` at the end of the
  counter. A send that fails is a frame nobody reads.
* **Link.** `loop` is the await of the loop thread (`dial`, `auth`, `closing`,
  `serve`, `backoff`), `shell` the place of the shell thread. `attempt` 0 is
  the first connection, which is not retried. `PumpRaises` is an exception in a
  callback of `_dispatch`, which ends the pump with the socket open;
  `OnDisconnectedRaises` and `OnReconnectedRaises` are exceptions nothing
  catches, after which the loop thread is gone (`crashed`).
* **Accounts.** `pc` is the place in `login()`. A request is one step on the
  tables, except registration: `RegisterCheck` is the SELECT, `RegisterCommit` the
  INSERT that the primary key lets succeed once. `RegisterCommit` and `Publish`
  may be carried out and their answer lost;
  `Refused` is every other way a request fails. `LoadNothing` is a plaintext
  store that finds an empty file; on `Protected` machines (DPAPI) such a file is
  as good as none. `Save` may crash between the
  truncation and the write. A client has a name as it was typed (`typed`, the
  key file and what it signs) and a user the relay makes of it (`user`);
  `Caseless` machines are those whose file system takes `Alice` for `alice`.
  `Uninstall` removes any of the key files of a machine, at any time: all of
  them, or those before the one that could not be removed.
* **Limiter.** `pc` is the place in `allow()`; a step is one operation on the
  deque (`q` as a condition, `q[0]`, `popleft`, `len`, `append`), each atomic
  in CPython. `Tick` is the clock. The websocket calls of one event loop
  never overlap; `overlapped` says whether any two have. `log` is every call
  admitted, `forgotten` how many entries `popleft` has taken, `taken` those of
  them that had not expired. Deployed limiters:
  `server/main.py:70-72` per address, `server/relay.py:58-63` per user.
* **Requests.** `Connect`, `PopIncoming` and `SendAnswer` are the shell
  (accepting and denying are both an answer; what an acceptance starts is in
  `Sessions`), `Receive`, `Notice`, `Reconnect` the loop thread. `proc` is
  `deaf` between `connect_ws` and the assignments of `run()`: frames of that
  time are dropped. `HandleRequest` and `HandleAnswer` are the handlers of the
  relay with the send they await and its failure; a send to a connection
  nobody reads any more may fail or succeed, and a failed one removes the
  receiver's socket without the cleanup of the `finally` block, which is
  `Cleanup`. One that fails on a connection that works is `Displace`.
* **Sessions.** `Accept` to `OnConfirm` are a session's way to both tables:
  accepted, granted by the relay, init, response, confirm. `OnResponse` and
  `OnConfirm` may fail (key not available, signature wrong) or find that the
  handshake timed out. `Cleanup` is the synchronous part of the `finally`
  block, `Tell` each SESSION_END after it, with anything in between.
  `Connect` is a reconnection or, after `Exit`, the next process.

### Abstractions

Outside `Accounts` user names are the normalized ones every table is keyed by.
Signatures are what
they cover and who made them, ciphertexts what they contain, passwords are
compared as such, tokens are the fact that a client has logged in. The list of
pending requests of a target is a set (its order is only that of a queue at the
client). The content of user lists and presence frames is left out: the client
only prints it. A rate limiter is a refusal that may come at any time. A
database request is one transaction, registration a query and one.

## 3. Runs

Each finishes within three minutes with two workers.

| run | instance | shows |
|---|---|---|
| `relay_reconnect` | alice with two connections, bob with one; any two may go down, one send fails on a working socket; 3.1 million states | `Bookkeeping`: the tables and every suspended task agree. `ServedIsRegistered`: a socket that is open and served is the registered one of its user, or is `cut`. `OrphansOnlyFromStrays`: requests and sessions of absent users have one cause only, an entry removed behind its task's back. `NobodyLeftInTheDark`: a SESSION_END that is due is on its way |
| `relay_three` | three users, one connection each, one goes down, one send fails on a working socket; 1.7 million states | `OnlyPartiesHear` (a third user is needed) and `ImplementsRendezvous` |
| `relay_live` | two users, one connection each, fair; 91,000 states | `DeadSocketForgotten`, `EndedSessionIsTold` |
| `handshake` | two users, two crossed sessions, four key pairs, fair; 224,000 states | `Accounted`, `Consistent`, `ImplementsAgreement`, `NoHandshakeHangs` |
| `chat` | two users, two sessions, counters up to 2, any line may raise; 2.8 million states | `NonceUsedOnce`, `InStep`, `ImplementsChannel` |
| `link` | three sockets, two attempts per loss, fair; 16,400 states | `UserKnows`, `FreshSessions`, `Orderly`, `LossResolved`, `LoopEnds` |
| `accounts` | five logins: as alice at home and at work, as Alice at home and (with a wrong password) at work, as bob at home, where file names are caseless; four key pairs; uninstallations; work protects its key files, home does not; 607,000 states | `InByPassword`: of registrations that both found the name free one counts, and whoever is in goes by its password. `KeysOfOwner`, `ReadyIsFindable`, `NotLockedOut` |
| `requests` | alice asks carol twice, bob once; two faults, a refused frame or a displaced connection among them; fair; 582,000 states | `HeldIsShown`: a request the relay holds for a user whose connection is registered is shown, about to be, or being answered. `ShownIsHeld`: one that is shown can be answered. `EveryMatterEnds`: a request or an answer arrives, is refused with a word, or goes down with a connection |
| `sessions` | alice and bob, two sessions that alice has asked for; two faults; 270,000 states | `DeadIsTold`: a client whose connection is registered and that holds a session the relay has ended has its SESSION_END coming, and nothing of a handshake after it. `HeldTogether`: a live session held at one end is held at the other, or another live one is, or its confirm is on the way. `OneSessionUnlessCrossed`: and it is the same one. `ImplementsNegotiation`: whatever breaks, a session goes from hop to hop, and no end takes it up before its turn or a second time |
| `limiter` | three threads, two calls in a window, five admitted; 3.7 million states | `LimitKept`: without overlap no window has more than `max_events`, a refusal is due and nothing raises. `Races`: however calls overlap, of those admitted in a window fewer than `max_events` and one per thread are left when those are not counted whose entry a stale `popleft` took before it expired (`OverByThreads`); of these there are at most two for every entry that did expire, one for each other thread (`TakenForExpired`); and a refusal has a recent admission as its cause |

The exceptions in these properties are part of what they say, and each is a
thing the code does. An open, served socket of the relay is not the registered
one (`cut`) if a message to it could not be encoded, or if a registration of the
same user that had begun earlier wrote its entry later. The latter takes two
registrations that overlap and a third connection that both find registered,
three of one user; the instances have two, and only the proof covers it. A
request the relay holds is not shown (`slipped`) if it was dispatched before
`run()` set its callbacks, if the relay kept it from a connection whose
`finally` block found another socket or none, or if its answer met the rate
limiter. One that is shown is not held (`lapsed`, `repeated`) if the relay
forgot it with a connection or a restart, if the same user asked again and
*that* send failed (it takes back both), or if it was repeated while being
answered. A live session is held at one end only if its confirm was lost,
refused or not accepted (`unconfirmed`; the initiator establishes before it
sends it, and nobody calls `send_session_end`), or if one end reconnected before
the relay had noticed (`forgotten`). Who asks from a `cut` connection may wait
in vain: the relay carries the request out and has nowhere to say so. What a
user was told does not agree with `connected` if the loss came before the
callbacks (`missed`) or if one of them ended the loop thread (`crashed`). A
client does not hold the published key if another first publication replaced it
(`raced`), and the private half of a published key is gone only if a key was
written over it or removed (`clobbered`): these two state that nothing else does
such harm, and do not catch the races they name. A limit is exceeded, or `q[0]`
raises `IndexError` and the request is answered with 500, only when calls
overlap; and with them it can be exceeded by one per thread or more, because a
stale `popleft` frees a place that is not free (`taken`).

Two runs show a disagreement between the code and what the repository says of
it (details and quotations in `findings`):

| run | violated | what happens |
|---|---|---|
| `relay_session_outlives` | `SessionDiesWithConnection` | a replaced connection does not end its sessions; the reconnected client has dropped them, the peer is not told |
| `sessions_crossed` | `OneSessionPerPair` | two users ask and accept each other; with no fault at all, the two handshakes end in different orders at the two ends, each keeps the session it stored last, and every line is discarded. `OneSessionUnlessCrossed` is what holds of the sessions of one initiator |

Divergences without a run of their own; the proved properties say what
still holds:

* A failed send removes an entry, and the `finally` block of that user then skips
  its cleanup: requests stay pending for ever, although
  `server/sessions.py:13-14` says they are cleaned when either side
  disconnects (`OrphansOnlyFromStrays`: this is the only way).
* Overlapping registrations leave an open, served socket that is not the
  registered one (`server/presence.py:36-37` says the old one is closed;
  `Bookkeeping` holds, and `ServedIsRegistered` names the case).
* `send_to` takes any exception for a dead connection and drops the entry of a
  socket that works: half a surrogate pair in a payload, a `type` or a `to` is
  enough, and its user is offline while its connection is open
  (`server/presence.py:14-22` guards the entry of a working socket against its
  predecessor's cleanup only; `ServedIsRegistered` names the case).
* "nunca deixar uma mensagem derrubar a conexão" (`server/relay.py:189`) covers
  what `_handle_message` raises; a binary frame, or JSON nested deeply enough for
  `json.loads` to raise `RecursionError`, ends the connection all the same
  (`Breaks`; it is cleaned up like any other).
* A timer that fires during the key fetch reports a handshake as failed, which is
  then established (`client/handshake.py:27-28`: "abortado e removido";
  `Accounted`).
* A repeated `init` begins a second handshake once the first is over
  (`client/handshake.py:21-23` says it is discarded; `ImplementsAgreement`: the
  responder establishes at most one of them).
* Two devices that log in for the first time together both publish, and the
  second key replaces the first (`client/authentication.py:172-176`: a different
  key is not silently overwritten; `ReadyIsFindable` names it `raced`).
* A user who types capitals cannot publish a key (`authentication.py:203` signs
  the typed name, `server/main.py` verifies the normalized one), and on a
  caseless file system gets in with the key of the other spelling and then
  signs handshakes nobody can verify (`ReadyIsFindable`).
* The limiter is called a fixed window; it is a sliding log, which `LimitKept`
  uses: no stretch of `window_seconds`, wherever it begins, has too many calls.

### Bounds, and why they are enough

* `Conn`: the races of the relay are between the old and the new connection of
  one user and a peer's task; routing needs a third user.
* `SessionId = {s1}`: sessions share nothing but the tables they are keys of;
  what goes wrong needs one of them, requested again after it ended being
  covered by `pending`. `MaxPending = 1` reaches the limit with one request.
* `MaxDown`: the environment takes no further connection down when that many are
  no longer open. In `relay_reconnect` two of three, so that alice's second
  connection or bob's may die after her first one has died or been replaced; in
  `relay_live` both, in `relay_three` one. `MaxGarbled = 1`: strings that cannot
  be encoded stop once one socket is `cut`; a second one is another user's,
  whose entry is as independent of it as of a broken connection's.
* Handshake `Key`: two per session are one full exchange each; four shared by
  two sessions also allow repeated inits (up to three handshakes) in one
  session while the other waits.
* `CounterLimit = 2`: two lines per end and session, enough for overtaking and
  repetition, and the third overflows. It stands for 2^64 - 1. A line may raise
  at any count.
* `Sock`, `MaxAttempts`: three sockets are a first connection and two more, two
  attempts the first and the last one; a further dial can only fail.
* `Client`: two on one machine race for its key file, one on another machine
  for the published key, one types the name differently where that matters and
  one where it does not, one shares the machine and not the user.
* `maxAsks`: two requests of one user are a request and its repetition (or one
  after the answer), the third comes from somebody else. `MaxFaults = 2`:
  two of broken connections, ended processes, displaced connections, refused
  frames and restarts; a break may cut the wires anywhere.
* Two sessions of the same two users are the least with which sessions meet in
  one table. In `sessions` alice asks for both, one after the other or at once;
  that is what `OneSessionUnlessCrossed` is about. In `sessions_crossed` each
  user asks for one. The proofs cover both, and any number. `MaxFaults = 2` lets
  both ends go down, or one of them and the relay, each in the middle of what
  the other left undone; the proofs are for any number.
* `Thread`, `max_events`, `MaxAdmitted`: with three threads two can overtake the
  third; two events and five admissions fill the window twice over and empty it
  again within `MaxClock = 3`.

Symmetry is used in safety runs only, over values the instance does not tell
apart.

### Fairness

* Relay: weak fairness of each task, because asyncio resumes a task whose await
  has ended; strong fairness of `Cleanup`, because a task with a dead socket may
  first read a finite number of buffered frames. Nothing is assumed of clients.
* Handshake: timer threads run. Nothing is assumed of the network, nor that the
  key server ever answers.
* Link: every await of the loop thread has a timeout or ends by itself, the
  shell goes on through `close()`. The relay need not answer and nobody need type
  `/exit`.
* Requests: the loop thread takes frames that have arrived, and the relay reads
  what it was sent and serves or refuses it. Nobody need log in, ask, answer or
  reconnect.
* Sessions, Limiter, Accounts, Chat: safety only, no fairness.

`CHECK_DEADLOCK FALSE` is set everywhere: connections, key pairs and sockets are
used once, and a program that has ended takes no step.

## 4. Proofs

Every theorem holds for any finite or infinite sets and any bounds. The
assumptions are only that the "none" values are not members of the sets, that
the two parties of a session differ, that nobody asks himself for a session
(`_cmd_connect` refuses it), that a normalized name is its own normal form, that
limits and counters are positive and that a pool has finitely many threads.

* `RelayProofs`. The invariant is `TypeOK /\ Bookkeeping` with the safety
  invariants on top. None of these is inductive alone: that an orphan has a
  stray as its cause needs to know that a task past registration has its user's
  entry unless that user strayed (`TasksRegistered`), which needs entries to
  name their own users (`EntriesNamed`); the refinement needs both parties to be
  minted in one step. One lemma per group of actions; `ServedTheorem` holds for
  any number of connections of a user and so for any overlap of registrations,
  `RefinementTheorem` maps every step to an operation of `Rendezvous` or to a
  stutter.
* `HandshakeProofs`. `Consistent /\ Accounted`: agreement follows from what a
  frame says of its sender (`FramesHonest`) and from the fact that the key pair
  a handler works on can still be established by nobody else
  (`HandlersOwned`), which holds across the blocking fetch although the entry may
  be gone. `AgreementTheorem` is the refinement.
* `ChatProofs`. `InStep`: of two frames of one sender in one session the one
  with the higher counter has the later line, no frame is ahead of the counter or
  of what was written, and what was shown came in a frame not above the last
  counter accepted. The counter may be ahead of the lines, since what raises has
  used it up. Nonce uniqueness and the refinement follow.
* `LinkProofs`. `Orderly`: `connected` holds exactly while a connection is
  served, until `close()` begins or a callback ends the loop thread; nothing is
  told or secured before the callbacks are there; attempts count from the first
  loss.
* `AccountsProofs`. `Entitled`: a client past the password check knows the
  password (`InByPassword`, a part of it), and one past `load_or_create` holds a
  key of its user that is in its file unless one was overwritten or removed.
  `InPlace`, on top of it: a private key is only found on the machine, and under
  the file name, it was made for; with it the spelling of a client that is
  through is known.
* `RequestsProofs`. `HeldIsShown` is proved with `TypeOK` and `Shells` (a shell
  answers one request at a time; a process that is off shows none).
  `ShownIsHeld` is not inductive: that an answer uses up the request nobody shows
  any more needs `OneTrace`, which says that a request not repeated or forgotten
  leaves one trace at most in queue, shell and wires, so that popping it at the
  relay leaves nothing behind.
* `SessionsProofs`. `DeadIsTold` with `Registered` (a working connection is the
  one in the table), `Drained` (a client reconnects only after it has read
  what had arrived) and `Fresh` (a process without callbacks has no session).
  Its second half, that nothing of a handshake follows a SESSION_END,
  is what keeps the first from being undone by a late response.
  `HeldTogether` does not need them. Its invariant is about the wires (`Static`):
  a frame is only on the wire its kind belongs on, an entry is held by a party
  under the name of the other, `accept` is sent once, of a session the relay has
  not granted there is no other trace, a live session has no SESSION_END, and
  what a handshake completes after the end of its session comes before a younger
  session of the same two is held (`Order`). `Together` says where the confirm of
  a session held at one end is. `ReplacedByLiveTheorem` is an action property on
  top of `Static`: no live entry is overwritten by a dead one.
  The refinement rests on `OneMessage` (a session has one message on all four
  wires together) and `OnceEach` (and has it there once): they are why `Hop` is
  the place of *the* message, and why taking it off a wire leaves nothing behind.
  `EstablishedInOrder` and `EstablishedOnce` follow from the same steps: the
  responder holds a session only at the end of its way, and one that was given
  up does not come back. They hold because a websocket neither repeats nor
  overtakes; what a handler does with a frame that comes twice is in `Handshake`.
  `OneSessionTheorem` needs `Latest`: the confirm of the session the initiator
  holds is behind that of any other session of the two on either wire, and is
  still to come wherever the responder holds another. `Drained` comes in again,
  for a connection that begins with frames of the old one would break that order.
* `LimiterProofs`. `LimitKept` rests on `Serial`: without overlap one thread is
  in `allow()` (`Alone`), the log is sorted (`Sorted`), what was dropped has
  expired (`Gone`), and what the thread saw still holds (`StillSo`). The deque is
  the tail of the log with or without overlap (`Left`). The three parts of
  `Races` hold however calls overlap: `OverByThreads` needs `Left` and
  `RoomForAll`, that the entries in the deque and the threads about to append
  are fewer than the limit and one per thread; `TakenForExpired` needs `Expiry`
  and `Owed`, which charge every entry taken too early to one that expired
  and to a thread that had seen it (`Astray`); `RefusedForCause` needs
  `Clocked` and `LooksForCause`.

Only model-checked: the liveness properties (`DeadSocketForgotten`,
`EndedSessionIsTold`, `NoHandshakeHangs`, `LossResolved`, `LoopEnds`,
`EveryMatterEnds`), since liveness under fairness is out of the prover's reach.
Every invariant and action property of a passing run is proved. The type
invariants of `Limiter` and `Sessions` are proved and not run.

## 5. Not modelled, and why

* `_send`'s return value: the models let a send succeed, fail or be lost after
  it was reported as done, which covers both. `request_users`, presence frames
  and user lists: output only (a list may be five seconds old, and the client
  ignores the presence frames themselves).
* `HandshakeManager.abort`, `send_session_end` and the outgoing name of
  `connection_state`: nothing calls or reads them. `Relay` has the handler of
  `session_end` all the same.
* The order of the queue of requests: the user may name any of them.
* Limits per process: the limiter forgets everything at a restart, and
  several worker processes would each have their own (`server/ratelimit.py:8-13`);
  the deployed relay has one.
* The program files the uninstaller removes; the length and character checks of
  `validation.py` and the schemas, which refuse a request before it changes
  anything; wire format, crypto wrappers, configuration, logging, terminal.
* `client/identity.py`: a random identifier kept in a file, which nothing reads
  again.
* The database session: one transaction per request, as `Accounts` has it.

## 6. Plan

Done: relay, handshake, chat, link, accounts, limiter, and the compositions
`Requests` and `Sessions`, each with its proofs, in this order (first what
users lose most by, then what the parts promise each other).

Left, in this order:

1. `Sessions` with the three messages of `Handshake` replaced by its
   actions, so that late timers and blocked fetches meet reconnections.
2. Abstract specifications of `Accounts` (a directory: one owner and one key per
   user) and of `Requests` (a request is made, shown, answered or lost).
