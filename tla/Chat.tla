-------------------------------- MODULE Chat --------------------------------
(***************************************************************************)
(* Encrypted chat between two clients: client/chat.py and client/aead.py   *)
(* over the table of client/active_sessions.py, with the callbacks of      *)
(* client/main.py and the loop of client/commands.py (_cmd_chat) that use  *)
(* them.                                                                   *)
(*                                                                         *)
(* Two threads of a client meet in the table: the shell encrypts lines     *)
(* with a SessionState it took out before, the event loop of RelayClient   *)
(* stores and drops SessionStates and decrypts.  A SessionState stands for *)
(* its pair of keys: the handshake establishes at most one per client and  *)
(* session, with the same keys on either side (module Handshake), so that  *)
(* a ciphertext decrypts under the session it was made in and no other.    *)
(* Frames are lost, overtaken or read again.                               *)
(***************************************************************************)
EXTENDS Integers, Sequences

CONSTANTS User,          \* the two ends
          Session,       \* sessions negotiated between them
          CounterLimit,  \* greatest counter of a frame: 2^64 - 1, to_bytes(8)
          NoSession

ASSUME EndsAssumption == \A u \in User : \E p \in User : p # u /\ User = {u, p}
ASSUME NoneAssumption == NoSession \notin Session
ASSUME CounterAssumption == CounterLimit \in Nat

VARIABLES
    active,       \* active[u]: entry of u's _by_peer for the other end
    stored,       \* stored[u]: sessions ever put there
    drafting,     \* drafting[u]: SessionState the shell of u is about to use
    sendCounter,  \* counters of u's SessionState of a session
    recvCounter,
    frames        \* every frame ever sent

(* History: what was written and what was shown.                           *)
VARIABLES
    written,      \* written[u][s]: lines of u encrypted in s
    shown         \* shown[u][s]: lines of the peer displayed, in order

registry == <<active, stored, drafting>>
vars == <<registry, sendCounter, recvCounter, frames, written, shown>>

(* A frame, its plaintext being line number `line' of its sender in that   *)
(* session.  Session and sender are in the envelope and in the AAD.        *)
Frame == [from : User, session : Session, counter : Nat, line : Nat]

TypeOK ==
    /\ active \in [User -> Session \cup {NoSession}]
    /\ stored \in [User -> SUBSET Session]
    /\ drafting \in [User -> Session \cup {NoSession}]
    /\ sendCounter \in [User -> [Session -> Nat]]
    /\ recvCounter \in [User -> [Session -> Nat \cup {-1}]]
    /\ frames \in SUBSET Frame
    /\ written \in [User -> [Session -> Nat]]
    /\ shown \in [User -> [Session -> Seq(Nat)]]

Init ==
    /\ active = [u \in User |-> NoSession]
    /\ stored = [u \in User |-> {}]
    /\ drafting = [u \in User |-> NoSession]
    /\ sendCounter = [u \in User |-> [s \in Session |-> 0]]
    /\ recvCounter = [u \in User |-> [s \in Session |-> -1]]
    /\ frames = {}
    /\ written = [u \in User |-> [s \in Session |-> 0]]
    /\ shown = [u \in User |-> [s \in Session |-> <<>>]]
-----------------------------------------------------------------------------
(* The event loop: the table of established sessions.                      *)

(* Variant: sessions with one peer are kept side by side.                  *)
StoreBeside(u, s) ==
    /\ s \notin stored[u]
    /\ active' = [active EXCEPT ![u] = stored[u] \cup {s}]
    /\ stored' = [stored EXCEPT ![u] = @ \cup {s}]
    /\ UNCHANGED <<drafting, sendCounter, recvCounter, frames, written, shown>>

(* _on_handshake_established: a new session replaces one still in use.     *)
Store(u, s) ==
    /\ s \notin stored[u]
    /\ active' = [active EXCEPT ![u] = s]
    /\ stored' = [stored EXCEPT ![u] = @ \cup {s}]
    /\ UNCHANGED <<drafting, sendCounter, recvCounter, frames, written, shown>>

(* _on_session_end for the session in use; _on_reconnected drops all.      *)
Drop(u) ==
    /\ active[u] # NoSession
    /\ active' = [active EXCEPT ![u] = NoSession]
    /\ UNCHANGED <<stored, drafting, sendCounter, recvCounter, frames, written, shown>>
-----------------------------------------------------------------------------
(* The shell: _cmd_chat takes the session for the line just read ...       *)
TakeSession(u) ==
    /\ drafting[u] = NoSession
    /\ active[u] # NoSession
    /\ drafting' = [drafting EXCEPT ![u] = active[u]]
    /\ UNCHANGED <<active, stored, sendCounter, recvCounter, frames, written, shown>>

Emit(u, s, n) ==
    frames' = frames \cup {[from |-> u, session |-> s, counter |-> n,
                            line |-> written'[u][s]]}

(* Variant: the counter goes up only for the next line, after a send that  *)
(* went well.                                                              *)
EncryptAgain(u) ==
    LET s == drafting[u]
        n == sendCounter[u][s] + 1
    IN  /\ s # NoSession /\ n <= CounterLimit
        /\ sendCounter' \in {[sendCounter EXCEPT ![u][s] = n], sendCounter}
        /\ written' = [written EXCEPT ![u][s] = @ + 1]
        /\ Emit(u, s, n)
        /\ drafting' = [drafting EXCEPT ![u] = NoSession]
        /\ UNCHANGED <<active, stored, recvCounter, shown>>

(* ... and encrypts it, whatever has become of the table meanwhile: the    *)
(* counter goes up first and stays there if the send fails.                *)
EncryptOutgoing(u) ==
    LET s == drafting[u]
        n == sendCounter[u][s] + 1
    IN  /\ s # NoSession /\ n <= CounterLimit
        /\ sendCounter' = [sendCounter EXCEPT ![u][s] = n]
        /\ written' = [written EXCEPT ![u][s] = @ + 1]
        /\ Emit(u, s, n)
        /\ drafting' = [drafting EXCEPT ![u] = NoSession]
        /\ UNCHANGED <<active, stored, recvCounter, shown>>

(* It raises with the counter one higher and nothing sent: the line cannot *)
(* be encoded (half a surrogate pair typed at the prompt), or the counter  *)
(* does not fit the eight bytes of message_aad any more.  Beyond the limit *)
(* the counter is kept as it is.                                           *)
EncryptFails(u) ==
    LET s == drafting[u]
    IN  /\ s # NoSession
        /\ sendCounter' = [sendCounter EXCEPT ![u][s] = IF @ > CounterLimit THEN @ ELSE @ + 1]
        /\ drafting' = [drafting EXCEPT ![u] = NoSession]
        /\ UNCHANGED <<active, stored, recvCounter, frames, written, shown>>
-----------------------------------------------------------------------------
(* Variant of decrypt_incoming: a repeated counter passes.                 *)
DecryptRepeated(u, f) ==
    /\ f.from # u
    /\ f.session = active[u]
    /\ f.counter >= recvCounter[u][f.session]
    /\ recvCounter' = [recvCounter EXCEPT ![u][f.session] = f.counter]
    /\ shown' = [shown EXCEPT ![u][f.session] = Append(@, f.line)]
    /\ UNCHANGED <<registry, sendCounter, frames, written>>

(* _on_encrypted_message and decrypt_incoming: a frame is discarded when   *)
(* there is no session with its sender, WrongSessionError when it is not   *)
(* the session in use, ReplayError when its counter is not above the last  *)
(* one accepted; otherwise it is shown and the counter moves up.           *)
DecryptIncoming(u, f) ==
    /\ f.from # u
    /\ f.session = active[u]
    /\ f.counter > recvCounter[u][f.session]
    /\ recvCounter' = [recvCounter EXCEPT ![u][f.session] = f.counter]
    /\ shown' = [shown EXCEPT ![u][f.session] = Append(@, f.line)]
    /\ UNCHANGED <<registry, sendCounter, frames, written>>
-----------------------------------------------------------------------------
Next ==
    \E u \in User :
        \/ \E s \in Session : Store(u, s)
        \/ Drop(u) \/ TakeSession(u) \/ EncryptOutgoing(u) \/ EncryptFails(u)
        \/ \E f \in frames : DecryptIncoming(u, f)

Spec == Init /\ [][Next]_vars
-----------------------------------------------------------------------------
(* Properties.                                                             *)

(* A key and a nonce are used for one plaintext only, however the shell    *)
(* and the event loop interleave and whichever lines or sends fail         *)
(* (aead.py: the nonce is the counter).                                    *)
NonceUsedOnce ==
    \A f, g \in frames :
        (f.from = g.from /\ f.session = g.session /\ f.counter = g.counter)
            => f.line = g.line

(* In every session each end sees a part of what the other one wrote, in   *)
(* order and without repetition.                                           *)
C == INSTANCE Channel

ImplementsChannel == C!ASpec
-----------------------------------------------------------------------------
(* Counters and lines run in step: both grow from frame to frame of one    *)
(* sender in one session, and what a reader was shown came in a frame not  *)
(* above its counter.  Makes the above inductive.                          *)
InStep ==
    /\ \A u \in User, s \in Session :
           /\ written[u][s] <= sendCounter[u][s]
           /\ sendCounter[u][s] <= CounterLimit + 1
    /\ \A f \in frames : /\ f.line \in 1..written[f.from][f.session]
                          /\ f.counter \in 1..sendCounter[f.from][f.session]
    /\ \A f, g \in frames :
           f.from = g.from /\ f.session = g.session =>
               (f.counter < g.counter <=> f.line < g.line)
    /\ \A u \in User, s \in Session :
           \A i \in DOMAIN shown[u][s] :
               \E f \in frames : /\ f.from # u /\ f.session = s
                                 /\ f.line = shown[u][s][i]
                                 /\ f.counter <= recvCounter[u][s]
=============================================================================
