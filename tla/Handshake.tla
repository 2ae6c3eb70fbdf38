----------------------------- MODULE Handshake ------------------------------
(***************************************************************************)
(* client/handshake.py: the two HandshakeManagers of every session, what   *)
(* they send each other, and their timers.                                 *)
(*                                                                         *)
(* Two kinds of thread meet in a manager.  The event loop of RelayClient   *)
(* delivers messages one after the other and blocks in fetch_public_key    *)
(* (an HTTP request) in the middle of _handle_response and _handle_confirm; *)
(* meanwhile the threading.Timer of any pending handshake may run          *)
(* _on_timeout.  Every stretch of code between the two is one action.      *)
(*                                                                         *)
(* The relay only routes a session between its two parties, so that the    *)
(* peer of a handshake and the sender of a message follow from the session *)
(* (server/relay.py, module Relay).  Frames are lost, overtaken or read    *)
(* again, which is what client/handshake.py:18-25 sets out to survive.     *)
(***************************************************************************)
CONSTANTS User,       \* clients, each with one HandshakeManager
          Session,    \* session ids minted by the relay
          initiator,  \* initiator[s]: who asked for s
          responder,  \* responder[s]: who accepted
          Key,        \* X25519 key pairs generate_ephemeral_keypair may return
          NoKey, NoSession, NoFrame

ASSUME PartiesAssumption ==
    /\ initiator \in [Session -> User] /\ responder \in [Session -> User]
    /\ \A s \in Session : initiator[s] # responder[s]
ASSUME NoneAssumption == NoKey \notin Key /\ NoSession \notin Session

(* A _PendingHandshake is known by the key pair it was made with: session, *)
(* role, peerKey (peer_eph_public) and timer are its fields.               *)
VARIABLES
    session, role, peerKey, timer,
    pending,    \* pending[u][s]: entry s of the dict _sessions of u
    verifying,  \* handshake whose handler waits in fetch_public_key
    frame,      \* the message that handler is working on
    sent,       \* all frames ever sent
    established, \* established[k]: peer key on_established was called with
    failed      \* handshakes on_failed was called for

fields == <<session, role, peerKey>>
vars   == <<fields, timer, pending, verifying, frame, sent, established, failed>>

(* The bytes both parties sign (shared/handshake.py, transcript); the user *)
(* names follow from the session.                                          *)
Transcript == Session \X Key \X Key
transcript(s, i, r) == <<s, i, r>>

(* The frames of shared/handshake.py; a signature is what it is over, its  *)
(* signer being the sender.                                                *)
InitFrame == [kind : {"init"}, session : Session, eph : Key]
Response  == [kind : {"response"}, session : Session, eph : Key, over : Transcript]
Confirm   == [kind : {"confirm"}, session : Session, over : Transcript]
Frames    == InitFrame \cup Response \cup Confirm

TypeOK ==
    /\ session \in [Key -> Session \cup {NoSession}]
    /\ role \in [Key -> {"initiator", "responder", "none"}]
    /\ peerKey \in [Key -> Key \cup {NoKey}]
    /\ timer \in [Key -> {"off", "armed", "cancelled", "fired", "over"}]
    /\ pending \in [User -> [Session -> Key \cup {NoKey}]]
    /\ verifying \in [User -> Key \cup {NoKey}]
    /\ frame \in [User -> Frames \cup {NoFrame}]
    /\ sent \in SUBSET Frames
    /\ established \in [Key -> Key \cup {NoKey}]
    /\ failed \in SUBSET Key

Init ==
    /\ session = [k \in Key |-> NoSession]
    /\ role = [k \in Key |-> "none"]
    /\ peerKey = [k \in Key |-> NoKey]
    /\ timer = [k \in Key |-> "off"]
    /\ pending = [u \in User |-> [s \in Session |-> NoKey]]
    /\ verifying = [u \in User |-> NoKey]
    /\ frame = [u \in User |-> NoFrame]
    /\ sent = {}
    /\ established = [k \in Key |-> NoKey]
    /\ failed = {}
-----------------------------------------------------------------------------
(* The user a handshake belongs to.                                        *)
Owner(k) == IF role[k] = "initiator" THEN initiator[session[k]]
                                     ELSE responder[session[k]]

(* The event loop of u is not inside a handler.                            *)
Idle(u) == verifying[u] = NoKey

(* Variant: the timer of a handshake is never started.                     *)
BeginUntimed(u, s, k, r, p) ==
    /\ session[k] = NoSession
    /\ session' = [session EXCEPT ![k] = s]
    /\ role' = [role EXCEPT ![k] = r]
    /\ peerKey' = [peerKey EXCEPT ![k] = p]
    /\ pending' = [pending EXCEPT ![u][s] = k]
    /\ UNCHANGED timer

(* A new _PendingHandshake with a fresh key k becomes entry s of _sessions, *)
(* and its timer is started.                                               *)
Begin(u, s, k, r, p) ==
    /\ session[k] = NoSession
    /\ session' = [session EXCEPT ![k] = s]
    /\ role' = [role EXCEPT ![k] = r]
    /\ peerKey' = [peerKey EXCEPT ![k] = p]
    /\ pending' = [pending EXCEPT ![u][s] = k]
    /\ timer' = [timer EXCEPT ![k] = "armed"]

(* Whatever handshake entry s holds is popped.                             *)
Pop(u, s) == pending' = [pending EXCEPT ![u][s] = NoKey]

(* Timer.cancel: too late once the wait is over.                           *)
Cancel(k) == timer' = [timer EXCEPT ![k] = IF @ = "armed" THEN "cancelled" ELSE @]

(* initiate: the connect_response with the freshly minted s has arrived;   *)
(* the relay sends it once.                                                *)
Initiate(s, k) ==
    /\ Idle(initiator[s])
    /\ \A j \in Key : session[j] = s => role[j] # "initiator"
    /\ Begin(initiator[s], s, k, "initiator", NoKey)
    /\ sent' = sent \cup {[kind |-> "init", session |-> s, eph |-> k]}
    /\ UNCHANGED <<verifying, frame, established, failed>>

(* _handle_init: dropped while s is pending; otherwise answered at once.   *)
HandleInit(m, k) ==
    LET s == m.session
        u == responder[s]
    IN  /\ m.kind = "init"
        /\ Idle(u)
        /\ pending[u][s] = NoKey
        /\ Begin(u, s, k, "responder", m.eph)
        /\ sent' = sent \cup {[kind |-> "response", session |-> s, eph |-> k,
                               over |-> transcript(s, m.eph, k)]}
        /\ UNCHANGED <<verifying, frame, established, failed>>

(* The common start of _handle_response and _handle_confirm: s is pending  *)
(* in role r; the handler blocks in fetch_public_key.                      *)
Fetch(u, m, r) ==
    /\ Idle(u)
    /\ pending[u][m.session] # NoKey
    /\ role[pending[u][m.session]] = r
    /\ verifying' = [verifying EXCEPT ![u] = pending[u][m.session]]
    /\ frame' = [frame EXCEPT ![u] = m]
    /\ UNCHANGED <<fields, timer, pending, sent, established, failed>>

HandleResponse(m) == m.kind = "response" /\ Fetch(initiator[m.session], m, "initiator")
HandleConfirm(m)  == m.kind = "confirm" /\ Fetch(responder[m.session], m, "responder")

(* The handler of u is done with its handshake, reported or not.           *)
Return(u) ==
    /\ verifying' = [verifying EXCEPT ![u] = NoKey]
    /\ frame' = [frame EXCEPT ![u] = NoFrame]

(* _fail: no key could be fetched, the signature does not verify, or the   *)
(* message or the shared secret is unusable.                               *)
Fail(u) ==
    /\ verifying[u] # NoKey
    /\ Pop(u, session[verifying[u]])
    /\ Cancel(verifying[u])
    /\ failed' = failed \cup {verifying[u]}
    /\ Return(u)
    /\ UNCHANGED <<fields, sent, established>>

(* fetch_public_key raises (an answer that does not come in time or is no  *)
(* JSON, a key that is not base64): the handler is left, which ends the    *)
(* pump and the connection (module Link), and the handshake stays pending  *)
(* until its timer is over.                                                *)
FetchRaises(u) ==
    /\ verifying[u] # NoKey
    /\ Return(u)
    /\ UNCHANGED <<fields, timer, pending, sent, established, failed>>

(* Variants of _finish: the entry stays; any signature will do.            *)
FinishInPlace(u, p) ==
    /\ UNCHANGED pending
    /\ Cancel(verifying[u])
    /\ established' = [established EXCEPT ![verifying[u]] = p]
    /\ Return(u)
    /\ UNCHANGED <<fields, failed>>

(* _finish: cancels the timer, pops the entry if it is still there, and    *)
(* hands over the session keys derived with the peer's key p.              *)
Finish(u, p) ==
    /\ Pop(u, session[verifying[u]])
    /\ Cancel(verifying[u])
    /\ established' = [established EXCEPT ![verifying[u]] = p]
    /\ Return(u)
    /\ UNCHANGED <<fields, failed>>

(* The rest of _handle_response: the signature covers this very handshake. *)
AcceptResponse(u) ==
    LET k == verifying[u]
        m == frame[u]
    IN  /\ k # NoKey
        /\ role[k] = "initiator"
        /\ m.over = transcript(m.session, k, m.eph)
        /\ sent' = sent \cup {[kind |-> "confirm", session |-> m.session,
                               over |-> transcript(m.session, k, m.eph)]}
        /\ Finish(u, m.eph)

(* Variant: the confirm is taken at its word.                              *)
AcceptAnyConfirm(u) ==
    /\ verifying[u] # NoKey
    /\ role[verifying[u]] = "responder"
    /\ Finish(u, peerKey[verifying[u]])
    /\ UNCHANGED sent

(* The rest of _handle_confirm.                                            *)
AcceptConfirm(u) ==
    LET k == verifying[u]
        m == frame[u]
    IN  /\ k # NoKey
        /\ role[k] = "responder"
        /\ m.over = transcript(m.session, peerKey[k], k)
        /\ Finish(u, peerKey[k])
        /\ UNCHANGED sent

(* The wait of the timer of k is over; its thread goes for the lock.       *)
Expire(k) ==
    /\ timer[k] = "armed"
    /\ timer' = [timer EXCEPT ![k] = "fired"]
    /\ UNCHANGED <<fields, pending, verifying, frame, sent, established, failed>>

(* Variant: whatever was popped is reported, even if nothing was.          *)
OnTimeoutUnchecked(k) ==
    /\ timer[k] = "fired"
    /\ timer' = [timer EXCEPT ![k] = "over"]
    /\ Pop(Owner(k), session[k])
    /\ failed' = failed \cup {pending[Owner(k)][session[k]]}
    /\ UNCHANGED <<fields, verifying, frame, sent, established>>

(* _on_timeout knows the session id only: it pops whatever is pending      *)
(* under it by then, and reports that.                                     *)
OnTimeout(k) ==
    /\ timer[k] = "fired"
    /\ timer' = [timer EXCEPT ![k] = "over"]
    /\ Pop(Owner(k), session[k])
    /\ failed' = failed \cup ({pending[Owner(k)][session[k]]} \ {NoKey})
    /\ UNCHANGED <<fields, verifying, frame, sent, established>>
-----------------------------------------------------------------------------
Deliver ==
    \E m \in sent : \/ HandleResponse(m)
                    \/ HandleConfirm(m)
                    \/ \E k \in Key : HandleInit(m, k)

Next ==
    \/ \E s \in Session, k \in Key : Initiate(s, k)
    \/ Deliver
    \/ \E u \in User :
          Fail(u) \/ FetchRaises(u) \/ AcceptResponse(u) \/ AcceptConfirm(u)
    \/ \E k \in Key : Expire(k) \/ OnTimeout(k)

Spec == Init /\ [][Next]_vars

(* Timer threads run; nothing is assumed of the network, nor of an answer  *)
(* to fetch_public_key.                                                    *)
Fairness == \A k \in Key : WF_vars(Expire(k)) /\ WF_vars(OnTimeout(k))

FairSpec == Spec /\ Fairness
-----------------------------------------------------------------------------
(* Properties.                                                             *)

Reported(k) == established[k] # NoKey \/ k \in failed

(* Every handshake ever begun is either pending or has been reported to    *)
(* the application, and one that has been reported is pending no more: none *)
(* is lost between the handlers, the timers and a repeated init.           *)
Accounted ==
    \A k \in Key : session[k] # NoSession =>
        (pending[Owner(k)][session[k]] = k <=> ~Reported(k))

(* The two managers of a session agree on its keys (STS: each signature is *)
(* over both ephemeral keys), whatever is lost, late or repeated.          *)
PairsAt(s, r) == {p \in Key \X Key : /\ session[p[1]] = s /\ role[p[1]] = r
                                     /\ established[p[1]] = p[2]}

Decided == [s \in Session |-> PairsAt(s, "initiator")]
Adopted == [s \in Session |-> {p \in Key \X Key : <<p[2], p[1]>> \in PairsAt(s, "responder")}]

A == INSTANCE Agreement WITH decided <- Decided, adopted <- Adopted

ImplementsAgreement == A!ASpec

(* No handshake hangs: the application hears of every one of them, even if *)
(* fetch_public_key raises or never returns (one timer per pending one).   *)
NoHandshakeHangs == \A k \in Key : session[k] # NoSession ~> Reported(k)
-----------------------------------------------------------------------------
(* What holds handshakes, handlers and frames together; makes the above    *)
(* inductive.                                                              *)

(* A key is either unused, or one party's part in one session; the one who *)
(* asked for the session takes part once.                                  *)
KeysUsed ==
    /\ \A k \in Key : /\ session[k] = NoSession <=> role[k] = "none"
                      /\ role[k] = "none" => /\ established[k] = NoKey /\ k \notin failed
                                             /\ timer[k] = "off"
                      /\ role[k] = "responder" => peerKey[k] # NoKey
    /\ \A j, k \in Key :
           (role[j] = "initiator" /\ role[k] = "initiator" /\ session[j] = session[k])
               => j = k

(* What is pending under s is a handshake of s, waiting on its own timer.  *)
PendingOwned ==
    \A u \in User, s \in Session :
        LET k == pending[u][s]
        IN  k # NoKey => /\ session[k] = s /\ Owner(k) = u
                         /\ timer[k] \in {"armed", "fired"}

(* A handler works for its own client, on a frame of the right session and *)
(* kind, on a handshake it alone can still establish.                      *)
HandlersOwned ==
    \A u \in User :
        LET k == verifying[u]
            m == frame[u]
        IN  k # NoKey =>
                /\ session[k] # NoSession /\ Owner(k) = u /\ established[k] = NoKey
                /\ m \in sent /\ m.session = session[k]
                /\ m.kind = IF role[k] = "initiator" THEN "response" ELSE "confirm"
                /\ pending[u][session[k]] \in {k, NoKey}

(* What a frame says of its sender.                                        *)
FramesHonest ==
    \A m \in sent :
        /\ m.kind = "response" =>
               /\ session[m.eph] = m.session /\ role[m.eph] = "responder"
               /\ m.over = <<m.session, peerKey[m.eph], m.eph>>
        /\ m.kind = "confirm" =>
               LET i == m.over[2]
               IN  /\ session[i] = m.session /\ role[i] = "initiator"
                   /\ m.over = <<m.session, i, established[i]>>
                   /\ established[i] # NoKey

(* The peer's key of an established session belongs to the other role of   *)
(* that session, and a responder's session is also the initiator's.        *)
PeersAgree ==
    \A k \in Key : established[k] # NoKey =>
        LET p == established[k]
        IN  /\ session[p] = session[k]
            /\ role[k] = "initiator" => role[p] = "responder"
            /\ role[k] = "responder" => role[p] = "initiator" /\ established[p] = k

Consistent == /\ KeysUsed
              /\ PendingOwned
              /\ HandlersOwned
              /\ FramesHonest
              /\ PeersAgree
=============================================================================
