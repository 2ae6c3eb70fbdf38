--------------------------- MODULE HandshakeProofs --------------------------
(* Proofs about Handshake, for any clients, sessions and keys.             *)
EXTENDS Handshake, TLAPS

(* Managers start with nothing pending.                                    *)
LEMMA InitType == Init => TypeOK
  BY DEF Init, TypeOK

(* A handshake that was begun belongs to a client.                         *)
LEMMA OwnerType ==
  ASSUME TypeOK, NEW k \in Key, session[k] # NoSession
  PROVE  Owner(k) \in User
  BY PartiesAssumption DEF TypeOK, Owner

(* Every stretch of a handler or a timer keeps the types; a handler that   *)
(* has come to a verdict works on a frame of its kind.                     *)
LEMMA TypeStep ==
  TypeOK /\ Consistent /\ [Next]_vars => TypeOK'
  <1> SUFFICES ASSUME TypeOK, Consistent, [Next]_vars
               PROVE  TypeOK'
    OBVIOUS
  <1> USE DEF TypeOK, fields
  <1>1. ASSUME NEW s \in Session, NEW k \in Key, Initiate(s, k)
        PROVE  TypeOK'
    <2>1. sent' \in SUBSET Frames
      BY <1>1 DEF Initiate, Frames, InitFrame
    <2>2. initiator[s] \in User
      BY PartiesAssumption
    <2> QED
      BY <1>1, <2>1, <2>2 DEF Initiate, Begin
  <1>2. ASSUME NEW m \in sent, NEW k \in Key, HandleInit(m, k)
        PROVE  TypeOK'
    <2>1. m.session \in Session /\ m.eph \in Key /\ responder[m.session] \in User
      BY <1>2, PartiesAssumption
      DEF HandleInit, Frames, InitFrame, Response, Confirm
    <2>2. sent' \in SUBSET Frames
      BY <1>2, <2>1 DEF HandleInit, Frames, Response, Transcript, transcript
    <2> QED
      BY <1>2, <2>1, <2>2 DEF HandleInit, Begin
  <1>3. ASSUME NEW m \in sent, HandleResponse(m)
        PROVE  TypeOK'
    <2>1. m.session \in Session /\ initiator[m.session] \in User
      BY PartiesAssumption DEF Frames, InitFrame, Response, Confirm
    <2> QED
      BY <1>3, <2>1 DEF HandleResponse, Fetch
  <1>4. ASSUME NEW m \in sent, HandleConfirm(m)
        PROVE  TypeOK'
    <2>1. m.session \in Session /\ responder[m.session] \in User
      BY PartiesAssumption DEF Frames, InitFrame, Response, Confirm
    <2> QED
      BY <1>4, <2>1 DEF HandleConfirm, Fetch
  <1>5. ASSUME NEW u \in User, Fail(u)
        PROVE  TypeOK'
    BY <1>5 DEF Fail, Pop, Cancel, Return
  <1>6. ASSUME NEW u \in User, AcceptResponse(u)
        PROVE  TypeOK'
    <2>1. frame[u] \in sent /\ frame[u].kind = "response"
      BY <1>6 DEF AcceptResponse, Consistent, HandlersOwned
    <2>2. frame[u] \in Response
      BY <2>1 DEF Frames, InitFrame, Confirm
    <2>3. sent' \in SUBSET Frames
      BY <1>6, <2>2 DEF AcceptResponse, Frames, Response, Confirm, Transcript, transcript
    <2> QED
      BY <1>6, <2>2, <2>3 DEF AcceptResponse, Finish, Pop, Cancel, Return, Response
  <1>7. ASSUME NEW u \in User, AcceptConfirm(u)
        PROVE  TypeOK'
    <2>1. peerKey[verifying[u]] \in Key
      BY <1>7 DEF AcceptConfirm, Consistent, KeysUsed
    <2> QED
      BY <1>7, <2>1 DEF AcceptConfirm, Finish, Pop, Cancel, Return
  <1>8. ASSUME NEW k \in Key, Expire(k)
        PROVE  TypeOK'
    BY <1>8 DEF Expire
  <1>9. ASSUME NEW k \in Key, OnTimeout(k)
        PROVE  TypeOK'
    <2>1. session[k] # NoSession
      BY <1>9 DEF OnTimeout, Consistent, KeysUsed
    <2>2. pending[Owner(k)][session[k]] \in Key \cup {NoKey}
      BY <2>1, OwnerType
    <2> QED
      BY <1>9, <2>2 DEF OnTimeout, Pop
  <1>11. ASSUME NEW u \in User, FetchRaises(u)
        PROVE  TypeOK'
    BY <1>11 DEF FetchRaises, Return
  <1>10. CASE UNCHANGED vars
    BY <1>10 DEF vars
  <1> QED
    BY <1>1, <1>2, <1>3, <1>4, <1>5, <1>6, <1>7, <1>8, <1>9, <1>10, <1>11
       DEF Next, Deliver

-----------------------------------------------------------------------------
(* Once begun, a handshake keeps its session, role and keys.               *)
Kept(k) == /\ session'[k] = session[k] /\ role'[k] = role[k]
           /\ peerKey'[k] = peerKey[k]
           /\ Owner(k)' = Owner(k)

(* Begin takes an unused key; nothing else writes the fields.              *)
LEMMA FieldsKept ==
  TypeOK /\ [Next]_vars => \A j \in Key : session[j] # NoSession => Kept(j)
  <1> SUFFICES ASSUME TypeOK, [Next]_vars
               PROVE  \A j \in Key : session[j] # NoSession => Kept(j)
    OBVIOUS
  <1> USE DEF TypeOK, fields, Kept
  <1>1. ASSUME NEW s \in Session, NEW k \in Key, Initiate(s, k)
        PROVE  \A j \in Key : session[j] # NoSession => Kept(j)
    BY <1>1 DEF Initiate, Begin, Owner
  <1>2. ASSUME NEW m \in sent, NEW k \in Key, HandleInit(m, k)
        PROVE  \A j \in Key : session[j] # NoSession => Kept(j)
    BY <1>2 DEF HandleInit, Begin, Owner
  <1>3. ASSUME NEW m \in sent, HandleResponse(m)
        PROVE  \A j \in Key : session[j] # NoSession => Kept(j)
    BY <1>3 DEF HandleResponse, Fetch, Owner
  <1>4. ASSUME NEW m \in sent, HandleConfirm(m)
        PROVE  \A j \in Key : session[j] # NoSession => Kept(j)
    BY <1>4 DEF HandleConfirm, Fetch, Owner
  <1>5. ASSUME NEW u \in User, Fail(u)
        PROVE  \A j \in Key : session[j] # NoSession => Kept(j)
    BY <1>5 DEF Fail, Pop, Cancel, Return, Owner
  <1>6. ASSUME NEW u \in User, AcceptResponse(u)
        PROVE  \A j \in Key : session[j] # NoSession => Kept(j)
    BY <1>6 DEF AcceptResponse, Finish, Pop, Cancel, Return, Owner
  <1>7. ASSUME NEW u \in User, AcceptConfirm(u)
        PROVE  \A j \in Key : session[j] # NoSession => Kept(j)
    BY <1>7 DEF AcceptConfirm, Finish, Pop, Cancel, Return, Owner
  <1>8. ASSUME NEW k \in Key, Expire(k)
        PROVE  \A j \in Key : session[j] # NoSession => Kept(j)
    BY <1>8 DEF Expire, Owner
  <1>9. ASSUME NEW k \in Key, OnTimeout(k)
        PROVE  \A j \in Key : session[j] # NoSession => Kept(j)
    BY <1>9 DEF OnTimeout, Pop, Owner
  <1>11. ASSUME NEW u \in User, FetchRaises(u)
        PROVE  \A j \in Key : session[j] # NoSession => Kept(j)
    BY <1>11 DEF FetchRaises, Return, Owner
  <1>10. CASE UNCHANGED vars
    BY <1>10 DEF vars, Owner
  <1> QED
    BY <1>1, <1>2, <1>3, <1>4, <1>5, <1>6, <1>7, <1>8, <1>9, <1>10, <1>11
       DEF Next, Deliver

(* An established session keeps its keys, and no frame is taken back.      *)
LEMMA EstablishedKept ==
  TypeOK /\ Consistent /\ [Next]_vars =>
    (\A j \in Key : established[j] # NoKey => established'[j] = established[j]) /\ sent \subseteq sent'
  <1> SUFFICES ASSUME TypeOK, Consistent, [Next]_vars
               PROVE  (\A j \in Key : established[j] # NoKey => established'[j] = established[j]) /\ sent \subseteq sent'
    OBVIOUS
  <1> USE DEF TypeOK, fields
  <1>1. ASSUME NEW s \in Session, NEW k \in Key, Initiate(s, k)
        PROVE  (\A j \in Key : established[j] # NoKey => established'[j] = established[j]) /\ sent \subseteq sent'
    BY <1>1 DEF Initiate, Begin
  <1>2. ASSUME NEW m \in sent, NEW k \in Key, HandleInit(m, k)
        PROVE  (\A j \in Key : established[j] # NoKey => established'[j] = established[j]) /\ sent \subseteq sent'
    BY <1>2 DEF HandleInit, Begin
  <1>3. ASSUME NEW m \in sent, HandleResponse(m)
        PROVE  (\A j \in Key : established[j] # NoKey => established'[j] = established[j]) /\ sent \subseteq sent'
    BY <1>3 DEF HandleResponse, Fetch
  <1>4. ASSUME NEW m \in sent, HandleConfirm(m)
        PROVE  (\A j \in Key : established[j] # NoKey => established'[j] = established[j]) /\ sent \subseteq sent'
    BY <1>4 DEF HandleConfirm, Fetch
  <1>5. ASSUME NEW u \in User, Fail(u)
        PROVE  (\A j \in Key : established[j] # NoKey => established'[j] = established[j]) /\ sent \subseteq sent'
    BY <1>5 DEF Fail, Pop, Cancel, Return
  <1>6. ASSUME NEW u \in User, AcceptResponse(u)
        PROVE  (\A j \in Key : established[j] # NoKey => established'[j] = established[j]) /\ sent \subseteq sent'
    BY <1>6 DEF AcceptResponse, Finish, Pop, Cancel, Return, Consistent, HandlersOwned
  <1>7. ASSUME NEW u \in User, AcceptConfirm(u)
        PROVE  (\A j \in Key : established[j] # NoKey => established'[j] = established[j]) /\ sent \subseteq sent'
    BY <1>7 DEF AcceptConfirm, Finish, Pop, Cancel, Return, Consistent, HandlersOwned
  <1>8. ASSUME NEW k \in Key, Expire(k)
        PROVE  (\A j \in Key : established[j] # NoKey => established'[j] = established[j]) /\ sent \subseteq sent'
    BY <1>8 DEF Expire
  <1>9. ASSUME NEW k \in Key, OnTimeout(k)
        PROVE  (\A j \in Key : established[j] # NoKey => established'[j] = established[j]) /\ sent \subseteq sent'
    BY <1>9 DEF OnTimeout, Pop
  <1>11. ASSUME NEW u \in User, FetchRaises(u)
        PROVE  (\A j \in Key : established[j] # NoKey => established'[j] = established[j]) /\ sent \subseteq sent'
    BY <1>11 DEF FetchRaises, Return
  <1>10. CASE UNCHANGED vars
    BY <1>10 DEF vars
  <1> QED
    BY <1>1, <1>2, <1>3, <1>4, <1>5, <1>6, <1>7, <1>8, <1>9, <1>10, <1>11
       DEF Next, Deliver

-----------------------------------------------------------------------------
(* Keys are used once, and a session is asked for by one handshake.        *)
LEMMA KeysStep ==
  TypeOK /\ Consistent /\ [Next]_vars => KeysUsed'
  <1> SUFFICES ASSUME TypeOK, Consistent, [Next]_vars
               PROVE  KeysUsed'
    OBVIOUS
  <1> USE DEF TypeOK, fields, Consistent
  <1>1. ASSUME NEW s \in Session, NEW k \in Key, Initiate(s, k)
        PROVE  KeysUsed'
    BY <1>1, NoneAssumption DEF Initiate, Begin, KeysUsed
  <1>2. ASSUME NEW m \in sent, NEW k \in Key, HandleInit(m, k)
        PROVE  KeysUsed'
    <2>1. m.eph \in Key /\ m.session \in Session
      BY <1>2 DEF HandleInit, Frames, InitFrame, Response, Confirm
    <2> QED
      BY <1>2, <2>1, NoneAssumption DEF HandleInit, Begin, KeysUsed
  <1>3. ASSUME NEW m \in sent, HandleResponse(m)
        PROVE  KeysUsed'
    BY <1>3 DEF HandleResponse, Fetch, KeysUsed
  <1>4. ASSUME NEW m \in sent, HandleConfirm(m)
        PROVE  KeysUsed'
    BY <1>4 DEF HandleConfirm, Fetch, KeysUsed
  <1>5. ASSUME NEW u \in User, Fail(u)
        PROVE  KeysUsed'
    <2>1. verifying[u] \in Key /\ session[verifying[u]] # NoSession
      BY <1>5 DEF Fail, HandlersOwned
    <2> QED
      BY <1>5, <2>1 DEF Fail, Pop, Cancel, Return, KeysUsed
  <1>6. ASSUME NEW u \in User, AcceptResponse(u)
        PROVE  KeysUsed'
    <2>1. verifying[u] \in Key /\ session[verifying[u]] # NoSession
      BY <1>6 DEF AcceptResponse, HandlersOwned
    <2> QED
      BY <1>6, <2>1 DEF AcceptResponse, Finish, Pop, Cancel, Return, KeysUsed
  <1>7. ASSUME NEW u \in User, AcceptConfirm(u)
        PROVE  KeysUsed'
    <2>1. verifying[u] \in Key /\ session[verifying[u]] # NoSession
      BY <1>7 DEF AcceptConfirm, HandlersOwned
    <2> QED
      BY <1>7, <2>1 DEF AcceptConfirm, Finish, Pop, Cancel, Return, KeysUsed
  <1>8. ASSUME NEW k \in Key, Expire(k)
        PROVE  KeysUsed'
    BY <1>8 DEF Expire, KeysUsed
  <1>9. ASSUME NEW k \in Key, OnTimeout(k)
        PROVE  KeysUsed'
    <2>1. session[k] # NoSession /\ Owner(k) \in User
      BY <1>9, OwnerType DEF OnTimeout, KeysUsed
    <2> DEFINE j == pending[Owner(k)][session[k]]
    <2>2. j # NoKey => j \in Key /\ session[j] # NoSession
      BY <2>1, NoneAssumption DEF PendingOwned
    <2>3. failed' = failed \cup ({j} \ {NoKey})
      BY <1>9 DEF OnTimeout
    <2> HIDE DEF j
    <2> QED
      BY <1>9, <2>1, <2>2, <2>3 DEF OnTimeout, Pop, KeysUsed
  <1>11. ASSUME NEW u \in User, FetchRaises(u)
        PROVE  KeysUsed'
    BY <1>11 DEF FetchRaises, Return, KeysUsed
  <1>10. CASE UNCHANGED vars
    BY <1>10 DEF vars, KeysUsed
  <1> QED
    BY <1>1, <1>2, <1>3, <1>4, <1>5, <1>6, <1>7, <1>8, <1>9, <1>10, <1>11
       DEF Next, Deliver

(* A handler works on a handshake of its own client that nobody else can   *)
(* finish, on a frame made for it.                                         *)
LEMMA HandlerFacts ==
  ASSUME TypeOK, Consistent, NEW u \in User, verifying[u] # NoKey
  PROVE  LET k == verifying[u]
             m == frame[u]
         IN  /\ k \in Key /\ session[k] \in Session /\ Owner(k) = u
             /\ established[k] = NoKey
             /\ pending[u][session[k]] \in {k, NoKey}
             /\ m \in sent /\ m.session = session[k]
             /\ m.kind = IF role[k] = "initiator" THEN "response" ELSE "confirm"
  <1>1. verifying[u] \in Key
    BY DEF TypeOK
  <1>2. session[verifying[u]] \in Session \cup {NoSession}
    BY <1>1 DEF TypeOK
  <1> QED
    BY <1>1, <1>2 DEF Consistent, HandlersOwned

(* What is pending under a session stays one of its handshakes, with a     *)
(* timer.                                                                  *)
LEMMA PendingStep ==
  TypeOK /\ TypeOK' /\ Consistent /\ [Next]_vars => PendingOwned'
  <1> SUFFICES ASSUME TypeOK, TypeOK', Consistent, [Next]_vars
               PROVE  PendingOwned'
    OBVIOUS
  <1>k. \A j \in Key : session[j] # NoSession => Kept(j)
    BY FieldsKept
  <1> SUFFICES ASSUME NEW v \in User, NEW z \in Session, NEW j \in Key, pending'[v][z] = j
               PROVE  session'[j] = z /\ Owner(j)' = v /\ timer'[j] \in {"armed", "fired"}
    BY DEF PendingOwned, TypeOK
  <1> USE DEF TypeOK, fields, Consistent
  <1>1. ASSUME NEW s \in Session, NEW k \in Key, Initiate(s, k)
        PROVE  session'[j] = z /\ Owner(j)' = v /\ timer'[j] \in {"armed", "fired"}
    BY <1>1, <1>k, NoneAssumption DEF Initiate, Begin, Kept, PendingOwned, Owner
  <1>2. ASSUME NEW m \in sent, NEW k \in Key, HandleInit(m, k)
        PROVE  session'[j] = z /\ Owner(j)' = v /\ timer'[j] \in {"armed", "fired"}
    BY <1>2, <1>k, NoneAssumption DEF HandleInit, Begin, Kept, PendingOwned, Owner
  <1>3. ASSUME NEW m \in sent, HandleResponse(m)
        PROVE  session'[j] = z /\ Owner(j)' = v /\ timer'[j] \in {"armed", "fired"}
    BY <1>3, <1>k, NoneAssumption DEF HandleResponse, Fetch, Kept, PendingOwned, Owner
  <1>4. ASSUME NEW m \in sent, HandleConfirm(m)
        PROVE  session'[j] = z /\ Owner(j)' = v /\ timer'[j] \in {"armed", "fired"}
    BY <1>4, <1>k, NoneAssumption DEF HandleConfirm, Fetch, Kept, PendingOwned, Owner
  <1>5. ASSUME NEW u \in User, Fail(u)
        PROVE  session'[j] = z /\ Owner(j)' = v /\ timer'[j] \in {"armed", "fired"}
    <2> DEFINE k == verifying[u]
    <2>1. /\ k \in Key /\ session[k] \in Session /\ Owner(k) = u
          /\ pending[u][session[k]] \in {k, NoKey}
      BY <1>5, HandlerFacts DEF Fail
    <2>2. /\ pending' = [pending EXCEPT ![u][session[k]] = NoKey]
          /\ timer' = [timer EXCEPT ![k] = IF @ = "armed" THEN "cancelled" ELSE @]
          /\ UNCHANGED fields
      BY <1>5 DEF Fail, Pop, Cancel, Return
    <2> HIDE DEF k
    <2>3. pending[v][z] = j
      BY <2>1, <2>2, NoneAssumption
    <2>4. session[j] = z /\ Owner(j) = v /\ timer[j] \in {"armed", "fired"}
      BY <2>3, NoneAssumption DEF PendingOwned
    <2>5. j # k
      BY <2>1, <2>2, <2>3, <2>4, NoneAssumption
    <2> QED
      BY <2>1, <2>2, <2>4, <2>5 DEF Owner
  <1>6. ASSUME NEW u \in User, AcceptResponse(u)
        PROVE  session'[j] = z /\ Owner(j)' = v /\ timer'[j] \in {"armed", "fired"}
    <2> DEFINE k == verifying[u]
    <2>1. /\ k \in Key /\ session[k] \in Session /\ Owner(k) = u
          /\ pending[u][session[k]] \in {k, NoKey}
      BY <1>6, HandlerFacts DEF AcceptResponse
    <2>2. /\ pending' = [pending EXCEPT ![u][session[k]] = NoKey]
          /\ timer' = [timer EXCEPT ![k] = IF @ = "armed" THEN "cancelled" ELSE @]
          /\ UNCHANGED fields
      BY <1>6 DEF AcceptResponse, Finish, Pop, Cancel, Return
    <2> HIDE DEF k
    <2>3. pending[v][z] = j
      BY <2>1, <2>2, NoneAssumption
    <2>4. session[j] = z /\ Owner(j) = v /\ timer[j] \in {"armed", "fired"}
      BY <2>3, NoneAssumption DEF PendingOwned
    <2>5. j # k
      BY <2>1, <2>2, <2>3, <2>4, NoneAssumption
    <2> QED
      BY <2>1, <2>2, <2>4, <2>5 DEF Owner
  <1>7. ASSUME NEW u \in User, AcceptConfirm(u)
        PROVE  session'[j] = z /\ Owner(j)' = v /\ timer'[j] \in {"armed", "fired"}
    <2> DEFINE k == verifying[u]
    <2>1. /\ k \in Key /\ session[k] \in Session /\ Owner(k) = u
          /\ pending[u][session[k]] \in {k, NoKey}
      BY <1>7, HandlerFacts DEF AcceptConfirm
    <2>2. /\ pending' = [pending EXCEPT ![u][session[k]] = NoKey]
          /\ timer' = [timer EXCEPT ![k] = IF @ = "armed" THEN "cancelled" ELSE @]
          /\ UNCHANGED fields
      BY <1>7 DEF AcceptConfirm, Finish, Pop, Cancel, Return
    <2> HIDE DEF k
    <2>3. pending[v][z] = j
      BY <2>1, <2>2, NoneAssumption
    <2>4. session[j] = z /\ Owner(j) = v /\ timer[j] \in {"armed", "fired"}
      BY <2>3, NoneAssumption DEF PendingOwned
    <2>5. j # k
      BY <2>1, <2>2, <2>3, <2>4, NoneAssumption
    <2> QED
      BY <2>1, <2>2, <2>4, <2>5 DEF Owner
  <1>8. ASSUME NEW k \in Key, Expire(k)
        PROVE  session'[j] = z /\ Owner(j)' = v /\ timer'[j] \in {"armed", "fired"}
    BY <1>8, <1>k, NoneAssumption DEF Expire, Kept, PendingOwned, Owner
  <1>9. ASSUME NEW k \in Key, OnTimeout(k)
        PROVE  session'[j] = z /\ Owner(j)' = v /\ timer'[j] \in {"armed", "fired"}
    BY <1>9, <1>k, NoneAssumption DEF OnTimeout, Pop, Kept, PendingOwned, Owner
  <1>11. ASSUME NEW u \in User, FetchRaises(u)
        PROVE  session'[j] = z /\ Owner(j)' = v /\ timer'[j] \in {"armed", "fired"}
    BY <1>11, <1>k, NoneAssumption DEF FetchRaises, Return, Kept, PendingOwned, Owner
  <1>10. CASE UNCHANGED vars
    BY <1>10, <1>k, NoneAssumption DEF vars, Kept, PendingOwned, Owner
  <1> QED
    BY <1>1, <1>2, <1>3, <1>4, <1>5, <1>6, <1>7, <1>8, <1>9, <1>10, <1>11
       DEF Next, Deliver

(* While a handler waits for the key of the peer, nobody else touches its  *)
(* handshake, except that the timer may pop it.                            *)
LEMMA WaitingStep ==
  ASSUME TypeOK, Consistent, [Next]_vars,
         NEW v \in User, NEW j \in Key, verifying[v] = j, verifying'[v] = j
  PROVE  /\ frame'[v] = frame[v] /\ established'[j] = established[j]
         /\ pending'[v][session[j]] \in {pending[v][session[j]], NoKey}
  <1> DEFINE Goal == /\ frame'[v] = frame[v] /\ established'[j] = established[j]
                     /\ pending'[v][session[j]] \in {pending[v][session[j]], NoKey}
  <1>n. j # NoKey
    BY NoneAssumption
  <1>v. session[j] \in Session /\ Owner(j) = v
    BY <1>n, HandlerFacts
  <1> USE DEF TypeOK, fields
  <1>1. ASSUME NEW s \in Session, NEW k \in Key, Initiate(s, k)
        PROVE  Goal
    <2>1. initiator[s] \in User /\ initiator[s] # v
      BY <1>1, <1>n, PartiesAssumption DEF Initiate, Idle
    <2> QED
      BY <1>1, <1>v, <2>1 DEF Initiate, Begin
  <1>2. ASSUME NEW m \in sent, NEW k \in Key, HandleInit(m, k)
        PROVE  Goal
    <2>1. m.session \in Session
      BY DEF Frames, InitFrame, Response, Confirm
    <2>2. responder[m.session] \in User /\ responder[m.session] # v
      BY <1>2, <2>1, <1>n, PartiesAssumption DEF HandleInit, Idle
    <2> QED
      BY <1>2, <1>v, <2>1, <2>2 DEF HandleInit, Begin
  <1>3. ASSUME NEW m \in sent, HandleResponse(m)
        PROVE  Goal
    <2>1. initiator[m.session] # v
      BY <1>3, <1>n DEF HandleResponse, Fetch, Idle
    <2> QED
      BY <1>3, <2>1 DEF HandleResponse, Fetch
  <1>4. ASSUME NEW m \in sent, HandleConfirm(m)
        PROVE  Goal
    <2>1. responder[m.session] # v
      BY <1>4, <1>n DEF HandleConfirm, Fetch, Idle
    <2> QED
      BY <1>4, <2>1 DEF HandleConfirm, Fetch
  <1>5. ASSUME NEW u \in User, Fail(u)
        PROVE  Goal
    <2>1. u # v
      BY <1>5, <1>n DEF Fail, Return
    <2> QED
      BY <1>5, <2>1 DEF Fail, Pop, Return
  <1>6. ASSUME NEW u \in User, AcceptResponse(u)
        PROVE  Goal
    <2>1. u # v
      BY <1>6, <1>n DEF AcceptResponse, Finish, Return
    <2>2. verifying[u] # j
      BY <1>6, <2>1, <1>v, HandlerFacts DEF AcceptResponse
    <2> QED
      BY <1>6, <2>1, <2>2 DEF AcceptResponse, Finish, Pop, Return
  <1>7. ASSUME NEW u \in User, AcceptConfirm(u)
        PROVE  Goal
    <2>1. u # v
      BY <1>7, <1>n DEF AcceptConfirm, Finish, Return
    <2>2. verifying[u] # j
      BY <1>7, <2>1, <1>v, HandlerFacts DEF AcceptConfirm
    <2> QED
      BY <1>7, <2>1, <2>2 DEF AcceptConfirm, Finish, Pop, Return
  <1>8. ASSUME NEW k \in Key, Expire(k)
        PROVE  Goal
    BY <1>8 DEF Expire
  <1>9. ASSUME NEW k \in Key, OnTimeout(k)
        PROVE  Goal
    BY <1>9, <1>v DEF OnTimeout, Pop
  <1>11. ASSUME NEW u \in User, FetchRaises(u)
        PROVE  Goal
    BY <1>11 DEF FetchRaises, Return
  <1>10. CASE UNCHANGED vars
    BY <1>10 DEF vars
  <1> QED
    BY <1>1, <1>2, <1>3, <1>4, <1>5, <1>6, <1>7, <1>8, <1>9, <1>10, <1>11
       DEF Next, Deliver

(* A handler takes up a handshake only where its message is handled.       *)
LEMMA TakenUp ==
  ASSUME TypeOK, [Next]_vars, NEW v \in User, NEW j \in Key, verifying'[v] = j
  PROVE  \/ verifying[v] = j
         \/ \E m \in sent, r \in {"initiator", "responder"} :
                /\ Fetch(v, m, r)
                /\ m.kind = IF r = "initiator" THEN "response" ELSE "confirm"
  <1> DEFINE Goal == \/ verifying[v] = j
                     \/ \E m \in sent, r \in {"initiator", "responder"} :
                            /\ Fetch(v, m, r)
                            /\ m.kind = IF r = "initiator" THEN "response" ELSE "confirm"
  <1>n. j # NoKey
    BY NoneAssumption
  <1> USE DEF TypeOK
  <1>1. ASSUME NEW s \in Session, NEW k \in Key, Initiate(s, k)
        PROVE  Goal
    BY <1>1 DEF Initiate
  <1>2. ASSUME NEW m \in sent, NEW k \in Key, HandleInit(m, k)
        PROVE  Goal
    BY <1>2 DEF HandleInit
  <1>3. ASSUME NEW m \in sent, HandleResponse(m)
        PROVE  Goal
    <2>1. CASE initiator[m.session] = v
      BY <1>3, <2>1 DEF HandleResponse
    <2>2. CASE initiator[m.session] # v
      BY <1>3, <2>2 DEF HandleResponse, Fetch
    <2> QED
      BY <2>1, <2>2
  <1>4. ASSUME NEW m \in sent, HandleConfirm(m)
        PROVE  Goal
    <2>1. CASE responder[m.session] = v
      BY <1>4, <2>1 DEF HandleConfirm
    <2>2. CASE responder[m.session] # v
      BY <1>4, <2>2 DEF HandleConfirm, Fetch
    <2> QED
      BY <2>1, <2>2
  <1>5. ASSUME NEW u \in User, Fail(u)
        PROVE  Goal
    BY <1>5, <1>n DEF Fail, Return
  <1>6. ASSUME NEW u \in User, AcceptResponse(u)
        PROVE  Goal
    BY <1>6, <1>n DEF AcceptResponse, Finish, Return
  <1>7. ASSUME NEW u \in User, AcceptConfirm(u)
        PROVE  Goal
    BY <1>7, <1>n DEF AcceptConfirm, Finish, Return
  <1>8. ASSUME NEW k \in Key, Expire(k)
        PROVE  Goal
    BY <1>8 DEF Expire
  <1>9. ASSUME NEW k \in Key, OnTimeout(k)
        PROVE  Goal
    BY <1>9 DEF OnTimeout
  <1>11. ASSUME NEW u \in User, FetchRaises(u)
        PROVE  Goal
    BY <1>11, <1>n DEF FetchRaises, Return
  <1>10. CASE UNCHANGED vars
    BY <1>10 DEF vars
  <1> QED
    BY <1>1, <1>2, <1>3, <1>4, <1>5, <1>6, <1>7, <1>8, <1>9, <1>10, <1>11
       DEF Next, Deliver

(* A handler keeps its handshake to itself while it waits for the key of   *)
(* the peer; it took it up pending, so before anything was reported of it. *)
LEMMA HandlersStep ==
  TypeOK /\ Consistent /\ Accounted /\ [Next]_vars => HandlersOwned'
  <1> SUFFICES ASSUME TypeOK, Consistent, Accounted, [Next]_vars
               PROVE  HandlersOwned'
    OBVIOUS
  <1>t. TypeOK'
    BY TypeStep
  <1> SUFFICES ASSUME NEW v \in User, NEW j \in Key, verifying'[v] = j
               PROVE  /\ session'[j] # NoSession /\ Owner(j)' = v /\ established'[j] = NoKey
                      /\ frame'[v] \in sent' /\ frame'[v].session = session'[j]
                      /\ frame'[v].kind = IF role'[j] = "initiator" THEN "response" ELSE "confirm"
                      /\ pending'[v][session'[j]] \in {j, NoKey}
    BY <1>t DEF HandlersOwned, TypeOK, Owner
  <1>n. j # NoKey
    BY NoneAssumption
  <1>s. sent \subseteq sent'
    BY EstablishedKept
  <1>1. CASE verifying[v] = j
    <2>1. /\ session[j] \in Session /\ Owner(j) = v /\ established[j] = NoKey
          /\ pending[v][session[j]] \in {j, NoKey}
          /\ frame[v] \in sent /\ frame[v].session = session[j]
          /\ frame[v].kind = IF role[j] = "initiator" THEN "response" ELSE "confirm"
      BY <1>1, <1>n, HandlerFacts
    <2>2. Kept(j)
      BY <2>1, FieldsKept, NoneAssumption
    <2>3. /\ frame'[v] = frame[v] /\ established'[j] = established[j]
          /\ pending'[v][session[j]] \in {pending[v][session[j]], NoKey}
      BY <1>1, WaitingStep
    <2> QED
      BY <2>1, <2>2, <2>3, <1>s, NoneAssumption DEF Kept
  <1>2. CASE verifying[v] # j
    <2>1. PICK m \in sent, r \in {"initiator", "responder"} :
             /\ Fetch(v, m, r)
             /\ m.kind = IF r = "initiator" THEN "response" ELSE "confirm"
      BY <1>2, TakenUp
    <2>2. m.session \in Session
      BY DEF TypeOK, Frames, InitFrame, Response, Confirm
    <2>3. /\ pending[v][m.session] = j /\ role[j] = r /\ frame'[v] = m
          /\ UNCHANGED <<session, role, pending, sent, established>>
      BY <2>1 DEF Fetch, TypeOK, fields
    <2>4. session[j] = m.session /\ Owner(j) = v
      BY <2>2, <2>3, <1>n DEF Consistent, PendingOwned
    <2>5. established[j] = NoKey
      BY <2>2, <2>3, <2>4, NoneAssumption DEF Accounted, Reported
    <2> QED
      BY <2>1, <2>2, <2>3, <2>4, <2>5, NoneAssumption DEF Owner
  <1> QED
    BY <1>1, <1>2

(* Session keys are handed over by _handle_response and _handle_confirm.   *)
LEMMA WhoEstablishes ==
  [Next]_vars => \/ established' = established
                 \/ \E u \in User : AcceptResponse(u) \/ AcceptConfirm(u)
  BY DEF Next, Deliver, vars, Initiate, HandleInit, HandleResponse, HandleConfirm,
         Fetch, Fail, FetchRaises, Expire, OnTimeout

(* Who sends what.                                                         *)
LEMMA WhoSends ==
  [Next]_vars => \/ sent' = sent
                 \/ \E s \in Session, k \in Key : Initiate(s, k)
                 \/ \E m \in sent, k \in Key : HandleInit(m, k)
                 \/ \E u \in User : AcceptResponse(u)
  BY DEF Next, Deliver, vars, HandleResponse, HandleConfirm,
         Fetch, Fail, FetchRaises, AcceptConfirm, Expire, OnTimeout

(* The frame that _handle_response accepts comes from the other party of   *)
(* the same session.                                                       *)
LEMMA ResponseFacts ==
  ASSUME TypeOK, Consistent, NEW u \in User, AcceptResponse(u)
  PROVE  LET k == verifying[u]
             p == frame[u].eph
         IN  /\ k \in Key /\ session[k] \in Session /\ role[k] = "initiator"
             /\ established[k] = NoKey
             /\ p \in Key /\ session[p] = session[k] /\ role[p] = "responder"
             /\ frame[u].session = session[k]
             /\ established' = [established EXCEPT ![k] = p]
             /\ UNCHANGED fields
  <1>1. /\ verifying[u] # NoKey /\ role[verifying[u]] = "initiator"
        /\ established' = [established EXCEPT ![verifying[u]] = frame[u].eph]
        /\ UNCHANGED fields
    BY DEF AcceptResponse, Finish
  <1>2. /\ verifying[u] \in Key /\ session[verifying[u]] \in Session
        /\ established[verifying[u]] = NoKey
        /\ frame[u] \in sent /\ frame[u].session = session[verifying[u]]
        /\ frame[u].kind = "response"
    BY <1>1, HandlerFacts
  <1>3. frame[u].eph \in Key
    BY <1>2 DEF TypeOK, Frames, InitFrame, Response, Confirm
  <1>4. session[frame[u].eph] = frame[u].session /\ role[frame[u].eph] = "responder"
    BY <1>2 DEF Consistent, FramesHonest
  <1> QED
    BY <1>1, <1>2, <1>3, <1>4

(* The frame that _handle_confirm accepts says that the initiator holds    *)
(* keys with this very handshake.                                          *)
LEMMA ConfirmFacts ==
  ASSUME TypeOK, Consistent, NEW u \in User, AcceptConfirm(u)
  PROVE  LET k == verifying[u]
             p == peerKey[k]
         IN  /\ k \in Key /\ session[k] \in Session /\ role[k] = "responder"
             /\ established[k] = NoKey
             /\ p \in Key /\ session[p] = session[k] /\ role[p] = "initiator"
             /\ established[p] = k
             /\ established' = [established EXCEPT ![k] = p]
             /\ UNCHANGED fields
  <1>1. /\ verifying[u] # NoKey /\ role[verifying[u]] = "responder"
        /\ frame[u].over = <<frame[u].session, peerKey[verifying[u]], verifying[u]>>
        /\ established' = [established EXCEPT ![verifying[u]] = peerKey[verifying[u]]]
        /\ UNCHANGED fields
    BY DEF AcceptConfirm, Finish, transcript
  <1>2. /\ verifying[u] \in Key /\ session[verifying[u]] \in Session
        /\ established[verifying[u]] = NoKey
        /\ frame[u] \in sent /\ frame[u].session = session[verifying[u]]
        /\ frame[u].kind = "confirm"
    BY <1>1, HandlerFacts
  <1>3. peerKey[verifying[u]] \in Key
    BY <1>1, <1>2 DEF TypeOK, Consistent, KeysUsed
  <1>4. LET i == frame[u].over[2]
        IN  /\ session[i] = frame[u].session /\ role[i] = "initiator"
            /\ frame[u].over = <<frame[u].session, i, established[i]>>
    BY <1>2 DEF Consistent, FramesHonest
  <1> QED
    BY <1>1, <1>2, <1>3, <1>4

(* No frame says anything untrue of its sender, now or later.              *)
LEMMA FramesStep ==
  TypeOK /\ Consistent /\ [Next]_vars => FramesHonest'
  <1> DEFINE Honest(m) ==
        /\ m.kind = "response" =>
              /\ session[m.eph] = m.session /\ role[m.eph] = "responder"
              /\ m.over = <<m.session, peerKey[m.eph], m.eph>>
        /\ m.kind = "confirm" =>
              /\ session[m.over[2]] = m.session /\ role[m.over[2]] = "initiator"
              /\ m.over = <<m.session, m.over[2], established[m.over[2]]>>
              /\ established[m.over[2]] # NoKey
  <1> SUFFICES ASSUME TypeOK, Consistent, [Next]_vars, NEW m \in sent'
               PROVE  Honest(m)'
    BY DEF FramesHonest
  <1>t. TypeOK'
    BY TypeStep
  <1>1. CASE m \in sent
    <2>1. m.session \in Session
      BY <1>1 DEF TypeOK, Frames, InitFrame, Response, Confirm
    <2>2. CASE m.kind = "response"
      <3>1. m.eph \in Key
        BY <1>1, <2>2 DEF TypeOK, Frames, InitFrame, Response, Confirm
      <3>2. /\ session[m.eph] = m.session /\ role[m.eph] = "responder"
            /\ m.over = <<m.session, peerKey[m.eph], m.eph>>
        BY <1>1, <2>2 DEF Consistent, FramesHonest
      <3>3. Kept(m.eph)
        BY <2>1, <3>1, <3>2, FieldsKept, NoneAssumption
      <3> QED
        BY <2>2, <3>2, <3>3 DEF Kept
    <2>3. CASE m.kind = "confirm"
      <3> DEFINE i == m.over[2]
      <3>1. i \in Key
        BY <1>1, <2>3 DEF TypeOK, Frames, InitFrame, Response, Confirm, Transcript
      <3>2. /\ session[i] = m.session /\ role[i] = "initiator"
            /\ m.over = <<m.session, i, established[i]>> /\ established[i] # NoKey
        BY <1>1, <2>3 DEF Consistent, FramesHonest
      <3>3. Kept(i) /\ established'[i] = established[i]
        BY <2>1, <3>1, <3>2, FieldsKept, EstablishedKept, NoneAssumption
      <3> QED
        BY <2>3, <3>2, <3>3 DEF Kept
    <2> QED
      BY <2>2, <2>3
  <1>2. CASE m \notin sent
    <2>1. ASSUME NEW s \in Session, NEW k \in Key, Initiate(s, k)
          PROVE  Honest(m)'
      <3>1. m.kind = "init"
        BY <1>2, <2>1 DEF Initiate
      <3> QED
        BY <3>1
    <2>2. ASSUME NEW q \in sent, NEW k \in Key, HandleInit(q, k)
          PROVE  Honest(m)'
      <3>1. /\ m.kind = "response" /\ m.session = q.session /\ m.eph = k
            /\ m.over = <<q.session, q.eph, k>>
        BY <1>2, <2>2 DEF HandleInit, transcript
      <3>2. session'[k] = q.session /\ role'[k] = "responder" /\ peerKey'[k] = q.eph
        BY <2>2 DEF HandleInit, Begin, TypeOK
      <3> QED
        BY <3>1, <3>2
    <2>3. ASSUME NEW u \in User, AcceptResponse(u)
          PROVE  Honest(m)'
      <3> DEFINE k == verifying[u]
                 p == frame[u].eph
      <3>1. /\ m.kind = "confirm" /\ m.session = frame[u].session
            /\ m.over = <<frame[u].session, k, p>>
        BY <1>2, <2>3 DEF AcceptResponse, transcript
      <3>2. /\ k \in Key /\ role[k] = "initiator" /\ p \in Key
            /\ frame[u].session = session[k]
            /\ established' = [established EXCEPT ![k] = p]
            /\ session' = session /\ role' = role
        BY <2>3, ResponseFacts DEF fields
      <3>3. established'[k] = p /\ p # NoKey
        BY <3>2, NoneAssumption DEF TypeOK
      <3> QED
        BY <3>1, <3>2, <3>3
    <2> QED
      BY <1>2, <2>1, <2>2, <2>3, WhoSends
  <1> QED
    BY <1>1, <1>2

(* Keys handed over always belong to the other party of the session.       *)
LEMMA PeersStep ==
  TypeOK /\ Consistent /\ [Next]_vars => PeersAgree'
  <1> DEFINE Agree(k) ==
        /\ session[established[k]] = session[k]
        /\ role[k] = "initiator" => role[established[k]] = "responder"
        /\ role[k] = "responder" => /\ role[established[k]] = "initiator"
                                    /\ established[established[k]] = k
  <1> SUFFICES ASSUME TypeOK, Consistent, [Next]_vars,
                      NEW k \in Key, established'[k] # NoKey
               PROVE  Agree(k)'
    BY DEF PeersAgree
  <1>1. CASE established[k] # NoKey
    <2> DEFINE p == established[k]
    <2>1. p \in Key
      BY <1>1 DEF TypeOK
    <2>2. session[k] # NoSession
      BY <1>1 DEF Consistent, KeysUsed
    <2>3. Agree(k)
      BY <1>1 DEF Consistent, PeersAgree
    <2>4. Kept(k) /\ Kept(p)
      BY <2>1, <2>2, <2>3, FieldsKept
    <2>5. /\ established'[k] = p
          /\ established[p] # NoKey => established'[p] = established[p]
      BY <1>1, <2>1, EstablishedKept
    <2> QED
      BY <2>3, <2>4, <2>5, NoneAssumption DEF Kept
  <1>2. CASE established[k] = NoKey
    <2>1. ASSUME NEW u \in User, AcceptResponse(u)
          PROVE  Agree(k)'
      BY <1>2, <2>1, ResponseFacts DEF TypeOK, fields
    <2>2. ASSUME NEW u \in User, AcceptConfirm(u)
          PROVE  Agree(k)'
      <3>1. k = verifying[u]
        BY <1>2, <2>2, ConfirmFacts DEF TypeOK
      <3> DEFINE p == peerKey[k]
      <3>2. /\ role[k] = "responder"
            /\ p \in Key /\ session[p] = session[k] /\ role[p] = "initiator"
            /\ established[p] = k
            /\ established' = [established EXCEPT ![k] = p]
            /\ session' = session /\ role' = role
        BY <2>2, <3>1, ConfirmFacts DEF fields
      <3>3. p # k /\ established'[k] = p /\ established'[p] = k
        BY <3>2 DEF TypeOK
      <3> QED
        BY <3>2, <3>3
    <2> QED
      BY <1>2, <2>1, <2>2, WhoEstablishes
  <1> QED
    BY <1>1, <1>2

(* The invariant carries itself.                                           *)
LEMMA ConsistentStep ==
  TypeOK /\ Consistent /\ Accounted /\ [Next]_vars => Consistent'
  BY TypeStep, KeysStep, PendingStep, HandlersStep, FramesStep, PeersStep DEF Consistent

(* Begin replaces no pending handshake; whoever pops one reports it.       *)
LEMMA AccountedStep ==
  TypeOK /\ Consistent /\ Accounted /\ [Next]_vars => Accounted'
  <1> SUFFICES ASSUME TypeOK, Consistent, Accounted, [Next]_vars
               PROVE  Accounted'
    OBVIOUS
  <1>t. TypeOK'
    BY TypeStep
  <1>a. ASSUME NEW j \in Key, session[j] # NoSession
        PROVE  pending'[Owner(j)][session[j]] = j <=> ~Reported(j)'
    <2> USE DEF TypeOK
    <2>o. session[j] \in Session /\ Owner(j) \in User
      BY <1>a, OwnerType
    <2>k. j # NoKey
      BY NoneAssumption
    <2>b. pending[Owner(j)][session[j]] = j <=> ~Reported(j)
      BY <1>a DEF Accounted
    <2>r. Reported(j) => Reported(j)'
      <3>1. established[j] # NoKey => established'[j] = established[j]
        BY EstablishedKept
      <3>2. failed \subseteq failed'
        BY DEF Next, Deliver, vars, Initiate, HandleInit, HandleResponse, HandleConfirm,
               Fetch, Fail, FetchRaises, AcceptResponse, AcceptConfirm, Finish, Expire, OnTimeout
      <3> QED
        BY <3>1, <3>2 DEF Reported
    <2>1. ASSUME NEW s \in Session, NEW k \in Key, Initiate(s, k)
          PROVE  pending'[Owner(j)][session[j]] = j <=> ~Reported(j)'
      <3>1. ~(Owner(j) = initiator[s] /\ session[j] = s)
        BY <2>1, <1>a, PartiesAssumption DEF Initiate, Owner
      <3>2. /\ pending' = [pending EXCEPT ![initiator[s]][s] = k]
            /\ established' = established /\ failed' = failed
        BY <2>1 DEF Initiate, Begin
      <3>3. pending'[Owner(j)][session[j]] = pending[Owner(j)][session[j]]
        BY <3>1, <3>2, <2>o
      <3> QED
        BY <3>2, <3>3, <2>b DEF Reported
    <2>2. ASSUME NEW m \in sent, NEW k \in Key, HandleInit(m, k)
          PROVE  pending'[Owner(j)][session[j]] = j <=> ~Reported(j)'
      <3> DEFINE s == m.session
                 u == responder[s]
      <3>0. s \in Session
        BY DEF Frames, InitFrame, Response, Confirm
      <3>1. /\ pending' = [pending EXCEPT ![u][s] = k] /\ pending[u][s] = NoKey
            /\ established' = established /\ failed' = failed /\ j # k
        BY <2>2, <1>a DEF HandleInit, Begin
      <3> HIDE DEF s, u
      <3>2. CASE Owner(j) = u /\ session[j] = s
        BY <3>1, <3>2, <2>o, <2>k, <2>b DEF Reported
      <3>3. CASE ~(Owner(j) = u /\ session[j] = s)
        <4>1. pending'[Owner(j)][session[j]] = pending[Owner(j)][session[j]]
          BY <3>1, <3>3, <2>o
        <4> QED
          BY <4>1, <3>1, <2>b DEF Reported
      <3> QED
        BY <3>2, <3>3
    <2>3. ASSUME UNCHANGED <<pending, established, failed>>
          PROVE  pending'[Owner(j)][session[j]] = j <=> ~Reported(j)'
      BY <2>3, <2>b DEF Reported
    <2>4. ASSUME NEW u \in User, Fail(u) \/ AcceptResponse(u) \/ AcceptConfirm(u)
          PROVE  pending'[Owner(j)][session[j]] = j <=> ~Reported(j)'
      <3>0. PICK k \in Key : verifying[u] = k
        BY <2>4, HandlerFacts DEF Fail, AcceptResponse, AcceptConfirm
      <3>1. /\ session[k] \in Session /\ Owner(k) = u
            /\ pending[u][session[k]] \in {k, NoKey}
        BY <2>4, <3>0, HandlerFacts DEF Fail, AcceptResponse, AcceptConfirm
      <3>2. pending' = [pending EXCEPT ![u][session[k]] = NoKey]
        BY <2>4, <3>0 DEF Fail, AcceptResponse, AcceptConfirm, Finish, Pop
      <3>3. /\ Reported(k)'
            /\ j # k => (Reported(j)' <=> Reported(j))
        <4>1. CASE Fail(u)
          BY <4>1, <3>0 DEF Fail, Reported
        <4>2. CASE AcceptResponse(u)
          <5>1. frame[u].eph \in Key /\ established' = [established EXCEPT ![k] = frame[u].eph]
            BY <4>2, <3>0, ResponseFacts
          <5>2. failed' = failed
            BY <4>2 DEF AcceptResponse, Finish
          <5> QED
            BY <5>1, <5>2, NoneAssumption DEF Reported
        <4>3. CASE AcceptConfirm(u)
          <5>1. peerKey[k] \in Key /\ established' = [established EXCEPT ![k] = peerKey[k]]
            BY <4>3, <3>0, ConfirmFacts
          <5>2. failed' = failed
            BY <4>3 DEF AcceptConfirm, Finish
          <5> QED
            BY <5>1, <5>2, NoneAssumption DEF Reported
        <4> QED
          BY <2>4, <4>1, <4>2, <4>3
      <3>4. CASE j = k
        BY <3>1, <3>2, <3>3, <3>4, <2>k
      <3>5. CASE j # k /\ Owner(j) = u /\ session[j] = session[k]
        BY <3>1, <3>2, <3>3, <3>5, <2>k, <2>b
      <3>6. CASE j # k /\ ~(Owner(j) = u /\ session[j] = session[k])
        <4>1. pending'[Owner(j)][session[j]] = pending[Owner(j)][session[j]]
          BY <3>1, <3>2, <3>6, <2>o
        <4> QED
          BY <4>1, <3>3, <3>6, <2>b
      <3> QED
        BY <3>4, <3>5, <3>6
    <2>5. ASSUME NEW k \in Key, OnTimeout(k)
          PROVE  pending'[Owner(j)][session[j]] = j <=> ~Reported(j)'
      <3>1. session[k] \in Session /\ Owner(k) \in User
        BY <2>5, OwnerType DEF OnTimeout, Consistent, KeysUsed
      <3>2. /\ pending' = [pending EXCEPT ![Owner(k)][session[k]] = NoKey]
            /\ failed' = failed \cup ({pending[Owner(k)][session[k]]} \ {NoKey})
            /\ established' = established
        BY <2>5 DEF OnTimeout, Pop
      <3>3. CASE Owner(j) = Owner(k) /\ session[j] = session[k]
        <4>1. pending'[Owner(j)][session[j]] = NoKey
          BY <3>1, <3>2, <3>3
        <4>2. CASE pending[Owner(j)][session[j]] = j
          BY <4>1, <4>2, <3>2, <3>3, <2>k DEF Reported
        <4>3. CASE pending[Owner(j)][session[j]] # j
          BY <4>1, <4>3, <2>b, <2>r, <2>k
        <4> QED
          BY <4>2, <4>3
      <3>4. CASE ~(Owner(j) = Owner(k) /\ session[j] = session[k])
        <4>1. pending'[Owner(j)][session[j]] = pending[Owner(j)][session[j]]
          BY <3>1, <3>2, <3>4, <2>o
        <4>2. pending[Owner(k)][session[k]] # j
          BY <3>1, <3>4, <2>k DEF Consistent, PendingOwned
        <4>3. Reported(j)' <=> Reported(j)
          BY <3>2, <4>2 DEF Reported
        <4> QED
          BY <4>1, <4>3, <2>b
      <3> QED
        BY <3>3, <3>4
    <2>6. \/ \E s \in Session, k \in Key : Initiate(s, k)
          \/ \E m \in sent, k \in Key : HandleInit(m, k)
          \/ UNCHANGED <<pending, established, failed>>
          \/ \E u \in User : Fail(u) \/ AcceptResponse(u) \/ AcceptConfirm(u)
          \/ \E k \in Key : OnTimeout(k)
      BY DEF Next, Deliver, vars, HandleResponse, HandleConfirm, Fetch, FetchRaises, Expire
    <2> QED
      BY <2>1, <2>2, <2>3, <2>4, <2>5, <2>6
  <1>b. ASSUME NEW j \in Key, session[j] = NoSession, session'[j] # NoSession
        PROVE  pending'[Owner(j)'][session'[j]] = j /\ ~Reported(j)'
    <2> USE DEF TypeOK
    <2>1. established[j] = NoKey /\ j \notin failed
      BY <1>b DEF Consistent, KeysUsed
    <2>2. ASSUME NEW s \in Session, NEW k \in Key, Initiate(s, k)
          PROVE  pending'[Owner(j)'][session'[j]] = j /\ ~Reported(j)'
      <3>1. j = k /\ initiator[s] \in User
        BY <2>2, <1>b, PartiesAssumption DEF Initiate, Begin
      <3> QED
        BY <2>1, <2>2, <3>1 DEF Initiate, Begin, Owner, Reported
    <2>3. ASSUME NEW m \in sent, NEW k \in Key, HandleInit(m, k)
          PROVE  pending'[Owner(j)'][session'[j]] = j /\ ~Reported(j)'
      <3>1. m.session \in Session
        BY DEF Frames, InitFrame, Response, Confirm
      <3>2. j = k /\ responder[m.session] \in User
        BY <2>3, <1>b, <3>1, PartiesAssumption DEF HandleInit, Begin
      <3> QED
        BY <2>1, <2>3, <3>1, <3>2 DEF HandleInit, Begin, Owner, Reported
    <2>4. \/ \E s \in Session, k \in Key : Initiate(s, k)
          \/ \E m \in sent, k \in Key : HandleInit(m, k)
      BY <1>b DEF Next, Deliver, vars, fields, HandleResponse, HandleConfirm, Fetch,
                  Fail, FetchRaises, AcceptResponse, AcceptConfirm, Finish, Expire, OnTimeout
    <2> QED
      BY <2>2, <2>3, <2>4
  <1> SUFFICES ASSUME NEW j \in Key, session'[j] # NoSession
               PROVE  pending'[Owner(j)'][session'[j]] = j <=> ~Reported(j)'
    BY DEF Accounted
  <1>1. CASE session[j] = NoSession
    BY <1>1, <1>b
  <1>2. CASE session[j] # NoSession
    BY <1>2, <1>a, FieldsKept DEF Kept
  <1> QED
    BY <1>1, <1>2

(* Nothing is begun, pending or sent at the start.                         *)
LEMMA InitConsistent == Init => Consistent /\ Accounted
  <1> SUFFICES ASSUME Init PROVE Consistent /\ Accounted
    OBVIOUS
  <1>1. KeysUsed
    BY DEF Init, KeysUsed
  <1>2. PendingOwned
    BY DEF Init, PendingOwned
  <1>3. HandlersOwned /\ FramesHonest
    BY DEF Init, HandlersOwned, FramesHonest
  <1>4. PeersAgree /\ Accounted
    BY DEF Init, PeersAgree, Accounted
  <1> QED
    BY <1>1, <1>2, <1>3, <1>4 DEF Consistent

-----------------------------------------------------------------------------
(* A fresh manager holds keys of no session.                               *)
LEMMA InitMaps == Init => A!AInit
  <1> SUFFICES ASSUME Init PROVE A!AInit
    OBVIOUS
  <1>1. ASSUME NEW s \in Session, NEW r PROVE PairsAt(s, r) = {}
    BY NoneAssumption DEF Init, PairsAt
  <1> QED
    BY <1>1 DEF A!AInit, Decided, Adopted

(* The pairs of a session change only when session keys are handed over.   *)
LEMMA PairsKept ==
  ASSUME TypeOK, Consistent, [Next]_vars, NEW s \in Session, NEW r,
         \A j \in Key : (session[j] = s /\ role[j] = r) => established'[j] = established[j],
         \A j \in Key : session[j] = NoSession => established'[j] = established[j]
  PROVE  PairsAt(s, r)' = PairsAt(s, r)
  <1> SUFFICES ASSUME NEW p \in Key \X Key
               PROVE  (/\ session'[p[1]] = s /\ role'[p[1]] = r /\ established'[p[1]] = p[2])
                      <=> (/\ session[p[1]] = s /\ role[p[1]] = r /\ established[p[1]] = p[2])
    BY DEF PairsAt
  <1>1. p[1] \in Key /\ p[2] # NoKey /\ s # NoSession
    BY NoneAssumption
  <1>2. CASE session[p[1]] = NoSession
    BY <1>1, <1>2 DEF Consistent, KeysUsed
  <1>3. CASE session[p[1]] # NoSession
    BY <1>1, <1>3, FieldsKept DEF Kept
  <1> QED
    BY <1>2, <1>3

(* The initiator of a session decides once, on keys of no other session.   *)
LEMMA DecideStep ==
  ASSUME TypeOK, Consistent, [Next]_vars, NEW u \in User, AcceptResponse(u)
  PROVE  \E s \in Session, p \in Key \X Key : A!Decide(s, p)
  <1>1. PICK k \in Key, e \in Key :
           /\ session[k] \in Session /\ role[k] = "initiator" /\ established[k] = NoKey
           /\ session[e] = session[k] /\ role[e] = "responder"
           /\ established' = [established EXCEPT ![k] = e]
           /\ session' = session /\ role' = role
    BY ResponseFacts DEF fields
  <1>2. PICK s \in Session : session[k] = s
    BY <1>1
  <1> DEFINE p == <<k, e>>
  <1>3. ASSUME NEW j \in Key, session[j] = s, role[j] = "initiator"
        PROVE  j = k
    BY <1>1, <1>2, <1>3 DEF Consistent, KeysUsed
  <1>4. PairsAt(s, "initiator") = {}
    BY <1>1, <1>3, NoneAssumption DEF PairsAt
  <1>5. ASSUME NEW t \in Session, NEW q \in PairsAt(t, "initiator")
        PROVE  q[1] # k /\ q[2] # e
    <2>1. /\ q \in Key \X Key /\ q[1] \in Key /\ q[2] \in Key
          /\ session[q[1]] = t /\ role[q[1]] = "initiator" /\ established[q[1]] = q[2]
      BY <1>5 DEF PairsAt
    <2>2. q[1] # k
      BY <1>1, <2>1, NoneAssumption
    <2>3. session[q[2]] = t
      BY <2>1, NoneAssumption DEF Consistent, PeersAgree
    <2>4. q[2] = e => q[1] = k
      BY <1>1, <1>2, <1>3, <2>1, <2>3
    <2> QED
      BY <2>2, <2>4
  <1>6. PairsAt(s, "initiator")' = {p}
    <2>1. ASSUME NEW q \in Key \X Key
          PROVE  (/\ session'[q[1]] = s /\ role'[q[1]] = "initiator"
                  /\ established'[q[1]] = q[2]) <=> q = p
      <3>1. PICK q1 \in Key, q2 \in Key : q = <<q1, q2>>
        OBVIOUS
      <3> QED
        BY <1>1, <1>2, <1>3, <3>1 DEF TypeOK
    <2> QED
      BY <2>1 DEF PairsAt
  <1>7. ASSUME NEW t \in Session, t # s
        PROVE  PairsAt(t, "initiator")' = PairsAt(t, "initiator")
    BY <1>1, <1>2, <1>7, PairsKept, NoneAssumption DEF TypeOK
  <1>8. Decided' = [Decided EXCEPT ![s] = {p}]
    BY <1>6, <1>7 DEF Decided
  <1>9. ASSUME NEW t \in Session
        PROVE  PairsAt(t, "responder")' = PairsAt(t, "responder")
    BY <1>1, <1>9, PairsKept, NoneAssumption DEF TypeOK
  <1>10. Adopted' = Adopted
    BY <1>9 DEF Adopted
  <1>11. /\ Decided[s] = {}
         /\ \A t \in Session : \A q \in Decided[t] : q[1] # p[1] /\ q[2] # p[2]
    BY <1>4, <1>5 DEF Decided
  <1>12. A!Decide(s, p)
    BY <1>8, <1>10, <1>11 DEF A!Decide
  <1> QED
    BY <1>12

(* The responder adopts the pair its initiator decided on, once.           *)
LEMMA AdoptStep ==
  ASSUME TypeOK, Consistent, [Next]_vars, NEW u \in User, AcceptConfirm(u)
  PROVE  \E s \in Session : A!Adopt(s)
  <1>1. PICK k \in Key, i \in Key :
           /\ session[k] \in Session /\ role[k] = "responder" /\ established[k] = NoKey
           /\ session[i] = session[k] /\ role[i] = "initiator" /\ established[i] = k
           /\ established' = [established EXCEPT ![k] = i]
           /\ session' = session /\ role' = role
    BY ConfirmFacts DEF fields
  <1>2. PICK s \in Session : session[k] = s
    BY <1>1
  <1>3. ASSUME NEW j \in Key, session[j] = s, role[j] = "initiator"
        PROVE  j = i
    BY <1>1, <1>2, <1>3 DEF Consistent, KeysUsed
  <1>4. PairsAt(s, "initiator") = {<<i, k>>}
    <2>1. ASSUME NEW q \in Key \X Key
          PROVE  (/\ session[q[1]] = s /\ role[q[1]] = "initiator"
                  /\ established[q[1]] = q[2]) <=> q = <<i, k>>
      <3>1. PICK q1 \in Key, q2 \in Key : q = <<q1, q2>>
        OBVIOUS
      <3> QED
        BY <1>1, <1>2, <1>3, <3>1
    <2> QED
      BY <2>1 DEF PairsAt
  <1>5. ASSUME NEW j \in Key, session[j] = s, role[j] = "responder"
        PROVE  established[j] = NoKey
    <2>1. SUFFICES ASSUME established[j] # NoKey PROVE FALSE
      OBVIOUS
    <2> DEFINE h == established[j]
    <2>2. /\ h \in Key /\ session[h] = s /\ role[h] = "initiator" /\ established[h] = j
      BY <1>5, <2>1 DEF TypeOK, Consistent, PeersAgree
    <2>3. h = i
      BY <1>3, <2>2
    <2> QED
      BY <1>1, <2>1, <2>2, <2>3
  <1>6. PairsAt(s, "responder") = {}
    BY <1>5, NoneAssumption DEF PairsAt
  <1>7. PairsAt(s, "responder")' = {<<k, i>>}
    <2>1. ASSUME NEW q \in Key \X Key
          PROVE  (/\ session'[q[1]] = s /\ role'[q[1]] = "responder"
                  /\ established'[q[1]] = q[2]) <=> q = <<k, i>>
      <3>1. PICK q1 \in Key, q2 \in Key : q = <<q1, q2>>
        OBVIOUS
      <3> QED
        BY <1>1, <1>2, <1>5, <3>1, NoneAssumption DEF TypeOK
    <2> QED
      BY <2>1 DEF PairsAt
  <1>8. ASSUME NEW t \in Session, t # s
        PROVE  PairsAt(t, "responder")' = PairsAt(t, "responder")
    BY <1>1, <1>2, <1>8, PairsKept, NoneAssumption DEF TypeOK
  <1>9. ASSUME NEW t \in Session
        PROVE  PairsAt(t, "initiator")' = PairsAt(t, "initiator")
    BY <1>1, <1>9, PairsKept, NoneAssumption DEF TypeOK
  <1>10. Decided' = Decided
    BY <1>9 DEF Decided
  <1> DEFINE Turned(S) == {p \in Key \X Key : <<p[2], p[1]>> \in S}
  <1>11. Turned({}) = {} /\ Turned({<<k, i>>}) = {<<i, k>>}
    OBVIOUS
  <1>12. Adopted' = [Adopted EXCEPT ![s] = Decided[s]]
    <2>1. Adopted = [t \in Session |-> Turned(PairsAt(t, "responder"))]
      BY DEF Adopted
    <2>2. Adopted' = [t \in Session |-> Turned(PairsAt(t, "responder")')]
      BY DEF Adopted
    <2>3. Turned(PairsAt(s, "responder")') = Decided[s]
      BY <1>4, <1>7, <1>11 DEF Decided
    <2> HIDE DEF Turned
    <2> QED
      BY <2>1, <2>2, <2>3, <1>8
  <1>13. Decided[s] # {} /\ Adopted[s] = {}
    BY <1>4, <1>6, <1>11 DEF Adopted, Decided
  <1>14. A!Adopt(s)
    BY <1>10, <1>12, <1>13 DEF A!Adopt
  <1> QED
    BY <1>14

(* Every step of the managers decides, adopts, or changes nothing of that. *)
LEMMA StepMaps == TypeOK /\ Consistent /\ [Next]_vars => [A!ANext]_(A!avars)
  <1> SUFFICES ASSUME TypeOK, Consistent, [Next]_vars PROVE [A!ANext]_(A!avars)
    OBVIOUS
  <1>1. CASE established' = established
    <2>1. \A s \in Session : /\ PairsAt(s, "initiator")' = PairsAt(s, "initiator")
                            /\ PairsAt(s, "responder")' = PairsAt(s, "responder")
      BY <1>1, PairsKept
    <2>2. Decided' = Decided /\ Adopted' = Adopted
      BY <2>1 DEF Decided, Adopted
    <2> QED
      BY <2>2 DEF A!avars
  <1>2. ASSUME NEW u \in User, AcceptResponse(u) PROVE A!ANext
    BY <1>2, DecideStep DEF A!ANext
  <1>3. ASSUME NEW u \in User, AcceptConfirm(u) PROVE A!ANext
    BY <1>3, AdoptStep DEF A!ANext
  <1> QED
    BY <1>1, <1>2, <1>3, WhoEstablishes
-----------------------------------------------------------------------------
(* The two invariants and the types are one induction.                     *)
LEMMA Induction == Spec => [](TypeOK /\ Consistent /\ Accounted)
  <1>1. Init => TypeOK /\ Consistent /\ Accounted
    BY InitType, InitConsistent
  <1>2. TypeOK /\ Consistent /\ Accounted /\ [Next]_vars
          => (TypeOK /\ Consistent /\ Accounted)'
    BY TypeStep, ConsistentStep, AccountedStep
  <1> QED
    BY <1>1, <1>2, PTL DEF Spec

(* Tables, handlers, timers and frames always have their types.            *)
THEOREM HandshakeTypeCorrect == Spec => []TypeOK
  BY Induction, PTL

(* Handlers, timers and frames fit together, whatever is lost or repeated. *)
THEOREM ConsistentCorrect == Spec => []Consistent
  BY Induction, PTL

(* No handshake is lost: what is not pending any more was reported.        *)
THEOREM AccountedTheorem == Spec => []Accounted
  BY Induction, PTL

(* The managers of a session agree on its keys, for any number of users,   *)
(* sessions and keys.                                                      *)
THEOREM AgreementTheorem == Spec => ImplementsAgreement
  <1>1. Init => A!AInit
    BY InitMaps
  <1>2. TypeOK /\ Consistent /\ [Next]_vars => [A!ANext]_(A!avars)
    BY StepMaps
  <1> QED
    BY <1>1, <1>2, Induction, PTL DEF Spec, ImplementsAgreement, A!ASpec
=============================================================================
