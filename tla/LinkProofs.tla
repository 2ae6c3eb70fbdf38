----------------------------- MODULE LinkProofs -----------------------------
(***************************************************************************)
(* Proofs about Link, for any number of connections and attempts.          *)
(***************************************************************************)
EXTENDS Link, TLAPS

Inv == TypeOK /\ Orderly /\ UserKnows /\ FreshSessions

LEMMA InvInit == Init => Inv
<1> SUFFICES ASSUME Init PROVE Inv
  OBVIOUS
<1>1. attempt \in 0..MaxAttempts
  BY AttemptsAssumption DEF Init
<1>2. sock \in [Sock -> {"unused", "open", "down", "closed"}]
  BY DEF Init
<1>3. TypeOK
  BY <1>1, <1>2, Zenon DEF Init, TypeOK
<1>4. Orderly /\ UserKnows /\ FreshSessions
  BY Zenon DEF Init, Orderly, ConnectedWhileServed, FirstThingsFirst,
               NothingUnhooked, UserKnows, FreshSessions, Ended
<1> QED
  BY <1>3, <1>4 DEF Inv

(* Types, action by action.                                                *)
LEMMA TypeStep == TypeOK /\ Orderly /\ [Next]_vars => TypeOK'
<1> SUFFICES ASSUME TypeOK, Orderly, [Next]_vars
             PROVE  TypeOK'
  OBVIOUS
<1> USE AttemptsAssumption DEF TypeOK, Orderly, conn, user
<1>0. ASSUME Failed PROVE attempt' \in 0..MaxAttempts
  BY <1>0 DEF Failed
<1>1. CASE DialFails
  BY <1>0, <1>1, Zenon DEF DialFails, Failed, Tell
<1>2. ASSUME NEW s \in Sock, DialOk(s)
      PROVE  TypeOK'
  BY <1>2 DEF DialOk
<1>3. CASE AuthFails
  BY <1>3 DEF AuthFails
<1>4. CASE AuthOk
  BY <1>4 DEF AuthOk, OnReconnected, Tell
<1>5. CASE CloseDone
  BY <1>0, <1>5, Zenon DEF CloseDone, Failed, Tell
<1>13. CASE OnDisconnectedRaises \/ OnReconnectedRaises
  <2>1. loop' = "crashed" /\ secured' \in {secured, {}} /\ connected' \in BOOLEAN
    BY <1>13 DEF OnDisconnectedRaises, OnReconnectedRaises, Crashes
  <2>2. UNCHANGED <<attempt, ws, sock, tried, stop, shell, hooked, told>>
    BY <1>13 DEF OnDisconnectedRaises, OnReconnectedRaises, Crashes
  <2>3. secured' \in SUBSET Sock
    BY <2>1
  <2> QED
    BY <2>1, <2>2, <2>3, Zenon
<1>6. CASE PumpEnds \/ PumpRaises
  <2>1. Lost
    BY <1>6 DEF PumpEnds, PumpRaises
  <2>2. attempt' \in 0..MaxAttempts
    BY <2>1 DEF Lost
  <2> QED
    BY <2>1, <2>2, Zenon DEF Lost, Tell
<1>7. CASE WakeUp
  BY <1>7 DEF WakeUp, Tell
<1>8. CASE Shell
  BY <1>8 DEF Shell, ConnectReturns, ConnectTimesOut, Hook, CloseSocket, Joined,
              ShellGoes
<1>9. CASE ConnectWs \/ Close
  BY <1>9 DEF ConnectWs, Close, ShellGoes
<1>10. CASE Establish
  BY <1>10 DEF Establish, ConnectedWhileServed
<1>11. ASSUME NEW s \in Sock, GoDown(s)
       PROVE  TypeOK'
  BY <1>11 DEF GoDown
<1>12. CASE UNCHANGED vars
  BY <1>12 DEF vars
<1> QED
  BY <1>1, <1>2, <1>3, <1>4, <1>5, <1>6, <1>7, <1>8, <1>9, <1>10, <1>11, <1>12, <1>13
     DEF Next, Loop

(* The rest of the invariant, action by action.  The sets of names are     *)
(* spelled out in TypeOK.                                                  *)
LEMMA OrderlyStep ==
    Inv /\ [Next]_vars => Orderly' /\ UserKnows' /\ FreshSessions'
<1> SUFFICES ASSUME Inv, [Next]_vars
             PROVE  Orderly' /\ UserKnows' /\ FreshSessions'
  OBVIOUS
<1> USE SockAssumption, AttemptsAssumption
    DEF Inv, TypeOK, Orderly, ConnectedWhileServed, FirstThingsFirst,
        NothingUnhooked, UserKnows, FreshSessions, Ended, conn, user
<1>1. CASE DialFails
  <2>1. ConnectedWhileServed'
    BY <1>1 DEF DialFails, Failed, Tell
  <2>2. FirstThingsFirst'
    BY <1>1 DEF DialFails, Failed, Tell
  <2>3. NothingUnhooked'
    BY <1>1 DEF DialFails, Failed, Tell
  <2>4. UserKnows'
    BY <1>1 DEF DialFails, Failed, Tell
  <2>5. FreshSessions'
    BY <1>1 DEF DialFails, Failed, Tell
  <2> QED
    BY <2>1, <2>2, <2>3, <2>4, <2>5
<1>2. ASSUME NEW s \in Sock, DialOk(s)
      PROVE  Orderly' /\ UserKnows' /\ FreshSessions'
  BY <1>2 DEF DialOk
<1>3. CASE AuthFails
  BY <1>3 DEF AuthFails
<1>4. CASE AuthOk
  BY <1>4 DEF AuthOk, OnReconnected, Tell
<1>5. CASE CloseDone
  <2>1. ConnectedWhileServed'
    BY <1>5 DEF CloseDone, Failed, Tell
  <2>2. FirstThingsFirst'
    BY <1>5 DEF CloseDone, Failed, Tell
  <2>3. NothingUnhooked'
    BY <1>5 DEF CloseDone, Failed, Tell
  <2>4. UserKnows'
    BY <1>5 DEF CloseDone, Failed, Tell
  <2>5. FreshSessions'
    BY <1>5 DEF CloseDone, Failed, Tell
  <2> QED
    BY <2>1, <2>2, <2>3, <2>4, <2>5
<1>13. CASE OnDisconnectedRaises \/ OnReconnectedRaises
  BY <1>13 DEF OnDisconnectedRaises, OnReconnectedRaises, Crashes
<1>6. CASE PumpEnds \/ PumpRaises
  BY <1>6 DEF PumpEnds, PumpRaises, Lost, Tell
<1>7. CASE WakeUp
  <2>1. ConnectedWhileServed'
    BY <1>7 DEF WakeUp, Tell
  <2>2. FirstThingsFirst'
    BY <1>7 DEF WakeUp, Tell
  <2>3. NothingUnhooked'
    BY <1>7 DEF WakeUp, Tell
  <2>4. UserKnows'
    BY <1>7 DEF WakeUp, Tell
  <2>5. FreshSessions'
    BY <1>7 DEF WakeUp, Tell
  <2> QED
    BY <2>1, <2>2, <2>3, <2>4, <2>5
<1>8. CASE Shell
  <2>1. ConnectedWhileServed'
    BY <1>8 DEF Shell, ConnectReturns, ConnectTimesOut, Hook, CloseSocket, Joined, ShellGoes
  <2>2. FirstThingsFirst'
    BY <1>8 DEF Shell, ConnectReturns, ConnectTimesOut, Hook, CloseSocket, Joined, ShellGoes
  <2>3. NothingUnhooked'
    BY <1>8 DEF Shell, ConnectReturns, ConnectTimesOut, Hook, CloseSocket, Joined, ShellGoes
  <2>4. UserKnows'
    BY <1>8 DEF Shell, ConnectReturns, ConnectTimesOut, Hook, CloseSocket, Joined, ShellGoes
  <2>5. FreshSessions'
    BY <1>8 DEF Shell, ConnectReturns, ConnectTimesOut, Hook, CloseSocket, Joined, ShellGoes
  <2> QED
    BY <2>1, <2>2, <2>3, <2>4, <2>5
<1>9. CASE ConnectWs \/ Close
  <2>1. CASE ConnectWs
    BY <2>1 DEF ConnectWs, ShellGoes
  <2>2. CASE Close
    BY <2>2 DEF Close, ShellGoes
  <2> QED
    BY <1>9, <2>1, <2>2
<1>10. CASE Establish
  BY <1>10 DEF Establish
<1>11. ASSUME NEW s \in Sock, GoDown(s)
       PROVE  Orderly' /\ UserKnows' /\ FreshSessions'
  BY <1>11 DEF GoDown
<1>12. CASE UNCHANGED vars
  BY <1>12 DEF vars
<1> QED
  BY <1>1, <1>2, <1>3, <1>4, <1>5, <1>6, <1>7, <1>8, <1>9, <1>10, <1>11, <1>12, <1>13
     DEF Next, Loop

LEMMA Invariance == Spec => []Inv
<1>1. Inv /\ [Next]_vars => Inv'
  BY TypeStep, OrderlyStep DEF Inv
<1> QED
  BY InvInit, <1>1, PTL DEF Spec

(* Every reachable state is well typed; in particular a lost connection is *)
(* never tried more than MaxAttempts times (_reconnect_with_backoff).      *)
THEOREM LinkTypeCorrect == Spec => []TypeOK
BY Invariance, PTL DEF Inv

(* The fields the two threads share stay consistent (connected, _ws, _stop *)
(* and the callbacks), until a callback ends the loop thread.              *)
THEOREM OrderlyCorrect == Spec => []Orderly
BY Invariance, PTL DEF Inv

(* What the user was last told agrees with `connected', except after a     *)
(* loss nobody heard of, or a callback that ended the loop thread.         *)
THEOREM UserKnowsTheorem == Spec => []UserKnows
BY Invariance, PTL DEF Inv

(* No session survives a reconnection.                                     *)
THEOREM FreshTheorem == Spec => []FreshSessions
BY Invariance, PTL DEF Inv
=============================================================================
