----------------------------- MODULE RelayProofs -----------------------------
EXTENDS Relay, TLAPS

(* The server starts with empty tables: every variable has its type.       *)
LEMMA InitType == Init => TypeOK
  BY NoneAssumption DEF Init, TypeOK, PC

(* The exception handler of send_to keeps the type of the socket table.    *)
SocketTableType == /\ active' \in [User -> Conn \cup {NoConn}]
                   /\ strayed' \in SUBSET User
                   /\ cut' \in SUBSET Conn

LEMMA DropEntryType ==
  ASSUME TypeOK, NEW d \in Conn, DropEntry(d)
  PROVE  SocketTableType
  BY UserAssumption DEF TypeOK, DropEntry, Disconnect, SocketTableType

(* So does a send_to that returns False at once ...                        *)
LEMMA UnreachableType ==
  ASSUME TypeOK, NEW t \in User, Unreachable(t) \/ DropGarbled(t)
  PROVE  SocketTableType
  BY DropEntryType DEF TypeOK, Unreachable, DropFailed, DropGarbled, SocketTableType

(* ... and one whose result nobody looks at.                               *)
LEMMA SendAndForgetType ==
  ASSUME TypeOK, NEW t \in User, SendAndForget(t)
  PROVE  SocketTableType
  BY UnreachableType DEF TypeOK, SendAndForget, SocketTableType

(* other_party returns an account or nothing.                              *)
LEMMA OtherPartyType ==
  ASSUME TypeOK, NEW s \in SessionId, NEW u \in User
  PROVE  OtherParty(s, u) \in User \cup {Nobody}
  BY DEF TypeOK, OtherParty

(* What a client is told is a session identifier.                          *)
LEMMA LearnType ==
  ASSUME TypeOK, NEW s \in SessionId, NEW t \in User, active[t] # NoConn
  PROVE  Learn(t, s) \in [Conn -> SUBSET SessionId]
  BY DEF TypeOK, Learn

(* The finally block owes a SESSION_END to real users only: both parties of*)
(* a live session are known when its entry is dropped.                     *)
LEMMA EndedSessionsType ==
  ASSUME TypeOK, Bookkeeping, NEW u \in User
  PROVE  EndedSessions(u) \in SUBSET (SessionId \X User)
  <1> SUFFICES ASSUME NEW s \in SessionsOf(u)
               PROVE  s \in SessionId /\ OtherParty(s, u) \in User
    BY DEF EndedSessions
  <1> QED
    BY NoneAssumption DEF SessionsOf, OtherParty, TypeOK, Bookkeeping, MintedTogether

(* Every stretch of a task keeps the types.                                *)
LEMMA TypeStep == TypeOK /\ Bookkeeping /\ [Next]_vars => TypeOK'
  <1> SUFFICES ASSUME TypeOK, Bookkeeping, [Next]_vars PROVE TypeOK'
    OBVIOUS
  <1> USE NoneAssumption, UserAssumption
  <1> USE DEF TypeOK, PC, Loop, SocketTableType
  <1>1. CASE UNCHANGED vars
    BY <1>1 DEF vars, tables, task, history
  <1>2. ASSUME NEW c \in Conn, AuthFails(c) PROVE TypeOK'
    BY <1>2 DEF AuthFails, tables, history
  <1>3. ASSUME NEW c \in Conn, Register(c) PROVE TypeOK'
    BY <1>3 DEF Register, Enter
  <1>4. ASSUME NEW c \in Conn, CloseOld(c) PROVE TypeOK'
    BY <1>4 DEF CloseOld, tables, history
  <1>5. ASSUME NEW c \in Conn, TakeOver(c) PROVE TypeOK'
    BY <1>5 DEF TakeOver, Enter
  <1>6. ASSUME NEW c \in Conn, Greet(c) PROVE TypeOK'
    BY <1>6 DEF Greet, Broadcasting, Online, tables, history
  <1>7. ASSUME NEW c \in Conn, GreetFails(c) PROVE TypeOK'
    BY <1>7 DEF GreetFails, tables, history
  <1>8. ASSUME NEW c \in Conn, NEW v \in User, Announce(c, v) PROVE TypeOK'
    BY <1>8, SendAndForgetType DEF Announce, Broadcasting
  <1>9. ASSUME NEW c \in Conn, JustReply(c) PROVE TypeOK'
    BY <1>9 DEF JustReply, GoTo, tables, history
  <1>10. ASSUME NEW c \in Conn, Reply(c) PROVE TypeOK'
    BY <1>10, SendAndForgetType DEF Reply, GoTo, NextFrame
  <1>11. ASSUME NEW c \in Conn, NEW t \in User, ConnectRequest(c, t) PROVE TypeOK'
    BY <1>11, UnreachableType DEF ConnectRequest, BeginSend, FailSend, AddRequest,
       PopPending, GoTo, Writable
  <1>12. ASSUME NEW c \in Conn, NEW t \in User, NEW s \in SessionId, AcceptRequest(c,
      t, s) PROVE TypeOK'
    <2>1. active[t] # NoConn => Learn(t, s) \in [Conn -> SUBSET SessionId]
      BY LearnType
    <2>2. Unreachable(t) => SocketTableType
      BY UnreachableType
    <2>3. /\ pending' \in [User -> SUBSET User]
          /\ initiator' \in [SessionId -> User \cup {Nobody}]
          /\ responder' \in [SessionId -> User \cup {Nobody}]
          /\ UNCHANGED <<todo, rest, link, withdrawn>>
      BY <1>12 DEF AcceptRequest, Mint, PopPending
    <2>4. CASE BeginSend(c, t, "response") /\ live' = live \cup {s} /\ about' = [about
        EXCEPT ![c] = s] /\ knows' = Learn(t, s)
      BY <2>1, <2>3, <2>4 DEF BeginSend, GoTo, Writable
    <2>5. CASE FailSend(c, t) /\ UNCHANGED <<live, about, knows>>
      BY <2>2, <2>3, <2>5 DEF FailSend, GoTo
    <2> QED
      BY <1>12, <2>4, <2>5 DEF AcceptRequest
  <1>13. ASSUME NEW c \in Conn, NEW t \in User, DenyRequest(c, t) PROVE TypeOK'
    BY <1>13, UnreachableType DEF DenyRequest, BeginSend, FailSend, PopPending, GoTo,
       Writable
  <1>14. ASSUME NEW c \in Conn, NEW s \in SessionId, Route(c, s) PROVE TypeOK'
    <2> DEFINE t == OtherParty(s, user[c])
    <2>1. t \in User
      BY <1>14, OtherPartyType DEF Route
    <2> HIDE DEF t
    <2>2. active[t] # NoConn => Learn(t, s) \in [Conn -> SUBSET SessionId]
      BY <2>1, LearnType
    <2>3. Unreachable(t) \/ DropGarbled(t) => SocketTableType
      BY <2>1, UnreachableType
    <2>4. \/ BeginSend(c, t, "route") /\ knows' = Learn(t, s)
          \/ FailSend(c, t) /\ UNCHANGED knows
          \/ DropGarbled(t) /\ GoTo(c, "reply") /\ UNCHANGED <<sending, knows>>
      BY <1>14 DEF Route, t
    <2> QED
      BY <1>14, <2>1, <2>2, <2>3, <2>4 DEF Route, BeginSend, FailSend, GoTo, Writable
  <1>15. ASSUME NEW c \in Conn, NEW s \in SessionId, SessionEnd(c, s) PROVE TypeOK'
    BY <1>15, SendAndForgetType, OtherPartyType DEF SessionEnd, GoTo, NextFrame
  <1>16. ASSUME NEW c \in Conn, Sent(c) PROVE TypeOK'
    BY <1>16 DEF Sent, GoTo, NextFrame, tables, history
  <1>17. ASSUME NEW c \in Conn, SendFailed(c) PROVE TypeOK'
    BY <1>17, DropEntryType DEF SendFailed, DropFailed, Bookkeeping, SendsRouted, PopPending, GoTo
  <1>18. ASSUME NEW c \in Conn, Lose(c) PROVE TypeOK'
    BY <1>18 DEF Lose, tables, task, history
  <1>19. ASSUME NEW c \in Conn, Expire(c) PROVE TypeOK'
    BY <1>19 DEF Expire, tables, task, history
  <1>20. ASSUME NEW c \in Conn, Cleanup(c) \/ Breaks(c) PROVE TypeOK'
    <2>1. EndedSessions(user[c]) \in SUBSET (SessionId \X User)
      BY EndedSessionsType
    <2>2. ClearForUser(user[c]) \in [User -> SUBSET User]
      BY DEF ClearForUser
    <2>3. /\ pc' \in [Conn -> PC]
          /\ rest' \in [Conn -> SUBSET User]
          /\ todo' \in [Conn -> SUBSET (SessionId \X User)]
      BY <1>20, <2>1 DEF Cleanup, Breaks, Finally, Parting, Broadcasting, GoTo, Online
    <2>4. /\ active' \in [User -> Conn \cup {NoConn}]
          /\ pending' \in [User -> SUBSET User]
          /\ live' \in SUBSET SessionId
      BY <1>20, <2>2 DEF Cleanup, Breaks, Finally, Disconnect
    <2> QED
      BY <1>20, <2>3, <2>4 DEF Cleanup, Breaks, Finally, history
  <1>21. ASSUME NEW c \in Conn, NEW v \in User, NEW s \in SessionId, Farewell(c, s, v)
      PROVE TypeOK'
    <2>1. SocketTableType
      BY <1>21, SendAndForgetType DEF Farewell
    <2>2. /\ pc' \in [Conn -> PC]
          /\ rest' \in [Conn -> SUBSET User]
          /\ todo' \in [Conn -> SUBSET (SessionId \X User)]
      BY <1>21 DEF Farewell, Parting, Broadcasting, GoTo
    <2>3. knows' \in [Conn -> SUBSET SessionId]
      BY <1>21 DEF Farewell
    <2> QED
      BY <1>21, <2>1, <2>2, <2>3 DEF Farewell
  <1>22. ASSUME NEW c \in Conn, NEW v \in User, Offline(c, v) PROVE TypeOK'
    BY <1>22, SendAndForgetType DEF Offline, Broadcasting
  <1>23. ASSUME NEW c \in Conn, EchoGarbled(c) PROVE TypeOK'
    BY <1>23, UnreachableType DEF EchoGarbled, GoTo, NextFrame
  <1> QED
    BY <1>1, <1>2, <1>3, <1>4, <1>5, <1>6, <1>7, <1>8, <1>9, <1>10, <1>11, <1>12,
       <1>13, <1>14, <1>15, <1>16, <1>17, <1>18, <1>19, <1>20, <1>21, <1>22, <1>23
    DEF Next, Client, Task, Frame
-----------------------------------------------------------------------------
(* A send takes nobody's entry away but that of a user who strays by it,   *)
(* and an open socket that loses its entry is among the cut ones.          *)
Shrinks == /\ \A u \in User : \/ active'[u] = active[u]
                              \/ /\ active'[u] = NoConn /\ u \in strayed'
                                 /\ link[active[u]] = "open" => active[u] \in cut'
           /\ strayed \subseteq strayed' /\ cut \subseteq cut'

(* send_to's exception handler only ever removes the entry of the socket   *)
(* that failed, and its user counts as strayed from then on.               *)
LEMMA DropEntryShrinks ==
  ASSUME TypeOK, NEW d \in Conn, DropEntry(d)
  PROVE  Shrinks
  BY UserAssumption DEF TypeOK, DropEntry, Disconnect, Shrinks

(* The same of a send_to that returns False at once ...                    *)
LEMMA UnreachableShrinks ==
  ASSUME TypeOK, NEW t \in User, Unreachable(t) \/ DropGarbled(t)
  PROVE  Shrinks
  BY DropEntryShrinks DEF TypeOK, Unreachable, DropFailed, DropGarbled, Shrinks

(* ... and of one whose result nobody looks at.                            *)
LEMMA SendAndForgetShrinks ==
  ASSUME TypeOK, NEW t \in User, SendAndForget(t)
  PROVE  Shrinks
  BY UnreachableShrinks DEF SendAndForget, Shrinks

(* With no connection and no session there is nothing to keep consistent.  *)
LEMMA InitBookkeeping == Init => Bookkeeping
  BY NoneAssumption DEF Init, Bookkeeping, EntriesNamed, TasksRegistered, SendsRouted,
     MintedTogether, NothingToldEarly, LeavingIsClosed, TodoInFarewell, Loop, Routing,
         Unregistered

(* Bookkeeping in two halves, each inductive by itself: registration and   *)
(* routing, and the last stretch of a task.                                *)
Entered == EntriesNamed /\ TasksRegistered /\ SendsRouted /\ MintedTogether /\
    NothingToldEarly
LastStretch == LeavingIsClosed /\ TodoInFarewell

(* The entries of the tables and the tasks suspended in the receive loop   *)
(* stay consistent over every step.                                        *)
LEMMA EnteredStep == TypeOK /\ TypeOK' /\ Entered /\ [Next]_vars => Entered'
  <1> SUFFICES ASSUME TypeOK, TypeOK', Entered, [Next]_vars PROVE Entered'
    OBVIOUS
  <1> USE NoneAssumption, UserAssumption
  <1> USE DEF TypeOK, PC, Loop, Routing, Unregistered, Entered, EntriesNamed,
          TasksRegistered, SendsRouted, MintedTogether, NothingToldEarly
  <1>1. CASE UNCHANGED vars
    BY <1>1 DEF vars, tables, task, history
  <1>2. ASSUME NEW c \in Conn, AuthFails(c) PROVE Entered'
    BY <1>2 DEF AuthFails, tables, history
  <1>3. ASSUME NEW c \in Conn, Register(c) PROVE Entered'
    BY <1>3 DEF Register, Enter
  <1>4. ASSUME NEW c \in Conn, CloseOld(c) PROVE Entered'
    BY <1>4 DEF CloseOld, tables, history
  <1>5. ASSUME NEW c \in Conn, TakeOver(c) PROVE Entered'
    BY <1>5 DEF TakeOver, Enter
  <1>6. ASSUME NEW c \in Conn, Greet(c) PROVE Entered'
    BY <1>6 DEF Greet, Broadcasting, tables, history
  <1>7. ASSUME NEW c \in Conn, GreetFails(c) PROVE Entered'
    BY <1>7 DEF GreetFails, tables, history
  <1>8. ASSUME NEW c \in Conn, NEW v \in User, Announce(c, v) PROVE Entered'
    BY <1>8, SendAndForgetShrinks DEF Announce, Broadcasting, Shrinks
  <1>9. ASSUME NEW c \in Conn, JustReply(c) PROVE Entered'
    BY <1>9 DEF JustReply, GoTo, tables, history
  <1>10. ASSUME NEW c \in Conn, Reply(c) PROVE Entered'
    BY <1>10, SendAndForgetShrinks DEF Reply, GoTo, NextFrame, Shrinks
  <1>11. ASSUME NEW c \in Conn, NEW t \in User, ConnectRequest(c, t) PROVE Entered'
    BY <1>11, UnreachableShrinks DEF ConnectRequest, BeginSend, FailSend, GoTo,
       Writable, Shrinks
  <1>12. ASSUME NEW c \in Conn, NEW t \in User, NEW s \in SessionId, AcceptRequest(c,
      t, s) PROVE Entered'
    <2>1. /\ pc[c] = "serve"
          /\ initiator[s] = Nobody
          /\ initiator' = [initiator EXCEPT ![s] = t]
          /\ responder' = [responder EXCEPT ![s] = user[c]]
          /\ UNCHANGED link
      BY <1>12 DEF AcceptRequest, Mint
    <2>2. CASE /\ BeginSend(c, t, "response")
               /\ live' = live \cup {s}
               /\ about' = [about EXCEPT ![c] = s]
               /\ knows' = Learn(t, s)
      <3>1. EntriesNamed' /\ TasksRegistered' /\ SendsRouted'
        BY <2>1, <2>2 DEF BeginSend, GoTo, Writable
      <3>2. MintedTogether'
        BY <2>1, <2>2
      <3>3. NothingToldEarly'
        BY <2>1, <2>2 DEF BeginSend, GoTo, Writable, Learn
      <3> QED
        BY <3>1, <3>2, <3>3
    <2>3. CASE FailSend(c, t) /\ UNCHANGED <<live, about, knows>>
      <3>1. EntriesNamed' /\ TasksRegistered' /\ SendsRouted'
        BY <2>1, <2>3, UnreachableShrinks DEF FailSend, GoTo, Shrinks
      <3>2. MintedTogether'
        BY <2>1, <2>3
      <3>3. NothingToldEarly'
        BY <2>1, <2>3 DEF FailSend, GoTo
      <3> QED
        BY <3>1, <3>2, <3>3
    <2> QED
      BY <1>12, <2>2, <2>3 DEF AcceptRequest
  <1>13. ASSUME NEW c \in Conn, NEW t \in User, DenyRequest(c, t) PROVE Entered'
    BY <1>13, UnreachableShrinks DEF DenyRequest, BeginSend, FailSend, GoTo, Writable,
       Shrinks
  <1>14. ASSUME NEW c \in Conn, NEW s \in SessionId, Route(c, s) PROVE Entered'
    <2> DEFINE t == OtherParty(s, user[c])
    <2>1. t \in User
      BY <1>14, OtherPartyType DEF Route
    <2>2. /\ \/ BeginSend(c, t, "route") /\ knows' = Learn(t, s)
             \/ FailSend(c, t) /\ UNCHANGED knows
             \/ DropGarbled(t) /\ GoTo(c, "reply") /\ UNCHANGED <<sending, knows>>
          /\ pc[c] = "serve"
          /\ UNCHANGED <<live, initiator, responder, about, link>>
      BY <1>14 DEF Route
    <2> HIDE DEF t
    <2>3. CASE BeginSend(c, t, "route") /\ knows' = Learn(t, s)
      BY <2>1, <2>2, <2>3 DEF BeginSend, GoTo, Writable, Learn
    <2>4. CASE /\ Unreachable(t) \/ DropGarbled(t)
               /\ GoTo(c, "reply") /\ UNCHANGED <<sending, knows>>
      BY <2>1, <2>2, <2>4, UnreachableShrinks DEF GoTo, Shrinks
    <2> QED
      BY <2>2, <2>3, <2>4 DEF FailSend
  <1>15. ASSUME NEW c \in Conn, NEW s \in SessionId, SessionEnd(c, s) PROVE Entered'
    BY <1>15, SendAndForgetShrinks, OtherPartyType DEF SessionEnd, GoTo, NextFrame,
       Shrinks
  <1>16. ASSUME NEW c \in Conn, Sent(c) PROVE Entered'
    BY <1>16 DEF Sent, GoTo, NextFrame, tables, history
  <1>17. ASSUME NEW c \in Conn, SendFailed(c) PROVE Entered'
    BY <1>17, DropEntryShrinks DEF SendFailed, DropFailed, GoTo, Shrinks
  <1>18. ASSUME NEW c \in Conn, Lose(c) PROVE Entered'
    BY <1>18 DEF Lose, tables, task, history
  <1>19. ASSUME NEW c \in Conn, Expire(c) PROVE Entered'
    BY <1>19 DEF Expire, tables, task, history
  <1>20. ASSUME NEW c \in Conn, Cleanup(c) \/ Breaks(c) PROVE Entered'
    <2>1. /\ Finally(c)
          /\ pc[c] = "serve" \/ pc[c] = "leaving"
      BY <1>20 DEF Cleanup, Breaks
    <2>2. EntriesNamed' /\ SendsRouted' /\ NothingToldEarly'
      BY <2>1 DEF Finally, Parting, Broadcasting, GoTo, Disconnect, history
    <2>3. TasksRegistered'
      BY <2>1 DEF Finally, Parting, Broadcasting, GoTo, Disconnect, history
    <2>4. MintedTogether'
      BY <2>1 DEF Finally
    <2> QED
      BY <2>2, <2>3, <2>4
  <1>21. ASSUME NEW c \in Conn, NEW s \in SessionId, NEW v \in User, Farewell(c, s, v)
      PROVE Entered'
    BY <1>21, SendAndForgetShrinks DEF Farewell, Parting, Broadcasting, GoTo, Writable,
       Shrinks
  <1>22. ASSUME NEW c \in Conn, NEW v \in User, Offline(c, v) PROVE Entered'
    BY <1>22, SendAndForgetShrinks DEF Offline, Broadcasting, Shrinks
  <1>23. ASSUME NEW c \in Conn, EchoGarbled(c) PROVE Entered'
    BY <1>23, UnreachableShrinks DEF EchoGarbled, GoTo, NextFrame, Shrinks
  <1> QED
    BY <1>1, <1>2, <1>3, <1>4, <1>5, <1>6, <1>7, <1>8, <1>9, <1>10, <1>11, <1>12,
       <1>13, <1>14, <1>15, <1>16, <1>17, <1>18, <1>19, <1>20, <1>21, <1>22, <1>23 DEF Next,
       Client, Task, Frame

(* Only a finally block owes messages, and only a closed socket leaves its *)
(* loop: kept by every step.                                               *)
LEMMA LeavingStep == TypeOK /\ LastStretch /\ [Next]_vars => LastStretch'
  <1> SUFFICES ASSUME TypeOK, LastStretch, [Next]_vars PROVE LastStretch'
    OBVIOUS
  <1> USE DEF TypeOK, LastStretch, LeavingIsClosed, TodoInFarewell
  <1>1. CASE UNCHANGED vars
    BY <1>1 DEF vars, tables, task, history
  <1>2. ASSUME NEW c \in Conn, AuthFails(c) PROVE LastStretch'
    BY <1>2 DEF AuthFails
  <1>3. ASSUME NEW c \in Conn, Register(c) PROVE LastStretch'
    BY <1>3 DEF Register, Enter
  <1>4. ASSUME NEW c \in Conn, CloseOld(c) PROVE LastStretch'
    BY <1>4 DEF CloseOld
  <1>5. ASSUME NEW c \in Conn, TakeOver(c) PROVE LastStretch'
    BY <1>5 DEF TakeOver, Enter
  <1>6. ASSUME NEW c \in Conn, Greet(c) PROVE LastStretch'
    BY <1>6 DEF Greet, Broadcasting
  <1>7. ASSUME NEW c \in Conn, GreetFails(c) PROVE LastStretch'
    BY <1>7 DEF GreetFails
  <1>8. ASSUME NEW c \in Conn, NEW v \in User, Announce(c, v) PROVE LastStretch'
    BY <1>8 DEF Announce, Broadcasting
  <1>9. ASSUME NEW c \in Conn, JustReply(c) PROVE LastStretch'
    BY <1>9 DEF JustReply, GoTo
  <1>10. ASSUME NEW c \in Conn, Reply(c) PROVE LastStretch'
    BY <1>10 DEF Reply, GoTo, NextFrame
  <1>11. ASSUME NEW c \in Conn, NEW t \in User, ConnectRequest(c, t) PROVE LastStretch'
    BY <1>11 DEF ConnectRequest, BeginSend, FailSend, GoTo
  <1>12. ASSUME NEW c \in Conn, NEW t \in User, NEW s \in SessionId, AcceptRequest(c,
      t, s) PROVE LastStretch'
    BY <1>12 DEF AcceptRequest, BeginSend, FailSend, GoTo
  <1>13. ASSUME NEW c \in Conn, NEW t \in User, DenyRequest(c, t) PROVE LastStretch'
    BY <1>13 DEF DenyRequest, BeginSend, FailSend, GoTo
  <1>14. ASSUME NEW c \in Conn, NEW s \in SessionId, Route(c, s) PROVE LastStretch'
    BY <1>14 DEF Route, BeginSend, FailSend, GoTo
  <1>15. ASSUME NEW c \in Conn, NEW s \in SessionId, SessionEnd(c, s) PROVE LastStretch'
    BY <1>15 DEF SessionEnd, GoTo, NextFrame
  <1>16. ASSUME NEW c \in Conn, Sent(c) PROVE LastStretch'
    BY <1>16 DEF Sent, GoTo, NextFrame, Routing
  <1>17. ASSUME NEW c \in Conn, SendFailed(c) PROVE LastStretch'
    BY <1>17 DEF SendFailed, GoTo, Routing
  <1>18. ASSUME NEW c \in Conn, Lose(c) PROVE LastStretch'
    BY <1>18 DEF Lose, task
  <1>19. ASSUME NEW c \in Conn, Expire(c) PROVE LastStretch'
    BY <1>19 DEF Expire, task
  <1>20. ASSUME NEW c \in Conn, Cleanup(c) \/ Breaks(c) PROVE LastStretch'
    BY <1>20 DEF Cleanup, Breaks, Finally, Parting, Broadcasting, GoTo
  <1>21. ASSUME NEW c \in Conn, NEW s \in SessionId, NEW v \in User, Farewell(c, s, v)
      PROVE LastStretch'
    BY <1>21 DEF Farewell, Parting, Broadcasting, GoTo
  <1>22. ASSUME NEW c \in Conn, NEW v \in User, Offline(c, v) PROVE LastStretch'
    BY <1>22 DEF Offline, Broadcasting
  <1>23. ASSUME NEW c \in Conn, EchoGarbled(c) PROVE LastStretch'
    BY <1>23 DEF EchoGarbled, GoTo, NextFrame
  <1> QED
    BY <1>1, <1>2, <1>3, <1>4, <1>5, <1>6, <1>7, <1>8, <1>9, <1>10, <1>11, <1>12,
       <1>13, <1>14, <1>15, <1>16, <1>17, <1>18, <1>19, <1>20, <1>21, <1>22, <1>23 DEF Next,
       Client, Task, Frame

(* The two halves together: Bookkeeping is inductive relative to the types.*)
LEMMA BookkeepingStep == TypeOK /\ TypeOK' /\ Bookkeeping /\ [Next]_vars => Bookkeeping'
  BY EnteredStep, LeavingStep DEF Bookkeeping, Entered, LastStretch
-----------------------------------------------------------------------------
(* No step leaves a request or a session of an absent user behind unless   *)
(* that user strayed.                                                      *)
LEMMA OrphansStep ==
  TypeOK /\ TypeOK' /\ Bookkeeping /\ OrphansOnlyFromStrays /\ [Next]_vars =>
      OrphansOnlyFromStrays'
  <1> SUFFICES ASSUME TypeOK, TypeOK', Bookkeeping, OrphansOnlyFromStrays, [Next]_vars
               PROVE  OrphansOnlyFromStrays'
    OBVIOUS
  <1> USE NoneAssumption, UserAssumption
  <1> USE DEF TypeOK, Loop, Routing, Bookkeeping, EntriesNamed, TasksRegistered,
          SendsRouted, MintedTogether, OrphansOnlyFromStrays, Online
  <1>1. CASE UNCHANGED vars
    BY <1>1 DEF vars, tables, task, history
  <1>2. ASSUME NEW c \in Conn, AuthFails(c) PROVE OrphansOnlyFromStrays'
    BY <1>2 DEF AuthFails, tables, history
  <1>3. ASSUME NEW c \in Conn, Register(c) PROVE OrphansOnlyFromStrays'
    BY <1>3 DEF Register, Enter
  <1>4. ASSUME NEW c \in Conn, CloseOld(c) PROVE OrphansOnlyFromStrays'
    BY <1>4 DEF CloseOld, tables, history
  <1>5. ASSUME NEW c \in Conn, TakeOver(c) PROVE OrphansOnlyFromStrays'
    BY <1>5 DEF TakeOver, Enter
  <1>6. ASSUME NEW c \in Conn, Greet(c) PROVE OrphansOnlyFromStrays'
    BY <1>6 DEF Greet, tables, history
  <1>7. ASSUME NEW c \in Conn, GreetFails(c) PROVE OrphansOnlyFromStrays'
    BY <1>7 DEF GreetFails, tables, history
  <1>8. ASSUME NEW c \in Conn, NEW v \in User, Announce(c, v) PROVE OrphansOnlyFromStrays'
    BY <1>8, SendAndForgetShrinks DEF Announce, Shrinks
  <1>9. ASSUME NEW c \in Conn, JustReply(c) PROVE OrphansOnlyFromStrays'
    BY <1>9 DEF JustReply, tables, history
  <1>10. ASSUME NEW c \in Conn, Reply(c) PROVE OrphansOnlyFromStrays'
    BY <1>10, SendAndForgetShrinks DEF Reply, Shrinks
  <1>11. ASSUME NEW c \in Conn, NEW t \in User, ConnectRequest(c, t) PROVE
      OrphansOnlyFromStrays'
    <2>1. CASE BeginSend(c, t, "request") /\ pending' = AddRequest(user[c], t)
      <3>1. \A v \in User : \A r \in pending'[v] : r \in pending[v] \/ (r = user[c] /\
          v = t)
        BY <2>1 DEF AddRequest
      <3>2. {user[c], t} \subseteq Online \cup strayed
        BY <1>11, <2>1 DEF ConnectRequest, BeginSend, Writable
      <3> QED
        BY <1>11, <2>1, <3>1, <3>2 DEF ConnectRequest, BeginSend
    <2>2. CASE FailSend(c, t) /\ pending' = PopPending(user[c], t)
      <3>1. \A v \in User : pending'[v] \subseteq pending[v]
        BY <2>2 DEF PopPending
      <3> QED
        BY <1>11, <2>2, <3>1, UnreachableShrinks DEF ConnectRequest, FailSend, Shrinks
    <2>3. CASE UNCHANGED <<active, strayed, pending>>
      BY <1>11, <2>3 DEF ConnectRequest
    <2> QED
      BY <1>11, <2>1, <2>2, <2>3 DEF ConnectRequest
  <1>12. ASSUME NEW c \in Conn, NEW t \in User, NEW s \in SessionId, AcceptRequest(c,
      t, s) PROVE OrphansOnlyFromStrays'
    BY <1>12, UnreachableShrinks DEF AcceptRequest, BeginSend, FailSend, PopPending,
       Writable, Mint, Shrinks
  <1>13. ASSUME NEW c \in Conn, NEW t \in User, DenyRequest(c, t) PROVE
      OrphansOnlyFromStrays'
    BY <1>13, UnreachableShrinks DEF DenyRequest, BeginSend, FailSend, PopPending,
       Writable, Shrinks
  <1>14. ASSUME NEW c \in Conn, NEW s \in SessionId, Route(c, s) PROVE
      OrphansOnlyFromStrays'
    BY <1>14, UnreachableShrinks, OtherPartyType DEF Route, BeginSend, FailSend,
       Writable, Shrinks
  <1>15. ASSUME NEW c \in Conn, NEW s \in SessionId, SessionEnd(c, s) PROVE
      OrphansOnlyFromStrays'
    BY <1>15, SendAndForgetShrinks, OtherPartyType DEF SessionEnd, Shrinks
  <1>16. ASSUME NEW c \in Conn, Sent(c) PROVE OrphansOnlyFromStrays'
    BY <1>16 DEF Sent, tables, history
  <1>17. ASSUME NEW c \in Conn, SendFailed(c) PROVE OrphansOnlyFromStrays'
    BY <1>17, DropEntryShrinks DEF SendFailed, DropFailed, PopPending, Shrinks
  <1>18. ASSUME NEW c \in Conn, Lose(c) PROVE OrphansOnlyFromStrays'
    BY <1>18 DEF Lose, tables, history
  <1>19. ASSUME NEW c \in Conn, Expire(c) PROVE OrphansOnlyFromStrays'
    BY <1>19 DEF Expire, tables, history
  <1>20. ASSUME NEW c \in Conn, Cleanup(c) \/ Breaks(c) PROVE OrphansOnlyFromStrays'
    BY <1>20 DEF Cleanup, Breaks, Finally, Disconnect, ClearForUser, SessionsOf, history
  <1>21. ASSUME NEW c \in Conn, NEW s \in SessionId, NEW v \in User, Farewell(c, s, v)
      PROVE OrphansOnlyFromStrays'
    BY <1>21, SendAndForgetShrinks DEF Farewell, Shrinks
  <1>22. ASSUME NEW c \in Conn, NEW v \in User, Offline(c, v) PROVE OrphansOnlyFromStrays'
    BY <1>22, SendAndForgetShrinks DEF Offline, Shrinks
  <1>23. ASSUME NEW c \in Conn, EchoGarbled(c) PROVE OrphansOnlyFromStrays'
    BY <1>23, UnreachableShrinks DEF EchoGarbled, Shrinks
  <1> QED
    BY <1>1, <1>2, <1>3, <1>4, <1>5, <1>6, <1>7, <1>8, <1>9, <1>10, <1>11, <1>12,
       <1>13, <1>14, <1>15, <1>16, <1>17, <1>18, <1>19, <1>20, <1>21, <1>22, <1>23 DEF Next,
       Client, Task, Frame

(* No step lets a client learn a session its user is no party of.          *)
LEMMA PartiesStep ==
  TypeOK /\ TypeOK' /\ Bookkeeping /\ OnlyPartiesHear /\ [Next]_vars => OnlyPartiesHear'
  <1> SUFFICES ASSUME TypeOK, TypeOK', Bookkeeping, OnlyPartiesHear, [Next]_vars
               PROVE  OnlyPartiesHear'
    OBVIOUS
  <1> USE NoneAssumption, UserAssumption
  <1> USE DEF TypeOK, Bookkeeping, EntriesNamed, MintedTogether, OnlyPartiesHear
  <1>1. CASE UNCHANGED vars
    BY <1>1 DEF vars, tables, task, history
  <1>2. ASSUME NEW c \in Conn, AuthFails(c) PROVE OnlyPartiesHear'
    BY <1>2 DEF AuthFails, tables, history
  <1>3. ASSUME NEW c \in Conn, Register(c) PROVE OnlyPartiesHear'
    BY <1>3 DEF Register, Enter
  <1>4. ASSUME NEW c \in Conn, CloseOld(c) PROVE OnlyPartiesHear'
    BY <1>4 DEF CloseOld, tables, history
  <1>5. ASSUME NEW c \in Conn, TakeOver(c) PROVE OnlyPartiesHear'
    BY <1>5 DEF TakeOver, Enter
  <1>6. ASSUME NEW c \in Conn, Greet(c) PROVE OnlyPartiesHear'
    BY <1>6 DEF Greet, tables, history
  <1>7. ASSUME NEW c \in Conn, GreetFails(c) PROVE OnlyPartiesHear'
    BY <1>7 DEF GreetFails, tables, history
  <1>8. ASSUME NEW c \in Conn, NEW v \in User, Announce(c, v) PROVE OnlyPartiesHear'
    BY <1>8 DEF Announce
  <1>9. ASSUME NEW c \in Conn, JustReply(c) PROVE OnlyPartiesHear'
    BY <1>9 DEF JustReply, tables, history
  <1>10. ASSUME NEW c \in Conn, Reply(c) PROVE OnlyPartiesHear'
    BY <1>10 DEF Reply
  <1>11. ASSUME NEW c \in Conn, NEW t \in User, ConnectRequest(c, t) PROVE
      OnlyPartiesHear'
    BY <1>11 DEF ConnectRequest
  <1>12. ASSUME NEW c \in Conn, NEW t \in User, NEW s \in SessionId, AcceptRequest(c,
      t, s) PROVE OnlyPartiesHear'
    BY <1>12 DEF AcceptRequest, BeginSend, Writable, Mint, Learn
  <1>13. ASSUME NEW c \in Conn, NEW t \in User, DenyRequest(c, t) PROVE OnlyPartiesHear'
    BY <1>13 DEF DenyRequest
  <1>14. ASSUME NEW c \in Conn, NEW s \in SessionId, Route(c, s) PROVE OnlyPartiesHear'
    BY <1>14 DEF Route, BeginSend, Writable, Learn, OtherParty
  <1>15. ASSUME NEW c \in Conn, NEW s \in SessionId, SessionEnd(c, s) PROVE
      OnlyPartiesHear'
    BY <1>15 DEF SessionEnd
  <1>16. ASSUME NEW c \in Conn, Sent(c) PROVE OnlyPartiesHear'
    BY <1>16 DEF Sent, tables, history
  <1>17. ASSUME NEW c \in Conn, SendFailed(c) PROVE OnlyPartiesHear'
    BY <1>17 DEF SendFailed
  <1>18. ASSUME NEW c \in Conn, Lose(c) PROVE OnlyPartiesHear'
    BY <1>18 DEF Lose, tables, history
  <1>19. ASSUME NEW c \in Conn, Expire(c) PROVE OnlyPartiesHear'
    BY <1>19 DEF Expire, tables, history
  <1>20. ASSUME NEW c \in Conn, Cleanup(c) \/ Breaks(c) PROVE OnlyPartiesHear'
    BY <1>20 DEF Cleanup, Breaks, Finally, history
  <1>21. ASSUME NEW c \in Conn, NEW s \in SessionId, NEW v \in User, Farewell(c, s, v)
      PROVE OnlyPartiesHear'
    BY <1>21 DEF Farewell, Writable
  <1>22. ASSUME NEW c \in Conn, NEW v \in User, Offline(c, v) PROVE OnlyPartiesHear'
    BY <1>22 DEF Offline
  <1>23. ASSUME NEW c \in Conn, EchoGarbled(c) PROVE OnlyPartiesHear'
    BY <1>23 DEF EchoGarbled
  <1> QED
    BY <1>1, <1>2, <1>3, <1>4, <1>5, <1>6, <1>7, <1>8, <1>9, <1>10, <1>11, <1>12,
       <1>13, <1>14, <1>15, <1>16, <1>17, <1>18, <1>19, <1>20, <1>21, <1>22, <1>23 DEF Next,
       Client, Task, Frame

(* A socket that is open and served stays registered, or joins the cut     *)
(* ones.                                                                   *)
LEMMA ServedStep ==
  TypeOK /\ TypeOK' /\ Bookkeeping /\ ServedIsRegistered /\ [Next]_vars
    => ServedIsRegistered'
  <1> SUFFICES ASSUME TypeOK, TypeOK', Bookkeeping, ServedIsRegistered, [Next]_vars
               PROVE  ServedIsRegistered'
    OBVIOUS
  <1> USE NoneAssumption, UserAssumption
  <1> USE DEF TypeOK, Bookkeeping, EntriesNamed, SendsRouted, ServedIsRegistered,
          Unregistered, Loop, Routing
  <1>1. CASE UNCHANGED vars
    BY <1>1 DEF vars, tables, task, history
  <1>2. ASSUME NEW c \in Conn, AuthFails(c) PROVE ServedIsRegistered'
    BY <1>2 DEF AuthFails, tables, history
  <1>3. ASSUME NEW c \in Conn, Register(c) PROVE ServedIsRegistered'
    BY <1>3 DEF Register, Enter
  <1>4. ASSUME NEW c \in Conn, CloseOld(c) PROVE ServedIsRegistered'
    BY <1>4 DEF CloseOld, tables, history
  <1>5. ASSUME NEW c \in Conn, TakeOver(c) PROVE ServedIsRegistered'
    BY <1>5 DEF TakeOver, Enter
  <1>6. ASSUME NEW c \in Conn, Greet(c) PROVE ServedIsRegistered'
    BY <1>6 DEF Greet, Broadcasting, tables, history
  <1>7. ASSUME NEW c \in Conn, GreetFails(c) PROVE ServedIsRegistered'
    BY <1>7 DEF GreetFails, tables, history
  <1>8. ASSUME NEW c \in Conn, NEW v \in User, Announce(c, v) PROVE ServedIsRegistered'
    BY <1>8, SendAndForgetShrinks DEF Announce, Broadcasting, Shrinks
  <1>9. ASSUME NEW c \in Conn, JustReply(c) PROVE ServedIsRegistered'
    BY <1>9 DEF JustReply, GoTo, tables, history
  <1>10. ASSUME NEW c \in Conn, Reply(c) PROVE ServedIsRegistered'
    BY <1>10, SendAndForgetShrinks DEF Reply, GoTo, NextFrame, Shrinks
  <1>11. ASSUME NEW c \in Conn, NEW t \in User, ConnectRequest(c, t) PROVE ServedIsRegistered'
    BY <1>11, UnreachableShrinks DEF ConnectRequest, BeginSend, FailSend, GoTo, Shrinks
  <1>12. ASSUME NEW c \in Conn, NEW t \in User, NEW s \in SessionId, AcceptRequest(c,
      t, s) PROVE ServedIsRegistered'
    BY <1>12, UnreachableShrinks DEF AcceptRequest, BeginSend, FailSend, GoTo, Shrinks
  <1>13. ASSUME NEW c \in Conn, NEW t \in User, DenyRequest(c, t) PROVE ServedIsRegistered'
    BY <1>13, UnreachableShrinks DEF DenyRequest, BeginSend, FailSend, GoTo, Shrinks
  <1>14. ASSUME NEW c \in Conn, NEW s \in SessionId, Route(c, s) PROVE ServedIsRegistered'
    BY <1>14, UnreachableShrinks, OtherPartyType DEF Route, BeginSend, FailSend, GoTo, Shrinks
  <1>15. ASSUME NEW c \in Conn, NEW s \in SessionId, SessionEnd(c, s) PROVE ServedIsRegistered'
    BY <1>15, SendAndForgetShrinks, OtherPartyType DEF SessionEnd, GoTo, NextFrame, Shrinks
  <1>16. ASSUME NEW c \in Conn, Sent(c) PROVE ServedIsRegistered'
    BY <1>16 DEF Sent, GoTo, NextFrame, tables, history
  <1>17. ASSUME NEW c \in Conn, SendFailed(c) PROVE ServedIsRegistered'
    BY <1>17, DropEntryShrinks DEF SendFailed, DropFailed, GoTo, Shrinks
  <1>18. ASSUME NEW c \in Conn, Lose(c) PROVE ServedIsRegistered'
    BY <1>18 DEF Lose, tables, task, history
  <1>19. ASSUME NEW c \in Conn, Expire(c) PROVE ServedIsRegistered'
    BY <1>19 DEF Expire, tables, task, history
  <1>20. ASSUME NEW c \in Conn, Cleanup(c) \/ Breaks(c) PROVE ServedIsRegistered'
    BY <1>20 DEF Cleanup, Breaks, Finally, Parting, Broadcasting, GoTo, Disconnect, history
  <1>21. ASSUME NEW c \in Conn, NEW s \in SessionId, NEW v \in User, Farewell(c, s, v)
      PROVE ServedIsRegistered'
    BY <1>21, SendAndForgetShrinks DEF Farewell, Parting, Broadcasting, GoTo, Shrinks
  <1>22. ASSUME NEW c \in Conn, NEW v \in User, Offline(c, v) PROVE ServedIsRegistered'
    BY <1>22, SendAndForgetShrinks DEF Offline, Broadcasting, Shrinks
  <1>23. ASSUME NEW c \in Conn, EchoGarbled(c) PROVE ServedIsRegistered'
    BY <1>23, UnreachableShrinks DEF EchoGarbled, GoTo, NextFrame, Shrinks
  <1> QED
    BY <1>1, <1>2, <1>3, <1>4, <1>5, <1>6, <1>7, <1>8, <1>9, <1>10, <1>11, <1>12,
       <1>13, <1>14, <1>15, <1>16, <1>17, <1>18, <1>19, <1>20, <1>21, <1>22, <1>23 DEF Next,
       Client, Task, Frame

(* Every step that ends a session leaves its SESSION_END owed or sent.     *)
LEMMA TellingStep ==
  TypeOK /\ TypeOK' /\ Bookkeeping /\ OnlyPartiesHear /\ NobodyLeftInTheDark /\
      [Next]_vars
    => NobodyLeftInTheDark'
  <1> SUFFICES ASSUME TypeOK, TypeOK', Bookkeeping, OnlyPartiesHear,
      NobodyLeftInTheDark, [Next]_vars
               PROVE  NobodyLeftInTheDark'
    OBVIOUS
  <1> USE NoneAssumption, UserAssumption
  <1> USE DEF TypeOK, Bookkeeping, EntriesNamed, NothingToldEarly, OnlyPartiesHear,
          NobodyLeftInTheDark, Owed
  <1>1. CASE UNCHANGED vars
    BY <1>1 DEF vars, tables, task, history
  <1>2. ASSUME NEW c \in Conn, AuthFails(c) PROVE NobodyLeftInTheDark'
    BY <1>2 DEF AuthFails, tables, history
  <1>3. ASSUME NEW c \in Conn, Register(c) PROVE NobodyLeftInTheDark'
    BY <1>3 DEF Register, Enter, Unregistered
  <1>4. ASSUME NEW c \in Conn, CloseOld(c) PROVE NobodyLeftInTheDark'
    BY <1>4 DEF CloseOld, tables, history
  <1>5. ASSUME NEW c \in Conn, TakeOver(c) PROVE NobodyLeftInTheDark'
    BY <1>5 DEF TakeOver, Enter, Unregistered
  <1>6. ASSUME NEW c \in Conn, Greet(c) PROVE NobodyLeftInTheDark'
    BY <1>6 DEF Greet, tables, history
  <1>7. ASSUME NEW c \in Conn, GreetFails(c) PROVE NobodyLeftInTheDark'
    BY <1>7 DEF GreetFails, tables, history
  <1>8. ASSUME NEW c \in Conn, NEW v \in User, Announce(c, v) PROVE NobodyLeftInTheDark'
    BY <1>8, SendAndForgetShrinks DEF Announce, Shrinks
  <1>9. ASSUME NEW c \in Conn, JustReply(c) PROVE NobodyLeftInTheDark'
    BY <1>9 DEF JustReply, tables, history
  <1>10. ASSUME NEW c \in Conn, Reply(c) PROVE NobodyLeftInTheDark'
    BY <1>10, SendAndForgetShrinks DEF Reply, Shrinks
  <1>11. ASSUME NEW c \in Conn, NEW t \in User, ConnectRequest(c, t) PROVE
      NobodyLeftInTheDark'
    BY <1>11, UnreachableShrinks DEF ConnectRequest, BeginSend, FailSend, Shrinks
  <1>12. ASSUME NEW c \in Conn, NEW t \in User, NEW s \in SessionId, AcceptRequest(c,
      t, s) PROVE NobodyLeftInTheDark'
    <2>1. live \subseteq live' /\ UNCHANGED <<link, todo, withdrawn>>
      BY <1>12 DEF AcceptRequest
    <2>2. \A d \in Conn : active'[user[d]] = d => active[user[d]] = d
      BY <1>12, UnreachableShrinks DEF AcceptRequest, BeginSend, FailSend, Shrinks
    <2>3. \A d \in Conn : \A x \in knows'[d] : x \in knows[d] \/ x \in live'
      BY <1>12 DEF AcceptRequest, Learn
    <2> QED
      BY <2>1, <2>2, <2>3
  <1>13. ASSUME NEW c \in Conn, NEW t \in User, DenyRequest(c, t) PROVE
      NobodyLeftInTheDark'
    BY <1>13, UnreachableShrinks DEF DenyRequest, BeginSend, FailSend, Shrinks
  <1>14. ASSUME NEW c \in Conn, NEW s \in SessionId, Route(c, s) PROVE
      NobodyLeftInTheDark'
    <2> DEFINE t == OtherParty(s, user[c])
    <2>1. t \in User /\ s \in live
      BY <1>14, OtherPartyType DEF Route, OtherParty
    <2>2. /\ \/ BeginSend(c, t, "route") /\ knows' = Learn(t, s)
             \/ /\ Unreachable(t) \/ DropGarbled(t)
                /\ UNCHANGED knows
          /\ UNCHANGED <<live, link, todo, withdrawn>>
      BY <1>14 DEF Route, FailSend
    <2> HIDE DEF t
    <2>3. \A d \in Conn : active'[user[d]] = d => active[user[d]] = d
      BY <2>1, <2>2, UnreachableShrinks DEF BeginSend, Shrinks
    <2>4. \A d \in Conn : \A x \in knows'[d] : x \in knows[d] \/ x \in live'
      BY <2>1, <2>2 DEF Learn
    <2> QED
      BY <2>2, <2>3, <2>4
  <1>15. ASSUME NEW c \in Conn, NEW s \in SessionId, SessionEnd(c, s) PROVE
      NobodyLeftInTheDark'
    BY <1>15, SendAndForgetShrinks, OtherPartyType DEF SessionEnd, OtherParty,
       Writable, Shrinks
  <1>16. ASSUME NEW c \in Conn, Sent(c) PROVE NobodyLeftInTheDark'
    BY <1>16 DEF Sent, tables, history
  <1>17. ASSUME NEW c \in Conn, SendFailed(c) PROVE NobodyLeftInTheDark'
    <2>1. live \subseteq live' \cup withdrawn' /\ withdrawn \subseteq withdrawn'
      BY <1>17 DEF SendFailed
    <2>2. UNCHANGED <<link, todo, knows>>
      BY <1>17 DEF SendFailed
    <2>3. \A d \in Conn : active'[user[d]] = d => active[user[d]] = d
      BY <1>17, DropEntryShrinks DEF SendFailed, DropFailed, SendsRouted, Routing, Shrinks
    <2> QED
      BY <2>1, <2>2, <2>3
  <1>18. ASSUME NEW c \in Conn, Lose(c) PROVE NobodyLeftInTheDark'
    BY <1>18 DEF Lose, tables, task, history
  <1>19. ASSUME NEW c \in Conn, Expire(c) PROVE NobodyLeftInTheDark'
    BY <1>19 DEF Expire, tables, task, history
  <1>20. ASSUME NEW c \in Conn, Cleanup(c) \/ Breaks(c) PROVE NobodyLeftInTheDark'
    <2>1. /\ UNCHANGED <<knows, withdrawn, initiator, responder>>
          /\ \A d \in Conn : link'[d] = "open" => link[d] = "open"
      BY <1>20 DEF Cleanup, Breaks, Finally, history
    <2>2. \A d \in Conn : active'[user[d]] = d => active[user[d]] = d
      BY <1>20 DEF Cleanup, Breaks, Finally, Disconnect
    <2>3. CASE active[user[c]] # c
      BY <1>20, <2>1, <2>2, <2>3 DEF Cleanup, Breaks, Finally
    <2>4. CASE active[user[c]] = c
      <3>1. \A d \in Conn : todo[d] \subseteq todo'[d] \/ d = c
        BY <1>20, <2>4 DEF Cleanup, Breaks, Finally, Parting
      <3>2. /\ todo'[c] = EndedSessions(user[c])
            /\ live' = live \ SessionsOf(user[c])
            /\ active'[user[c]] = NoConn
        BY <1>20, <2>4 DEF Cleanup, Breaks, Finally, Parting, Disconnect
      <3>3. todo[c] = {}
        BY <1>20 DEF Cleanup, Breaks, Finally, TodoInFarewell
      <3>4. ASSUME NEW d \in Conn, NEW s \in knows[d], s \in SessionsOf(user[c]),
                   active'[user[d]] = d
            PROVE  <<s, user[d]>> \in EndedSessions(user[c])
        BY <3>2, <3>4 DEF EndedSessions, SessionsOf, OtherParty
      <3>5. \A s \in SessionId, u \in User : Owed(s, u) => Owed(s, u)'
        BY <3>1, <3>3
      <3> SUFFICES ASSUME NEW d \in Conn, NEW s \in knows[d],
                          active'[user[d]] = d, link[d] = "open"
                   PROVE  s \in live' \cup withdrawn' \/ Owed(s, user[d])'
        BY <2>1
      <3>6. s \in live \cup withdrawn \/ Owed(s, user[d])
        BY <2>2
      <3>7. CASE s \in SessionsOf(user[c])
        BY <3>2, <3>4, <3>7
      <3>8. CASE s \notin SessionsOf(user[c])
        BY <2>1, <3>2, <3>5, <3>6, <3>8
      <3> QED
        BY <3>7, <3>8
    <2> QED
      BY <2>3, <2>4
  <1>21. ASSUME NEW c \in Conn, NEW s \in SessionId, NEW v \in User, Farewell(c, s, v)
      PROVE NobodyLeftInTheDark'
    BY <1>21, SendAndForgetShrinks DEF Farewell, Parting, Writable, Shrinks
  <1>22. ASSUME NEW c \in Conn, NEW v \in User, Offline(c, v) PROVE NobodyLeftInTheDark'
    BY <1>22, SendAndForgetShrinks DEF Offline, Shrinks
  <1>23. ASSUME NEW c \in Conn, EchoGarbled(c) PROVE NobodyLeftInTheDark'
    BY <1>23, UnreachableShrinks DEF EchoGarbled, Shrinks
  <1> QED
    BY <1>1, <1>2, <1>3, <1>4, <1>5, <1>6, <1>7, <1>8, <1>9, <1>10, <1>11, <1>12,
       <1>13, <1>14, <1>15, <1>16, <1>17, <1>18, <1>19, <1>20, <1>21, <1>22, <1>23 DEF Next,
       Client, Task, Frame
-----------------------------------------------------------------------------
(* The empty tables are the initial state of the abstract authority.       *)
LEMMA InitMaps == Init => R!AInit
  BY DEF Init, R!AInit, Asked

(* Every step of the relay is a step of the abstract authority on requests *)
(* and sessions, or changes neither.                                       *)
LEMMA StepMaps == TypeOK /\ Bookkeeping /\ [Next]_vars => [R!ANext]_(R!avars)
  <1> SUFFICES ASSUME TypeOK, Bookkeeping, [Next]_vars PROVE [R!ANext]_(R!avars)
    OBVIOUS
  <1> USE NoneAssumption, UserAssumption
  <1> DEFINE Still == UNCHANGED <<pending, live, initiator, responder>>
  <1>0. Still => UNCHANGED R!avars
    BY DEF R!avars, Asked
  <1> USE DEF TypeOK
  <1>1. CASE UNCHANGED vars
    BY <1>0, <1>1 DEF vars, tables
  <1>2. ASSUME NEW c \in Conn, AuthFails(c) PROVE [R!ANext]_(R!avars)
    BY <1>2, <1>0 DEF AuthFails, tables
  <1>3. ASSUME NEW c \in Conn, Register(c) PROVE [R!ANext]_(R!avars)
    BY <1>3, <1>0 DEF Register, Enter
  <1>4. ASSUME NEW c \in Conn, CloseOld(c) PROVE [R!ANext]_(R!avars)
    BY <1>4, <1>0 DEF CloseOld, tables
  <1>5. ASSUME NEW c \in Conn, TakeOver(c) PROVE [R!ANext]_(R!avars)
    BY <1>5, <1>0 DEF TakeOver, Enter
  <1>6. ASSUME NEW c \in Conn, Greet(c) PROVE [R!ANext]_(R!avars)
    BY <1>6, <1>0 DEF Greet, tables
  <1>7. ASSUME NEW c \in Conn, GreetFails(c) PROVE [R!ANext]_(R!avars)
    BY <1>7, <1>0 DEF GreetFails, tables
  <1>8. ASSUME NEW c \in Conn, NEW v \in User, Announce(c, v) PROVE [R!ANext]_(R!avars)
    BY <1>8, <1>0 DEF Announce
  <1>9. ASSUME NEW c \in Conn, JustReply(c) PROVE [R!ANext]_(R!avars)
    BY <1>9, <1>0 DEF JustReply, tables
  <1>10. ASSUME NEW c \in Conn, Reply(c) PROVE [R!ANext]_(R!avars)
    BY <1>10, <1>0 DEF Reply
  <1>11. ASSUME NEW c \in Conn, NEW t \in User, ConnectRequest(c, t) PROVE
      [R!ANext]_(R!avars)
    <2>1. CASE pending' = AddRequest(user[c], t)
      <3>1. Asked' = Asked \cup {<<user[c], t>>}
        BY <2>1 DEF Asked, AddRequest
      <3>2. R!Ask(user[c], t)
        BY <1>11, <3>1 DEF ConnectRequest, R!Ask
      <3> QED
        BY <3>2 DEF R!ANext
    <2>2. CASE pending' = PopPending(user[c], t)
      <3> DEFINE gone == Asked \cap {<<user[c], t>>}
      <3>1. Asked' = Asked \ gone
        BY <2>2 DEF Asked, PopPending
      <3>2. R!Lapse(gone) /\ gone \in SUBSET Asked
        BY <1>11, <3>1 DEF ConnectRequest, R!Lapse
      <3> QED
        BY <3>2 DEF R!ANext
    <2>3. CASE UNCHANGED pending
      BY <1>0, <1>11, <2>3 DEF ConnectRequest
    <2> QED
      BY <1>11, <2>1, <2>2, <2>3 DEF ConnectRequest
  <1>12. ASSUME NEW c \in Conn, NEW t \in User, NEW s \in SessionId, AcceptRequest(c,
      t, s) PROVE [R!ANext]_(R!avars)
    <2>1. <<t, user[c]>> \in Asked
      BY <1>12 DEF AcceptRequest, Asked
    <2>2. Asked' = Asked \ {<<t, user[c]>>}
      BY <1>12 DEF AcceptRequest, Asked, PopPending
    <2>3. R!Grant(t, user[c], s)
      BY <1>12, <2>1, <2>2 DEF AcceptRequest, Mint, R!Grant
    <2> QED
      BY <2>3 DEF R!ANext
  <1>13. ASSUME NEW c \in Conn, NEW t \in User, DenyRequest(c, t) PROVE
      [R!ANext]_(R!avars)
    <2> DEFINE gone == {<<t, user[c]>>}
    <2>1. gone \in SUBSET Asked /\ Asked' = Asked \ gone
      BY <1>13 DEF DenyRequest, Asked, PopPending
    <2>2. R!Lapse(gone)
      BY <1>13, <2>1 DEF DenyRequest, R!Lapse
    <2> QED
      BY <2>1, <2>2 DEF R!ANext
  <1>14. ASSUME NEW c \in Conn, NEW s \in SessionId, Route(c, s) PROVE [R!ANext]_(R!avars)
    BY <1>14, <1>0 DEF Route
  <1>15. ASSUME NEW c \in Conn, NEW s \in SessionId, SessionEnd(c, s) PROVE
      [R!ANext]_(R!avars)
    <2>1. R!End(s)
      BY <1>15 DEF SessionEnd, R!End, Asked
    <2> QED
      BY <2>1 DEF R!ANext
  <1>16. ASSUME NEW c \in Conn, Sent(c) PROVE [R!ANext]_(R!avars)
    BY <1>16, <1>0 DEF Sent, tables
  <1>17. ASSUME NEW c \in Conn, SendFailed(c) PROVE [R!ANext]_(R!avars)
    <2> USE DEF Bookkeeping, SendsRouted, Routing
    <2>1. CASE pc[c] = "request"
      <3> DEFINE gone == Asked \cap {<<user[c], user[sending[c]]>>}
      <3>1. Asked' = Asked \ gone
        BY <1>17, <2>1 DEF SendFailed, Asked, PopPending
      <3>2. live' = live
        BY <1>17, <2>1 DEF SendFailed
      <3>3. R!Lapse(gone) /\ gone \in SUBSET Asked
        BY <1>17, <3>1, <3>2 DEF SendFailed, R!Lapse
      <3> QED
        BY <3>3 DEF R!ANext
    <2>2. CASE about[c] \in SessionId /\ pc[c] # "request"
      <3>1. R!End(about[c])
        BY <1>17, <2>2 DEF SendFailed, R!End, Asked
      <3> QED
        BY <2>2, <3>1 DEF R!ANext
    <2>3. CASE about[c] = NoSession /\ pc[c] # "request"
      BY <1>0, <1>17, <2>3 DEF SendFailed
    <2> QED
      BY <2>1, <2>2, <2>3
  <1>18. ASSUME NEW c \in Conn, Lose(c) PROVE [R!ANext]_(R!avars)
    BY <1>18, <1>0 DEF Lose, tables
  <1>19. ASSUME NEW c \in Conn, Expire(c) PROVE [R!ANext]_(R!avars)
    BY <1>19, <1>0 DEF Expire, tables
  <1>20. ASSUME NEW c \in Conn, Cleanup(c) \/ Breaks(c) PROVE [R!ANext]_(R!avars)
    <2>1. CASE active[user[c]] = c
      <3>1. Asked' = {p \in Asked : p[1] # user[c] /\ p[2] # user[c]}
        BY <1>20, <2>1 DEF Cleanup, Breaks, Finally, ClearForUser, Asked
      <3>2. R!Leave(user[c])
        BY <1>20, <2>1, <3>1 DEF Cleanup, Breaks, Finally, SessionsOf, R!Leave
      <3> QED
        BY <3>2 DEF R!ANext
    <2>2. CASE active[user[c]] # c
      BY <1>0, <1>20, <2>2 DEF Cleanup, Breaks, Finally
    <2> QED
      BY <2>1, <2>2
  <1>21. ASSUME NEW c \in Conn, NEW s \in SessionId, NEW v \in User, Farewell(c, s, v)
      PROVE [R!ANext]_(R!avars)
    BY <1>21, <1>0 DEF Farewell
  <1>22. ASSUME NEW c \in Conn, NEW v \in User, Offline(c, v) PROVE [R!ANext]_(R!avars)
    BY <1>22, <1>0 DEF Offline
  <1>23. ASSUME NEW c \in Conn, EchoGarbled(c) PROVE [R!ANext]_(R!avars)
    BY <1>23, <1>0 DEF EchoGarbled
  <1> QED
    BY <1>1, <1>2, <1>3, <1>4, <1>5, <1>6, <1>7, <1>8, <1>9, <1>10, <1>11, <1>12,
       <1>13, <1>14, <1>15, <1>16, <1>17, <1>18, <1>19, <1>20, <1>21, <1>22, <1>23 DEF Next,
       Client, Task, Frame
-----------------------------------------------------------------------------
(* The tables, the tasks and the history always have their types.          *)
THEOREM TypeCorrect == Spec => []TypeOK
  <1>1. Init => TypeOK /\ Bookkeeping
    BY InitType, InitBookkeeping
  <1>2. TypeOK /\ Bookkeeping /\ [Next]_vars => (TypeOK /\ Bookkeeping)'
    BY TypeStep, BookkeepingStep
  <1> QED
    BY <1>1, <1>2, PTL DEF Spec

(* Tables and suspended tasks stay consistent across every await: the      *)
(* invariant the results below rest on.                                    *)
THEOREM BookkeepingCorrect == Spec => []Bookkeeping
  <1>1. Init => TypeOK /\ Bookkeeping
    BY InitType, InitBookkeeping
  <1>2. TypeOK /\ Bookkeeping /\ [Next]_vars => (TypeOK /\ Bookkeeping)'
    BY TypeStep, BookkeepingStep
  <1> QED
    BY <1>1, <1>2, PTL DEF Spec

(* Requests and sessions of users who left are left over only by users     *)
(* whose entry in `active` was taken away behind the back of its task.     *)
THEOREM OrphansTheorem == Spec => []OrphansOnlyFromStrays
  <1>1. Init => OrphansOnlyFromStrays
    BY DEF Init, OrphansOnlyFromStrays
  <1>2. TypeOK /\ TypeOK' /\ Bookkeeping /\ OrphansOnlyFromStrays /\ [Next]_vars
          => OrphansOnlyFromStrays'
    BY OrphansStep
  <1> QED
    BY <1>1, <1>2, TypeCorrect, BookkeepingCorrect, PTL DEF Spec

(* Sessions reach their two parties and nobody else.                       *)
THEOREM PartiesTheorem == Spec => []OnlyPartiesHear
  <1>1. Init => OnlyPartiesHear
    BY DEF Init, OnlyPartiesHear
  <1>2. TypeOK /\ TypeOK' /\ Bookkeeping /\ OnlyPartiesHear /\ [Next]_vars =>
      OnlyPartiesHear'
    BY PartiesStep
  <1> QED
    BY <1>1, <1>2, TypeCorrect, BookkeepingCorrect, PTL DEF Spec

(* Whoever holds a session the relay has ended is about to be told.        *)
THEOREM TellingTheorem == Spec => []NobodyLeftInTheDark
  <1>1. Init => NobodyLeftInTheDark
    BY DEF Init, NobodyLeftInTheDark
  <1>2. TypeOK /\ TypeOK' /\ Bookkeeping /\ OnlyPartiesHear /\ NobodyLeftInTheDark /\
      [Next]_vars
          => NobodyLeftInTheDark'
    BY TellingStep
  <1> QED
    BY <1>1, <1>2, TypeCorrect, BookkeepingCorrect, PartiesTheorem, PTL DEF Spec

(* An open socket that is served is the registered one of its user, unless *)
(* an unencodable message or an overlapping registration took its entry.   *)
THEOREM ServedTheorem == Spec => []ServedIsRegistered
  <1>1. Init => ServedIsRegistered
    BY DEF Init, ServedIsRegistered, Loop
  <1>2. TypeOK /\ TypeOK' /\ Bookkeeping /\ ServedIsRegistered /\ [Next]_vars
          => ServedIsRegistered'
    BY ServedStep
  <1> QED
    BY <1>1, <1>2, TypeCorrect, BookkeepingCorrect, PTL DEF Spec

(* Stripped of sockets and tasks, the relay is the abstract authority.     *)
THEOREM RefinementTheorem == Spec => ImplementsRendezvous
  <1>1. Init => R!AInit
    BY InitMaps
  <1>2. TypeOK /\ Bookkeeping /\ [Next]_vars => [R!ANext]_(R!avars)
    BY StepMaps
  <1> QED
    BY <1>1, <1>2, TypeCorrect, BookkeepingCorrect, PTL
    DEF Spec, ImplementsRendezvous, R!ASpec
=============================================================================
