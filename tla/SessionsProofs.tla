--------------------------- MODULE SessionsProofs ---------------------------
(* The proofs of the type invariant of Sessions, of DeadIsTold,            *)
(* HeldTogether and OneSessionUnlessCrossed, and of the refinement of      *)
(* Negotiation.                                                            *)
EXTENDS Sessions, TLAPS

UpFrames   == Frames(Steps \cup {"accept"})
DownFrames == Frames(Steps \cup {"accept", "end"})

LEMMA FrameTypes ==
    /\ \A s \in Session : Frame("accept", s) \in UpFrames /\ Frame("accept", s) \in DownFrames
    /\ \A s \in Session : Frame("end", s) \in DownFrames
    /\ \A k \in Steps, s \in Session : Frame(k, s) \in UpFrames /\ Frame(k, s) \in DownFrames
    /\ \A f \in UpFrames : f.session \in Session
    /\ \A f \in DownFrames : f.session \in Session
    /\ \A f \in DownFrames : f.kind \in {"init", "response", "confirm", "accept", "end"}
  BY DEF Frame, UpFrames, DownFrames, Frames, Steps

LEMMA PrefixType ==
    ASSUME NEW S, NEW q \in Seq(S), NEW n \in 0..Len(q)
    PROVE  SubSeq(q, 1, n) \in Seq(S)
  OBVIOUS

(* Cut off, the wires keep their types.                                    *)
LEMMA CutType ==
    ASSUME TypeOK, NEW u \in User
    PROVE  /\ \A i \in 0..Len(up[u]) :
                 [up EXCEPT ![u] = SubSeq(@, 1, i)] \in [User -> Seq(UpFrames)]
           /\ \A j \in 0..Len(down[u]) :
                 [down EXCEPT ![u] = SubSeq(@, 1, j)] \in [User -> Seq(DownFrames)]
           /\ [up EXCEPT ![u] = <<>>] \in [User -> Seq(UpFrames)]
           /\ [down EXCEPT ![u] = <<>>] \in [User -> Seq(DownFrames)]
  <1>1. up \in [User -> Seq(UpFrames)] /\ down \in [User -> Seq(DownFrames)]
    BY DEF TypeOK, UpFrames, DownFrames
  <1>2. \A i \in 0..Len(up[u]) : SubSeq(up[u], 1, i) \in Seq(UpFrames)
    BY <1>1, PrefixType
  <1>3. \A j \in 0..Len(down[u]) : SubSeq(down[u], 1, j) \in Seq(DownFrames)
    BY <1>1, PrefixType
  <1>4. <<>> \in Seq(UpFrames) /\ <<>> \in Seq(DownFrames)
    OBVIOUS
  <1> QED BY <1>1, <1>2, <1>3, <1>4

LEMMA SendType ==
    ASSUME TypeOK, NEW u \in User, NEW f \in UpFrames, Send(u, f)
    PROVE  up' \in [User -> Seq(UpFrames)]
  <1>1. CASE Connected(u)
    <2>1. up[u] \in Seq(UpFrames)
      BY DEF TypeOK, UpFrames
    <2>2. Append(up[u], f) \in Seq(UpFrames)
      BY <2>1
    <2> QED BY <1>1, <2>2 DEF Send, TypeOK, UpFrames
  <1>2. CASE ~Connected(u)
    BY <1>2 DEF Send, TypeOK, UpFrames
  <1> QED BY <1>1, <1>2

LEMMA DeliverType ==
    ASSUME TypeOK, NEW u \in User, NEW f \in DownFrames, Deliver(u, f)
    PROVE  active' = active /\ down' \in [User -> Seq(DownFrames)]
  <1>1. CASE link[u] = "up"
    <2>1. down[u] \in Seq(DownFrames)
      BY DEF TypeOK, DownFrames
    <2>2. Append(down[u], f) \in Seq(DownFrames)
      BY <2>1
    <2> QED BY <1>1, <2>2 DEF Deliver, TypeOK, DownFrames
  <1>2. CASE link[u] # "up"
    BY <1>2 DEF Deliver, TypeOK, DownFrames
  <1> QED BY <1>1, <1>2

LEMMA ReadType ==
    ASSUME TypeOK, NEW u \in User, NEW f, Read(u, f)
    PROVE  f \in UpFrames /\ up' \in [User -> Seq(UpFrames)]
  <1>1. up[u] \in Seq(UpFrames) /\ up[u] # <<>>
    BY DEF TypeOK, UpFrames, Read
  <1>2. Head(up[u]) \in UpFrames /\ Tail(up[u]) \in Seq(UpFrames)
    BY <1>1
  <1> QED BY <1>2 DEF Read, TypeOK, UpFrames

LEMMA StoreType ==
    ASSUME TypeOK, NEW u \in User, NEW s \in Session, Store(u, s)
    PROVE  table' \in [User -> [User -> Session \cup {NoSession}]]
  <1>1. Other(s, u) \in User
    BY SessionAssumption DEF Other
  <1> QED BY <1>1 DEF Store, TypeOK

LEMMA ClearedType ==
    ASSUME TypeOK, NEW u \in User
    PROVE  Cleared(u) \in [User -> [User -> Session \cup {NoSession}]]
  BY DEF Cleared, TypeOK

(* What a handler of the client does, whatever the frame.                  *)
LEMMA ReceiveType ==
    ASSUME TypeOK, NEW u \in User, Receive(u) PROVE TypeOK'
  <1> DEFINE k == Head(down[u]).kind
             s == Head(down[u]).session
  <1>1. down[u] \in Seq(DownFrames) /\ down[u] # <<>>
    BY DEF TypeOK, DownFrames, Receive
  <1>2. Head(down[u]) \in DownFrames /\ Tail(down[u]) \in Seq(DownFrames)
    BY <1>1
  <1>3. /\ s \in Session
        /\ k \in {"init", "response", "confirm", "accept", "end"}
    BY <1>2, FrameTypes
  <1>4. down' \in [User -> Seq(DownFrames)]
    BY <1>2 DEF Receive, TypeOK, DownFrames
  <1>5. UNCHANGED <<link, deaf, active, live, telling, accepted, forgotten, faults>>
    BY DEF Receive, relay
  <1>6. \/ OnNothing(k, s) \/ OnAccept(u, s) \/ OnInit(u, s) \/ OnResponse(u, s)
        \/ OnConfirm(u, s) \/ OnEnd(u, s)
    BY <1>3 DEF Receive
  <1> HIDE DEF k, s
  <1>7. /\ \A q \in Session : \A x : x \in {"init", "response", "confirm"} => Frame(x, q) \in UpFrames
        /\ up \in [User -> Seq(UpFrames)]
        /\ hs \in [User -> SUBSET Session]
        /\ table \in [User -> [User -> Session \cup {NoSession}]]
    BY FrameTypes DEF Steps, TypeOK, UpFrames
  <1>8. Begin(u, s) \/ Over(u, s) => hs' \in [User -> SUBSET Session]
    BY <1>3, <1>7 DEF Begin, Over
  <1>9. /\ hs' \in [User -> SUBSET Session]
        /\ table' \in [User -> [User -> Session \cup {NoSession}]]
        /\ up' \in [User -> Seq(UpFrames)]
        /\ unconfirmed' \in SUBSET Session
    <2>1. CASE OnNothing(k, s)
      BY <1>3, <1>7, <2>1 DEF OnNothing, TypeOK
    <2>2. CASE OnAccept(u, s)
      BY <1>3, <1>7, <1>8, <2>2, SendType DEF OnAccept, TypeOK
    <2>3. CASE OnInit(u, s)
      BY <1>3, <1>7, <1>8, <2>3, SendType DEF OnInit, TypeOK
    <2>4. CASE OnResponse(u, s)
      BY <1>3, <1>7, <1>8, <2>4, SendType, StoreType DEF OnResponse, TypeOK
    <2>5. CASE OnConfirm(u, s)
      BY <1>3, <1>7, <1>8, <2>5, StoreType DEF OnConfirm, TypeOK
    <2>6. CASE OnEnd(u, s)
      BY <1>3, <1>7, <2>6 DEF OnEnd, TypeOK
    <2> QED BY <1>6, <2>1, <2>2, <2>3, <2>4, <2>5, <2>6
  <1> QED BY <1>4, <1>5, <1>9 DEF TypeOK, UpFrames, DownFrames

LEMMA RefuseType ==
    ASSUME NEW u \in User, NEW rest \in SUBSET User, Refuse(u, rest)
    PROVE  active' \in SUBSET User /\ down' = down
  BY DEF Refuse

LEMMA RelayType ==
    ASSUME TypeOK, NEW u \in User, Serve(u) \/ Limited(u) PROVE TypeOK'
  <1>0. \A s \in Session, x \in User : Other(s, x) \in User
    BY SessionAssumption DEF Other
  <1>1. ASSUME NEW s \in Session, responder[s] = u, Grant(s) PROVE TypeOK'
    <2>1. up' \in [User -> Seq(UpFrames)]
      BY <1>1, ReadType DEF Grant
    <2>2. initiator[s] \in User /\ Frame("accept", s) \in DownFrames
      BY SessionAssumption, FrameTypes
    <2>3. live' \in SUBSET Session
      BY <1>1 DEF Grant, TypeOK
    <2>4. active' \in SUBSET User /\ down' \in [User -> Seq(DownFrames)]
      <3>1. CASE Deliver(initiator[s], Frame("accept", s))
        BY <2>2, <3>1, DeliverType DEF TypeOK
      <3>2. CASE Refuse(u, active \ {initiator[s]}) \/ Refuse(u, active)
        BY <3>2, RefuseType DEF TypeOK, DownFrames
      <3> QED BY <1>1, <3>1, <3>2 DEF Grant
    <2> QED BY <1>1, <2>1, <2>3, <2>4 DEF Grant, TypeOK, client, causes, UpFrames, DownFrames
  <1>2. ASSUME NEW k \in Steps, NEW s \in Session, Route(u, k, s) PROVE TypeOK'
    <2>1. up' \in [User -> Seq(UpFrames)]
      BY <1>2, ReadType DEF Route
    <2>2. Other(s, u) \in User /\ Frame(k, s) \in DownFrames
      BY <1>0, FrameTypes
    <2>3. unconfirmed' \in SUBSET Session
      BY <1>2 DEF Route, TypeOK, Unheard, Frame
    <2>4. active' \in SUBSET User /\ down' \in [User -> Seq(DownFrames)]
      <3>1. CASE Deliver(Other(s, u), Frame(k, s))
        BY <2>2, <3>1, DeliverType DEF TypeOK
      <3>2. CASE Refuse(u, active \ {Other(s, u)}) \/ Refuse(u, active)
        BY <3>2, RefuseType DEF TypeOK, DownFrames
      <3> QED BY <1>2, <3>1, <3>2 DEF Route
    <2> QED BY <1>2, <2>1, <2>3, <2>4 DEF Route, TypeOK, client, UpFrames, DownFrames
  <1>3. ASSUME NEW s \in Session, Tell(s, u) PROVE TypeOK'
    <2>1. active' \in SUBSET User /\ down' \in [User -> Seq(DownFrames)]
      <3>1. CASE Deliver(u, Frame("end", s))
        BY <3>1, DeliverType, FrameTypes DEF TypeOK
      <3>2. CASE active' = active \ {u} /\ UNCHANGED down
        BY <3>2 DEF TypeOK, DownFrames
      <3> QED BY <1>3, <3>1, <3>2 DEF Tell
    <2> QED BY <1>3, <2>1 DEF Tell, TypeOK, client, causes, DownFrames
  <1>4. CASE Cleanup(u)
    <2>1. telling' \in SUBSET (Session \X User)
      BY <1>0, <1>4 DEF Cleanup, Owed, SessionsOf, TypeOK
    <2>2. active' \in SUBSET User /\ live' \in SUBSET Session
      BY <1>4 DEF Cleanup, TypeOK
    <2> QED BY <1>4, <2>1, <2>2 DEF Cleanup, TypeOK, client, causes
  <1>5. CASE Limited(u)
    <2> DEFINE f == Head(up[u])
    <2>1. Read(u, f) /\ Unheard(f) /\ Refuse(u, active)
      BY <1>5 DEF Limited
    <2> HIDE DEF f
    <2>2. f \in UpFrames /\ up' \in [User -> Seq(UpFrames)]
      BY <2>1, ReadType
    <2>3. unconfirmed' \in SUBSET Session
      BY <2>1, <2>2, FrameTypes DEF Unheard, TypeOK
    <2>4. active' \in SUBSET User /\ down' = down
      BY <2>1, RefuseType DEF TypeOK
    <2>5. faults' \in Nat
      BY <1>5 DEF Limited, Fault, TypeOK
    <2> QED BY <1>5, <2>2, <2>3, <2>4, <2>5 DEF Limited, TypeOK, client, UpFrames
  <1> QED BY <1>1, <1>2, <1>3, <1>4, <1>5 DEF Serve

LEMMA TypeStep ==
    ASSUME TypeOK, [Next]_vars PROVE TypeOK'
  <1>1. CASE UNCHANGED vars
    BY <1>1 DEF TypeOK, vars, client, relay, causes
  <1>2. ASSUME NEW s \in Session, Accept(s) PROVE TypeOK'
    <2>1. up' \in [User -> Seq(UpFrames)]
      <3>1. responder[s] \in User /\ Frame("accept", s) \in UpFrames
        BY SessionAssumption, FrameTypes
      <3> QED BY <1>2, <3>1, SendType DEF Accept
    <2> QED BY <1>2, <2>1 DEF Accept, TypeOK, client, relay, causes, UpFrames
  <1>3. ASSUME NEW u \in User, Receive(u) PROVE TypeOK'
    BY <1>3, ReceiveType
  <1>4. ASSUME NEW u \in User, Notice(u) PROVE TypeOK'
    BY <1>4 DEF Notice, TypeOK, relay, causes
  <1>5. ASSUME NEW u \in User, Connect(u) PROVE TypeOK'
    <2>1. table' \in [User -> [User -> Session \cup {NoSession}]]
      BY <1>5, ClearedType DEF Connect
    <2>2. up' \in [User -> Seq(UpFrames)]
      BY <1>5, CutType DEF Connect
    <2>3. /\ link' \in [User -> {"up", "cut", "broken", "down"}]
          /\ active' \in SUBSET User /\ forgotten' \in SUBSET Session
      BY <1>5 DEF Connect, TypeOK
    <2> QED BY <1>5, <2>1, <2>2, <2>3 DEF Connect, TypeOK, UpFrames
  <1>6. ASSUME NEW u \in User, NEW s \in Session, Timeout(u, s) PROVE TypeOK'
    BY <1>6 DEF Timeout, Over, TypeOK, relay, causes
  <1>7. ASSUME NEW u \in User, Install(u) PROVE TypeOK'
    BY <1>7 DEF Install, TypeOK, relay, causes
  <1>8. ASSUME NEW u \in User, NEW i \in 0..Len(up[u]), Exit(u, i) PROVE TypeOK'
    <2>1. up' \in [User -> Seq(UpFrames)] /\ down' \in [User -> Seq(DownFrames)]
      BY <1>8, CutType DEF Exit
    <2>2. table' \in [User -> [User -> Session \cup {NoSession}]]
      BY <1>8, ClearedType DEF Exit
    <2>3. /\ link' \in [User -> {"up", "cut", "broken", "down"}]
          /\ deaf' \in SUBSET User /\ hs' \in [User -> SUBSET Session] /\ faults' \in Nat
      BY <1>8 DEF Exit, Fault, TypeOK
    <2> QED BY <1>8, <2>1, <2>2, <2>3 DEF Exit, TypeOK, relay, causes, UpFrames, DownFrames
  <1>9. ASSUME NEW u \in User, Serve(u) \/ Limited(u) PROVE TypeOK'
    BY <1>9, RelayType
  <1>10. ASSUME NEW u \in User, NEW i \in 0..Len(up[u]), NEW j \in 0..Len(down[u]),
                Lose(u, i, j)
         PROVE  TypeOK'
    <2>1. up' \in [User -> Seq(UpFrames)] /\ down' \in [User -> Seq(DownFrames)]
      BY <1>10, CutType DEF Lose
    <2>2. link' \in [User -> {"up", "cut", "broken", "down"}] /\ faults' \in Nat
      BY <1>10 DEF Lose, Fault, TypeOK
    <2> QED BY <1>10, <2>1, <2>2 DEF Lose, TypeOK, relay, causes, UpFrames, DownFrames
  <1>11. CASE Restart
    <2>1. link' \in [User -> {"up", "cut", "broken", "down"}] /\ faults' \in Nat
      BY <1>11 DEF Restart, Fault, TypeOK
    <2>2. up' \in [User -> Seq(UpFrames)]
      <3>1. up' = [x \in User |-> <<>>]
        BY <1>11 DEF Restart
      <3>2. <<>> \in Seq(UpFrames)
        OBVIOUS
      <3> QED BY <3>1, <3>2
    <2> QED BY <1>11, <2>1, <2>2 DEF Restart, TypeOK, causes, UpFrames
  <1>12. ASSUME NEW u \in User, Displace(u) PROVE TypeOK'
    <2>1. link' \in [User -> {"up", "cut", "broken", "down"}] /\ faults' \in Nat
      BY <1>12 DEF Displace, Fault, TypeOK
    <2>2. active' \in SUBSET User
      BY <1>12 DEF Displace, TypeOK
    <2> QED BY <1>12, <2>1, <2>2 DEF Displace, TypeOK, causes
  <1> QED
    BY <1>1, <1>2, <1>3, <1>4, <1>5, <1>6, <1>7, <1>8, <1>9, <1>10, <1>11, <1>12
    DEF Next, Loop, Process, Environment
-----------------------------------------------------------------------------
(* DeadIsTold for one end of one session, and the operators on sequences    *)
(* that change what is on its way there.                                   *)
Establishes(s, f) == f \in Frames({"response", "confirm"}) /\ f.session = s

EndFollows(s, q) ==
    \A n \in 1..Len(q) :
        Establishes(s, q[n]) => \E m \in (n + 1)..Len(q) : q[m] = Frame("end", s)

Told(s, u) ==
    s \notin live /\ link[u] = "up" =>
        /\ Holds(u, s) => <<s, u>> \in telling \/ In(Frame("end", s), down[u])
        /\ <<s, u>> \in telling \/ EndFollows(s, down[u])

LEMMA AppendEnd ==
    ASSUME NEW S, NEW q \in Seq(S), NEW x \in S, NEW s
    PROVE  /\ In(Frame("end", s), q) => In(Frame("end", s), Append(q, x))
           /\ EndFollows(s, q) /\ ~Establishes(s, x) => EndFollows(s, Append(q, x))
           /\ x = Frame("end", s) =>
                  In(Frame("end", s), Append(q, x)) /\ EndFollows(s, Append(q, x))
  <1> DEFINE a == Append(q, x)
             e == Frame("end", s)
  <1>1. /\ Len(a) = Len(q) + 1 /\ Len(q) \in Nat
        /\ a[Len(q) + 1] = x
        /\ \A i \in 1..Len(q) : a[i] = q[i]
    OBVIOUS
  <1>2. ~Establishes(s, e)
    BY DEF Establishes, Frames, Frame
  <1> HIDE DEF a, e
  <1>3. In(e, q) => In(e, a)
    <2>1. \A i \in 1..Len(q) : i \in 1..Len(a)
      BY <1>1
    <2> QED BY <1>1, <2>1 DEF In
  <1>4. ASSUME EndFollows(s, q), ~Establishes(s, x) PROVE EndFollows(s, a)
    <2> SUFFICES ASSUME NEW n \in 1..Len(a), Establishes(s, a[n])
                 PROVE  \E m \in (n + 1)..Len(a) : a[m] = e
      BY DEF EndFollows, e
    <2>1. n \in 1..Len(q)
      <3>1. n \in 1..Len(q) \/ n = Len(q) + 1 BY <1>1
      <3> QED BY <1>1, <1>4, <3>1
    <2>2. PICK m \in (n + 1)..Len(q) : q[m] = e
      BY <1>1, <1>4, <2>1 DEF EndFollows, e
    <2>3. m \in (n + 1)..Len(a) /\ m \in 1..Len(q)
      BY <1>1, <2>1
    <2> QED BY <1>1, <2>2, <2>3
  <1>5. ASSUME x = e PROVE In(e, a) /\ EndFollows(s, a)
    <2>1. Len(a) \in 1..Len(a) /\ a[Len(a)] = e
      BY <1>1, <1>5
    <2>2. ASSUME NEW n \in 1..Len(a), Establishes(s, a[n])
          PROVE  \E m \in (n + 1)..Len(a) : a[m] = e
      <3>1. n # Len(a)
        BY <1>2, <2>1, <2>2
      <3>2. Len(a) \in (n + 1)..Len(a)
        BY <1>1, <3>1
      <3> QED BY <2>1, <3>2
    <2> QED BY <2>1, <2>2 DEF In, EndFollows, e
  <1> QED BY <1>3, <1>4, <1>5 DEF a, e

LEMMA TailEnd ==
    ASSUME NEW S, NEW q \in Seq(S), q # <<>>, NEW s
    PROVE  /\ In(Frame("end", s), q) =>
                  Head(q) = Frame("end", s) \/ In(Frame("end", s), Tail(q))
           /\ EndFollows(s, q) => EndFollows(s, Tail(q))
           /\ EndFollows(s, q) /\ Establishes(s, Head(q)) => In(Frame("end", s), Tail(q))
  <1> DEFINE a == Tail(q)
             e == Frame("end", s)
  <1>1. /\ Len(q) \in Nat /\ Len(q) > 0 /\ Len(a) = Len(q) - 1
        /\ Head(q) = q[1]
        /\ \A i \in 1..Len(a) : a[i] = q[i + 1]
    OBVIOUS
  <1> HIDE DEF a, e
  <1>2. \A i \in 1..Len(q) : i > 1 => i - 1 \in 1..Len(a) /\ a[i - 1] = q[i]
    BY <1>1
  <1>3. In(e, q) => Head(q) = e \/ In(e, a)
    <2> SUFFICES ASSUME NEW i \in 1..Len(q), q[i] = e PROVE Head(q) = e \/ In(e, a)
      BY DEF In
    <2>1. CASE i = 1 BY <1>1, <2>1
    <2>2. CASE i # 1
      <3>1. i - 1 \in 1..Len(a) /\ a[i - 1] = e BY <1>2, <2>2
      <3> QED BY <3>1 DEF In
    <2> QED BY <2>1, <2>2
  <1>4. ASSUME EndFollows(s, q) PROVE EndFollows(s, a)
    <2> SUFFICES ASSUME NEW n \in 1..Len(a), Establishes(s, a[n])
                 PROVE  \E m \in (n + 1)..Len(a) : a[m] = e
      BY DEF EndFollows, e
    <2>1. n + 1 \in 1..Len(q) /\ q[n + 1] = a[n]
      BY <1>1
    <2>2. PICK m \in (n + 1 + 1)..Len(q) : q[m] = e
      BY <1>4, <2>1 DEF EndFollows, e
    <2>3. m - 1 \in (n + 1)..Len(a) /\ m - 1 \in 1..Len(a) /\ a[m - 1] = e
      BY <1>1, <2>2
    <2> QED BY <2>3
  <1>5. ASSUME EndFollows(s, q), Establishes(s, Head(q)) PROVE In(e, a)
    <2>1. 1 \in 1..Len(q) /\ Establishes(s, q[1])
      BY <1>1, <1>5
    <2>2. PICK m \in (1 + 1)..Len(q) : q[m] = e
      BY <1>5, <2>1 DEF EndFollows, e
    <2>3. m - 1 \in 1..Len(a) /\ a[m - 1] = e
      BY <1>1, <2>2
    <2> QED BY <2>3 DEF In
  <1> QED BY <1>3, <1>4, <1>5 DEF a, e

Inv ==
    /\ TypeOK /\ Registered /\ Drained /\ Fresh
    /\ \A s \in Session : \A u \in Parties(s) : Told(s, u)

LEMMA InvInit == Init => Inv
  <1> SUFFICES ASSUME Init PROVE Inv
    OBVIOUS
  <1>1. TypeOK
    <2>1. <<>> \in Seq(UpFrames) /\ <<>> \in Seq(DownFrames)
      OBVIOUS
    <2> QED BY <2>1 DEF Init, TypeOK, UpFrames, DownFrames
  <1>2. Registered /\ Drained /\ Fresh
    BY DEF Init, Registered, Drained, Fresh
  <1>3. ASSUME NEW s \in Session, NEW u \in Parties(s) PROVE Told(s, u)
    <2>1. u \in User /\ Other(s, u) \in User
      BY SessionAssumption DEF Parties, Other
    <2>2. ~Holds(u, s) /\ down[u] = <<>>
      BY <2>1, SessionAssumption DEF Init, Holds
    <2>3. EndFollows(s, <<>>)
      BY DEF EndFollows
    <2> QED BY <2>2, <2>3 DEF Told
  <1> QED BY <1>1, <1>2, <1>3 DEF Inv

LEMMA PlainStep ==
    ASSUME TypeOK, Registered, Drained, [Next]_vars PROVE Registered' /\ Drained'
  <1>0. \A s \in Session, x \in User : Other(s, x) \in User
    BY SessionAssumption DEF Other
  <1>1. CASE UNCHANGED vars
    BY <1>1 DEF Registered, Drained, vars, client, relay
  <1>2. ASSUME NEW s \in Session, Accept(s) PROVE Registered' /\ Drained'
    BY <1>2 DEF Accept, Registered, Drained, client, relay
  <1>3. ASSUME NEW u \in User, Receive(u) PROVE Registered' /\ Drained'
    BY <1>3 DEF Receive, Registered, Drained, relay, TypeOK
  <1>4. ASSUME NEW u \in User, Notice(u) PROVE Registered' /\ Drained'
    BY <1>4 DEF Notice, Registered, Drained, relay, TypeOK
  <1>5. ASSUME NEW u \in User, Connect(u) PROVE Registered' /\ Drained'
    BY <1>5 DEF Connect, Registered, Drained, TypeOK
  <1>6. ASSUME NEW u \in User, NEW s \in Session, Timeout(u, s) PROVE Registered' /\ Drained'
    BY <1>6 DEF Timeout, Registered, Drained, relay
  <1>7. ASSUME NEW u \in User, Install(u) PROVE Registered' /\ Drained'
    BY <1>7 DEF Install, Registered, Drained, relay
  <1>8. ASSUME NEW u \in User, NEW i \in 0..Len(up[u]), Exit(u, i) PROVE Registered' /\ Drained'
    BY <1>8 DEF Exit, Registered, Drained, relay, TypeOK
  <1>9. ASSUME NEW u \in User, NEW i \in 0..Len(up[u]), NEW j \in 0..Len(down[u]), Lose(u, i, j)
        PROVE  Registered' /\ Drained'
    BY <1>9 DEF Lose, Registered, Drained, relay, TypeOK
  <1>10. CASE Restart
    BY <1>10 DEF Restart, Connected, Registered, Drained, TypeOK
  (* What the relay does to its table of sockets.                          *)
  <1>11. ASSUME NEW u \in User, NEW f, Deliver(u, f), link' = link
         PROVE  Registered' /\ Drained'
    BY <1>11 DEF Deliver, Registered, Drained, TypeOK
  <1>12. ASSUME NEW u \in User, NEW p \in User, link' = link,
                \/ Refuse(u, active)
                \/ Unreachable(p) /\ Refuse(u, active \ {p})
                \/ Unreachable(p) /\ active' = active \ {p} /\ UNCHANGED down
         PROVE  Registered' /\ Drained'
    BY <1>12 DEF Refuse, Unreachable, Registered, Drained
  <1>13. ASSUME NEW s \in Session, Grant(s) PROVE Registered' /\ Drained'
    <2>1. initiator[s] \in User /\ responder[s] \in User
      BY SessionAssumption
    <2> QED BY <1>11, <1>12, <1>13, <2>1 DEF Grant, client
  <1>14. ASSUME NEW u \in User, NEW k \in Steps, NEW s \in Session, Route(u, k, s)
         PROVE  Registered' /\ Drained'
    BY <1>0, <1>11, <1>12, <1>14 DEF Route, client
  <1>15. ASSUME NEW u \in User, NEW s \in Session, Tell(s, u) PROVE Registered' /\ Drained'
    BY <1>11, <1>12, <1>15 DEF Tell, client
  <1>16. ASSUME NEW u \in User, Cleanup(u) PROVE Registered' /\ Drained'
    BY <1>16 DEF Cleanup, Registered, Drained, client
  <1>17. ASSUME NEW u \in User, Limited(u) PROVE Registered' /\ Drained'
    BY <1>12, <1>17 DEF Limited, client
  <1>18. ASSUME NEW u \in User, Displace(u) PROVE Registered' /\ Drained'
    BY <1>18 DEF Displace, Registered, Drained, TypeOK
  <1> QED
    BY <1>1, <1>2, <1>3, <1>4, <1>5, <1>6, <1>7, <1>8, <1>9, <1>10, <1>13, <1>14, <1>15,
       <1>16, <1>17, <1>18
    DEF Next, Loop, Process, Serve, Environment

(* Nothing that matters to one end of one session changes.                 *)
LEMMA ToldKept ==
    ASSUME NEW s \in Session, NEW u \in User, Told(s, u),
           s \in live => s \in live',
           link'[u] = "up" => link[u] = "up",
           Holds(u, s)' => Holds(u, s),
           <<s, u>> \in telling => <<s, u>> \in telling',
           In(Frame("end", s), down[u]) => In(Frame("end", s), down'[u]),
           EndFollows(s, down[u]) => EndFollows(s, down'[u])
    PROVE  Told(s, u)'
  BY DEF Told

LEMMA ToldUnchanged ==
    ASSUME NEW s \in Session, NEW u \in User, Told(s, u),
           s \in live => s \in live', table'[u] = table[u], telling' = telling,
           link'[u] = "up" => link[u] = "up", down'[u] = down[u]
    PROVE  Told(s, u)'
  BY ToldKept DEF Holds

(* The handlers of the client: what the first frame does to its table.     *)
LEMMA ReceiveTable ==
    ASSUME TypeOK, Fresh, NEW u \in User, Receive(u), NEW s \in Session, NEW x \in User
    PROVE  /\ x # u => table'[x] = table[x]
           /\ Holds(u, s)' => Holds(u, s) \/ Establishes(s, Head(down[u]))
           /\ Head(down[u]) = Frame("end", s) => ~Holds(u, s)'
           /\ u \in deaf => table' = table
  <1> DEFINE f == Head(down[u])
             p == Other(s, u)
  <1>1. f \in DownFrames
    <2>1. down[u] \in Seq(DownFrames) /\ down[u] # <<>>
      BY DEF TypeOK, DownFrames, Receive
    <2> QED BY <2>1
  <1>2. f.session \in Session /\ f.kind \in {"init", "response", "confirm", "accept", "end"}
    BY <1>1, FrameTypes
  <1>3. p \in User /\ Other(f.session, u) \in User
    BY <1>2, SessionAssumption DEF Other
  <1>4. f = Frame("end", s) => f.kind = "end" /\ f.session = s
    BY DEF Frame
  <1>5. f.kind \in {"response", "confirm"} /\ f.session = s => Establishes(s, f)
    BY <1>1 DEF Establishes, DownFrames, Frames
  <1>6. \/ u \in deaf /\ table' = table
        \/ u \notin deaf /\ f.kind # "end" /\ table' = table
        \/ f.kind \in {"response", "confirm"} /\ Store(u, f.session) /\ u \notin deaf
        \/ f.kind = "end" /\ OnEnd(u, f.session) /\ u \notin deaf
    BY <1>2 DEF Receive, OnNothing, OnAccept, OnInit, OnResponse, OnConfirm
  <1> HIDE DEF f
  <1>7. table \in [User -> [User -> Session \cup {NoSession}]]
    BY DEF TypeOK
  <1>8. CASE u \in deaf /\ table' = table
    <2>1. ~Holds(u, s)
      BY <1>3, <1>8, SessionAssumption DEF Holds, Fresh
    <2> QED BY <1>8, <2>1 DEF Holds, f
  <1>9. CASE u \notin deaf /\ f.kind # "end" /\ table' = table
    BY <1>4, <1>9 DEF Holds, f
  <1>10. CASE f.kind \in {"response", "confirm"} /\ Store(u, f.session) /\ u \notin deaf
    <2>1. table'[u][p] = IF p = Other(f.session, u) THEN f.session ELSE table[u][p]
      BY <1>3, <1>7, <1>10 DEF Store
    <2>2. x # u => table'[x] = table[x]
      BY <1>7, <1>10 DEF Store
    <2>3. Holds(u, s)' <=> table'[u][p] = s
      BY DEF Holds
    <2> QED BY <1>4, <1>5, <1>10, <2>1, <2>2, <2>3 DEF Holds, f
  <1>11. CASE f.kind = "end" /\ OnEnd(u, f.session) /\ u \notin deaf
    <2>1. table'[u][p] = IF table[u][p] = f.session THEN NoSession ELSE table[u][p]
      BY <1>3, <1>7, <1>11 DEF OnEnd
    <2>2. x # u => table'[x] = table[x]
      BY <1>7, <1>11 DEF OnEnd
    <2>3. Holds(u, s)' <=> table'[u][p] = s
      BY DEF Holds
    <2> QED BY <1>4, <1>11, <2>1, <2>2, <2>3, SessionAssumption DEF Holds, f
  <1> QED BY <1>6, <1>8, <1>9, <1>10, <1>11

LEMMA ToldReceive ==
    ASSUME TypeOK, Fresh, NEW s \in Session, NEW u \in User, Told(s, u),
           NEW x \in User, Receive(x)
    PROVE  Told(s, u)'
  <1>1. /\ UNCHANGED <<link, live, telling>>
        /\ down' = [down EXCEPT ![x] = Tail(@)] /\ down[x] # <<>>
    BY DEF Receive, relay
  <1>2. CASE x # u
    <2>1. table'[u] = table[u]
      BY <1>2, ReceiveTable
    <2>2. down'[u] = down[u]
      BY <1>1, <1>2 DEF TypeOK
    <2> QED BY <1>1, <2>1, <2>2, ToldUnchanged
  <1>3. CASE x = u
    <2> DEFINE e == Frame("end", s)
               q == down[u]
    <2>1. q \in Seq(DownFrames) /\ q # <<>> /\ down'[u] = Tail(q)
      BY <1>1, <1>3 DEF TypeOK, DownFrames
    <2>2. /\ In(e, q) => Head(q) = e \/ In(e, Tail(q))
          /\ EndFollows(s, q) => EndFollows(s, Tail(q))
          /\ EndFollows(s, q) /\ Establishes(s, Head(q)) => In(e, Tail(q))
      BY <2>1, TailEnd
    <2>3. /\ Holds(u, s)' => Holds(u, s) \/ Establishes(s, Head(q))
          /\ Head(q) = e => ~Holds(u, s)'
      BY <1>3, ReceiveTable
    <2> HIDE DEF e
    <2> QED BY <1>1, <2>1, <2>2, <2>3 DEF Told, e
  <1> QED BY <1>2, <1>3

(* A frame for p is sent by the relay, or written to a dead connection.     *)
LEMMA ToldSent ==
    ASSUME TypeOK, NEW s \in Session, NEW u \in User, Told(s, u),
           NEW p \in User, NEW f \in DownFrames, Deliver(p, f), ~Establishes(s, f),
           UNCHANGED <<link, table>>,
           s \in live => s \in live',
           <<s, u>> \in telling => <<s, u>> \in telling'
    PROVE  Told(s, u)'
  <1>1. CASE p = u /\ link[u] = "up"
    <2>1. down[u] \in Seq(DownFrames) /\ down'[u] = Append(down[u], f)
      BY <1>1 DEF Deliver, TypeOK, DownFrames
    <2>2. /\ In(Frame("end", s), down[u]) => In(Frame("end", s), down'[u])
          /\ EndFollows(s, down[u]) => EndFollows(s, down'[u])
      BY <2>1, AppendEnd
    <2>3. Holds(u, s)' => Holds(u, s)
      BY DEF Holds
    <2> QED BY <2>2, <2>3, ToldKept
  <1>2. CASE ~(p = u /\ link[u] = "up")
    <2>1. down'[u] = down[u]
      BY <1>2 DEF Deliver, TypeOK
    <2>2. Holds(u, s)' => Holds(u, s)
      BY DEF Holds
    <2> QED BY <2>1, <2>2, ToldKept
  <1> QED BY <1>1, <1>2

LEMMA ToldRoute ==
    ASSUME TypeOK, NEW s \in Session, NEW u \in User, Told(s, u),
           NEW x \in User, NEW k \in Steps, NEW t \in Session, Route(x, k, t)
    PROVE  Told(s, u)'
  <1>1. UNCHANGED <<link, table, live, telling>>
    BY DEF Route, client
  <1>2. CASE down' = down
    BY <1>1, <1>2, ToldUnchanged
  <1>3. CASE t \in live /\ Deliver(Other(t, x), Frame(k, t))
    <2>1. CASE s = t
      BY <1>1, <1>3, <2>1 DEF Told
    <2>2. CASE s # t
      <3>1. Frame(k, t) \in DownFrames /\ Other(t, x) \in User
        BY FrameTypes, SessionAssumption DEF Other
      <3>2. ~Establishes(s, Frame(k, t))
        BY <2>2 DEF Establishes, Frame
      <3> QED BY <1>1, <1>3, <3>1, <3>2, ToldSent
    <2> QED BY <2>1, <2>2
  <1> QED BY <1>2, <1>3 DEF Route, Refuse

LEMMA ToldGrant ==
    ASSUME TypeOK, NEW s \in Session, NEW u \in User, Told(s, u),
           NEW t \in Session, Grant(t)
    PROVE  Told(s, u)'
  <1>1. UNCHANGED <<link, table, telling>> /\ (s \in live => s \in live')
    BY DEF Grant, client
  <1>2. CASE down' = down
    BY <1>1, <1>2, ToldUnchanged
  <1>3. CASE Deliver(initiator[t], Frame("accept", t))
    <2>1. Frame("accept", t) \in DownFrames /\ initiator[t] \in User
      BY FrameTypes, SessionAssumption
    <2>2. ~Establishes(s, Frame("accept", t))
      BY DEF Establishes, Frame, Frames
    <2> QED BY <1>1, <1>3, <2>1, <2>2, ToldSent
  <1> QED BY <1>2, <1>3 DEF Grant, Refuse

LEMMA ToldTell ==
    ASSUME TypeOK, Registered, NEW s \in Session, NEW u \in User, Told(s, u),
           NEW t \in Session, NEW p \in User, Tell(t, p)
    PROVE  Told(s, u)'
  <1>1. /\ UNCHANGED <<link, table, live>>
        /\ telling' = telling \ {<<t, p>>}
        /\ \/ Deliver(p, Frame("end", t))
           \/ Unreachable(p) /\ UNCHANGED down
    BY DEF Tell, client
  <1>2. CASE t = s /\ p = u
    <2>1. CASE link[u] = "up"
      <3>1. down[u] \in Seq(DownFrames) /\ Frame("end", s) \in DownFrames
        BY FrameTypes DEF TypeOK, DownFrames
      <3>2. down'[u] = Append(down[u], Frame("end", s))
        BY <1>1, <1>2, <2>1 DEF Deliver, Unreachable, Registered, TypeOK
      <3>3. In(Frame("end", s), down'[u]) /\ EndFollows(s, down'[u])
        BY <3>1, <3>2, AppendEnd
      <3> QED BY <3>3 DEF Told
    <2>2. CASE link[u] # "up"
      BY <1>1, <2>2 DEF Told
    <2> QED BY <2>1, <2>2
  <1>3. CASE ~(t = s /\ p = u)
    <2>1. <<s, u>> \in telling => <<s, u>> \in telling'
      BY <1>1, <1>3
    <2>2. CASE Deliver(p, Frame("end", t))
      <3>1. Frame("end", t) \in DownFrames /\ ~Establishes(s, Frame("end", t))
        BY FrameTypes DEF Establishes, Frame, Frames
      <3> QED BY <1>1, <2>1, <2>2, <3>1, ToldSent
    <2>3. CASE down' = down
      <3>1. Holds(u, s)' => Holds(u, s)
        BY <1>1 DEF Holds
      <3> QED BY <1>1, <2>1, <2>3, <3>1, ToldKept
    <2> QED BY <1>1, <2>2, <2>3
  <1> QED BY <1>2, <1>3

LEMMA ToldCleanup ==
    ASSUME TypeOK, NEW s \in Session, NEW u \in Parties(s), u \in User, Told(s, u),
           NEW x \in User, Cleanup(x)
    PROVE  Told(s, u)'
  <1>1. /\ UNCHANGED <<link, table, down>> /\ link[x] # "up"
        /\ live' = live \ SessionsOf(x)
        /\ telling' = telling \cup Owed(x)
    BY DEF Cleanup, client
  <1>2. CASE s \in SessionsOf(x) /\ u # x
    <2>1. u = Other(s, x)
      BY <1>2, SessionAssumption DEF SessionsOf, Parties, Other
    <2>2. <<s, u>> \in telling'
      BY <1>1, <1>2, <2>1 DEF Owed
    <2> QED BY <2>2 DEF Told
  <1>3. CASE u = x
    BY <1>1, <1>3 DEF Told
  <1>4. CASE s \notin SessionsOf(x)
    <2>1. Holds(u, s)' => Holds(u, s)
      BY <1>1 DEF Holds
    <2> QED BY <1>1, <1>4, <2>1, ToldKept
  <1> QED BY <1>2, <1>3, <1>4

LEMMA ToldConnect ==
    ASSUME TypeOK, Drained, NEW s \in Session, NEW u \in User, Told(s, u),
           NEW x \in User, Connect(x)
    PROVE  Told(s, u)'
  <1>1. /\ link[x] = "down" /\ link' = [link EXCEPT ![x] = "up"]
        /\ table' = Cleared(x) /\ UNCHANGED <<live, telling, down>>
    BY DEF Connect
  <1>2. CASE x = u
    <2>1. Other(s, u) \in User
      BY SessionAssumption DEF Other
    <2>2. ~Holds(u, s)'
      BY <1>1, <1>2, <2>1, SessionAssumption DEF Holds, Cleared, TypeOK
    <2>3. down'[u] = <<>>
      BY <1>1, <1>2 DEF Drained
    <2>4. EndFollows(s, <<>>)
      BY DEF EndFollows
    <2> QED BY <2>2, <2>3, <2>4 DEF Told
  <1>3. CASE x # u
    <2>1. link'[u] = link[u] /\ table'[u] = table[u]
      BY <1>1, <1>3 DEF Cleared, TypeOK
    <2> QED BY <1>1, <2>1, ToldUnchanged
  <1> QED BY <1>2, <1>3

LEMMA ToldBroken ==
    ASSUME TypeOK, NEW s \in Session, NEW u \in User, Told(s, u), NEW x \in User,
           \/ \E i \in 0..Len(up[x]), j \in 0..Len(down[x]) : Lose(x, i, j)
           \/ \E i \in 0..Len(up[x]) : Exit(x, i)
    PROVE  Told(s, u)'
  <1>1. /\ UNCHANGED <<live, telling>>
        /\ link'[x] # "up"
        /\ x # u => link'[u] = link[u] /\ table'[u] = table[u] /\ down'[u] = down[u]
    BY DEF Lose, Exit, Cleared, relay, TypeOK
  <1>2. CASE x = u
    BY <1>1, <1>2 DEF Told
  <1>3. CASE x # u
    BY <1>1, <1>3, ToldUnchanged
  <1> QED BY <1>2, <1>3

LEMMA FreshStep ==
    ASSUME TypeOK, Fresh, [Next]_vars PROVE Fresh'
  <1>1. CASE UNCHANGED <<deaf, table>>
    BY <1>1 DEF Fresh
  <1>2. ASSUME NEW u \in User, Receive(u) PROVE Fresh'
    <2>1. deaf' = deaf /\ (u \in deaf => table' = table)
      BY <1>2 DEF Receive, OnNothing
    <2>2. \A x \in User \ {u} : table'[x] = table[x]
      <3>1. down[u] \in Seq(DownFrames) /\ down[u] # <<>>
        BY <1>2 DEF TypeOK, DownFrames, Receive
      <3>2. Head(down[u]).session \in Session
        BY <3>1, FrameTypes
      <3> QED BY <1>2, <3>2, ReceiveTable
    <2> QED BY <2>1, <2>2 DEF Fresh, TypeOK
  <1>3. ASSUME NEW u \in User, Connect(u) \/ Install(u) \/ \E i \in 0..Len(up[u]) : Exit(u, i)
        PROVE  Fresh'
    <2>1. /\ deaf' \subseteq deaf \cup {u}
          /\ (table' = table /\ deaf' \subseteq deaf) \/ table' = Cleared(u)
      BY <1>3 DEF Connect, Install, Exit
    <2> QED BY <2>1 DEF Fresh, Cleared, TypeOK
  <1> QED
    BY <1>1, <1>2, <1>3
    DEF Next, Loop, Process, Serve, Environment, vars, client, Accept, Notice, Timeout, Grant,
        Route, Tell, Cleanup, Limited, Displace, Lose, Restart

LEMMA Invariance == Spec => []Inv
  <1>1. Init => Inv
    BY InvInit
  <1>2. ASSUME Inv, [Next]_vars PROVE Inv'
    <2>1. TypeOK' /\ Registered' /\ Drained' /\ Fresh'
      BY <1>2, TypeStep, PlainStep, FreshStep DEF Inv
    <2>2. ASSUME NEW s \in Session, NEW u \in Parties(s) PROVE Told(s, u)'
      <3>1. /\ TypeOK /\ Registered /\ Drained /\ Fresh /\ Told(s, u)
            /\ u \in User
        BY <1>2, SessionAssumption DEF Inv, Parties
      <3>2. CASE UNCHANGED vars \/ \E t \in Session : Accept(t)
        <4>1. UNCHANGED <<link, table, live, telling, down>>
          BY <3>2 DEF vars, client, relay, Accept
        <4> QED BY <3>1, <4>1, ToldUnchanged
      <3>3. ASSUME NEW x \in User,
                   \/ Notice(x) \/ Install(x) \/ Limited(x) \/ Displace(x)
                   \/ \E t \in Session : Timeout(x, t)
            PROVE  Told(s, u)'
        <4>1. UNCHANGED <<table, live, telling, down>> /\ (link'[u] = "up" => link[u] = "up")
          BY <3>1, <3>3 DEF Notice, Install, Limited, Refuse, Displace, Timeout, client, relay, TypeOK
        <4> QED BY <3>1, <4>1, ToldUnchanged
      <3>4. CASE Restart
        <4>1. link'[u] # "up"
          BY <3>1, <3>4 DEF Restart, Connected
        <4> QED BY <4>1 DEF Told
      <3>5. ASSUME NEW x \in User, Receive(x) \/ Connect(x) PROVE Told(s, u)'
        BY <3>1, <3>5, ToldReceive, ToldConnect
      <3>6. ASSUME NEW x \in User, Serve(x) PROVE Told(s, u)'
        BY <3>1, <3>6, ToldGrant, ToldRoute, ToldTell, ToldCleanup DEF Serve
      <3>7. ASSUME NEW x \in User,
                   \/ \E i \in 0..Len(up[x]), j \in 0..Len(down[x]) : Lose(x, i, j)
                   \/ \E i \in 0..Len(up[x]) : Exit(x, i)
            PROVE  Told(s, u)'
        BY <3>1, <3>7, ToldBroken
      <3> QED
        BY <1>2, <3>2, <3>3, <3>4, <3>5, <3>6, <3>7 DEF Next, Loop, Process, Environment
    <2> QED BY <2>1, <2>2 DEF Inv
  <1> QED BY <1>1, <1>2, PTL DEF Spec

(* The variables always have their types.                                  *)
THEOREM SessionsTypeCorrect == Spec => []TypeOK
  BY Invariance, PTL DEF Inv

(* No connected end keeps an ended session untold.                         *)
THEOREM DeadIsToldTheorem == Spec => []DeadIsTold
  <1>1. Inv => DeadIsTold
    BY DEF Inv, Told, DeadIsTold, EndFollows, Establishes
  <1> QED BY <1>1, Invariance, PTL
-----------------------------------------------------------------------------
(* HeldTogether.  What it rests on: a frame travels on the wire its kind   *)
(* belongs on; an entry of the table is a session with that peer; of a     *)
(* session whose accept the relay has still to read there is nothing yet;  *)
(* a live session has no SESSION_END; and a session that establishes       *)
(* itself late, after its end, does so before a younger one of the same    *)
(* two users is held.                                                      *)
Sender(f)    == IF f.kind \in {"accept", "response"}
                THEN responder[f.session] ELSE initiator[f.session]
Recipient(f) == Other(f.session, Sender(f))

RightWire ==
    \A u \in User :
        /\ \A f \in UpFrames : In(f, up[u]) => u = Sender(f)
        /\ \A f \in DownFrames : In(f, down[u]) => f.kind = "end" \/ u = Recipient(f)

Owned ==
    \A u, p \in User :
        table[u][p] # NoSession =>
            u \in Parties(table[u][p]) /\ p = Other(table[u][p], u)

Once(f, q) == \A n, m \in 1..Len(q) : q[n] = f /\ q[m] = f => n = m

AcceptOnce ==
    \A s \in Session, u \in User :
        /\ Once(Frame("accept", s), up[u])
        /\ In(Frame("accept", s), up[u]) => s \in accepted

Pending(s) == s \notin accepted \/ In(Frame("accept", s), up[responder[s]])

Untouched(s) ==
    /\ s \notin live
    /\ \A u \in User :
          /\ \A k \in Steps : ~In(Frame(k, s), up[u])
          /\ \A f \in DownFrames : In(f, down[u]) => f.session # s
          /\ \A p \in User : table[u][p] # s
          /\ <<s, u>> \notin telling

Unstarted == \A s \in Session : Pending(s) => Untouched(s)

EndDead ==
    \A s \in live, u \in User : ~In(Frame("end", s), down[u]) /\ <<s, u>> \notin telling

Late(t, q)        == \E n \in 1..Len(q) : Establishes(t, q[n])
Precedes(t, s, q) == \A n, m \in 1..Len(q) :
                        Establishes(t, q[n]) /\ Establishes(s, q[m]) => n < m

Order ==
    \A s \in live, t \in Session \ live, u \in User :
        Parties(s) = Parties(t) =>
            /\ Precedes(t, s, down[u])
            /\ Holds(u, s) => ~Late(t, down[u])

Static == RightWire /\ Owned /\ AcceptOnce /\ Unstarted /\ EndDead /\ Order

(* Both ends have been connected since the session was granted.            *)
Steady(s) ==
    /\ s \in live \ forgotten
    /\ link[initiator[s]] = "up" /\ link[responder[s]] = "up"

Confirming(s) == \/ In(Frame("confirm", s), up[initiator[s]])
                 \/ In(Frame("confirm", s), down[responder[s]])

Together ==
    \A s \in Session :
        LET i == initiator[s]
            r == responder[s]
        IN  Steady(s) =>
                /\ Holds(i, s) => \/ Confirming(s)
                                  \/ s \in unconfirmed
                                  \/ table[r][i] \in live
                /\ Confirming(s) \/ Holds(r, s) => table[i][r] \in live
-----------------------------------------------------------------------------
(* Sequences: a piece of a queue, what is added to its end, what is taken  *)
(* from its front.                                                         *)
Piece(r, q) == \E k \in Nat : Len(r) + k <= Len(q) /\ \A n \in 1..Len(r) : r[n] = q[n + k]

LEMMA Pieces ==
    ASSUME NEW S, NEW q \in Seq(S)
    PROVE  /\ Piece(q, q) /\ Piece(<<>>, q)
           /\ q # <<>> => Piece(Tail(q), q)
           /\ \A n \in 0..Len(q) : Piece(SubSeq(q, 1, n), q)
  <1>1. Piece(q, q)
    <2>1. 0 \in Nat /\ Len(q) + 0 <= Len(q) /\ \A n \in 1..Len(q) : q[n] = q[n + 0]
      OBVIOUS
    <2> QED BY <2>1 DEF Piece
  <1>2. Piece(<<>>, q)
    <2>1. 0 \in Nat /\ Len(<<>>) + 0 <= Len(q) /\ \A n \in 1..Len(<<>>) : <<>>[n] = q[n + 0]
      OBVIOUS
    <2> QED BY <2>1 DEF Piece
  <1>3. ASSUME q # <<>> PROVE Piece(Tail(q), q)
    <2>1. /\ 1 \in Nat /\ Len(Tail(q)) + 1 <= Len(q)
          /\ \A n \in 1..Len(Tail(q)) : Tail(q)[n] = q[n + 1]
      BY <1>3
    <2> QED BY <2>1 DEF Piece
  <1>4. ASSUME NEW n \in 0..Len(q) PROVE Piece(SubSeq(q, 1, n), q)
    <2>1. /\ 0 \in Nat /\ Len(SubSeq(q, 1, n)) + 0 <= Len(q)
          /\ \A m \in 1..Len(SubSeq(q, 1, n)) : SubSeq(q, 1, n)[m] = q[m + 0]
      OBVIOUS
    <2> QED BY <2>1 DEF Piece
  <1> QED BY <1>1, <1>2, <1>3, <1>4

LEMMA PieceFacts ==
    ASSUME NEW S, NEW q \in Seq(S), NEW r \in Seq(S), Piece(r, q)
    PROVE  /\ \A f : In(f, r) => In(f, q)
           /\ \A f : Once(f, q) => Once(f, r)
           /\ \A t, s : Precedes(t, s, q) => Precedes(t, s, r)
           /\ \A t : Late(t, r) => Late(t, q)
  <1>1. PICK k \in Nat : Len(r) + k <= Len(q) /\ \A n \in 1..Len(r) : r[n] = q[n + k]
    BY DEF Piece
  <1>2. \A n \in 1..Len(r) : n + k \in 1..Len(q) /\ r[n] = q[n + k]
    BY <1>1
  <1>3. \A f : In(f, r) => In(f, q)
    BY <1>2 DEF In
  <1>4. ASSUME NEW f, Once(f, q) PROVE Once(f, r)
    <2> SUFFICES ASSUME NEW n \in 1..Len(r), NEW m \in 1..Len(r), r[n] = f, r[m] = f
                 PROVE  n = m
      BY DEF Once
    <2>1. n + k = m + k
      BY <1>2, <1>4 DEF Once
    <2> QED BY <2>1
  <1>5. ASSUME NEW t, NEW s, Precedes(t, s, q) PROVE Precedes(t, s, r)
    <2> SUFFICES ASSUME NEW n \in 1..Len(r), NEW m \in 1..Len(r),
                        Establishes(t, r[n]), Establishes(s, r[m])
                 PROVE  n < m
      BY DEF Precedes
    <2>1. n + k < m + k
      BY <1>2, <1>5 DEF Precedes
    <2> QED BY <2>1
  <1>6. \A t : Late(t, r) => Late(t, q)
    BY <1>2 DEF Late
  <1> QED BY <1>3, <1>4, <1>5, <1>6

LEMMA AppendFacts ==
    ASSUME NEW S, NEW q \in Seq(S), NEW x \in S
    PROVE  /\ \A f : In(f, Append(q, x)) <=> In(f, q) \/ f = x
           /\ \A f : Once(f, q) /\ (f = x => ~In(f, q)) => Once(f, Append(q, x))
           /\ \A t, s : Precedes(t, s, q) /\ ~Establishes(t, x) => Precedes(t, s, Append(q, x))
           /\ \A t : Late(t, Append(q, x)) => Late(t, q) \/ Establishes(t, x)
  <1> DEFINE a == Append(q, x)
  <1>1. /\ Len(a) = Len(q) + 1 /\ Len(q) \in Nat
        /\ a[Len(q) + 1] = x
        /\ \A i \in 1..Len(q) : a[i] = q[i]
    OBVIOUS
  <1> HIDE DEF a
  <1>2. /\ \A i \in 1..Len(a) : (i \in 1..Len(q) /\ a[i] = q[i]) \/ (i = Len(a) /\ a[i] = x)
        /\ \A i \in 1..Len(q) : i \in 1..Len(a) /\ i < Len(a)
        /\ Len(a) \in 1..Len(a) /\ a[Len(a)] = x
    BY <1>1
  <1>3. \A f : In(f, a) <=> In(f, q) \/ f = x
    BY <1>1, <1>2 DEF In
  <1>4. ASSUME NEW f, Once(f, q), f = x => ~In(f, q) PROVE Once(f, a)
    <2> SUFFICES ASSUME NEW n \in 1..Len(a), NEW m \in 1..Len(a), a[n] = f, a[m] = f
                 PROVE  n = m
      BY DEF Once
    <2> QED BY <1>2, <1>4 DEF Once, In
  <1>5. ASSUME NEW t, NEW s, Precedes(t, s, q), ~Establishes(t, x) PROVE Precedes(t, s, a)
    <2> SUFFICES ASSUME NEW n \in 1..Len(a), NEW m \in 1..Len(a),
                        Establishes(t, a[n]), Establishes(s, a[m])
                 PROVE  n < m
      BY DEF Precedes
    <2>1. n \in 1..Len(q) /\ a[n] = q[n]
      BY <1>2, <1>5
    <2>2. CASE m = Len(a)
      BY <1>2, <2>1, <2>2
    <2>3. CASE m \in 1..Len(q) /\ a[m] = q[m]
      BY <1>5, <2>1, <2>3 DEF Precedes
    <2> QED BY <1>2, <2>2, <2>3
  <1>6. \A t : Late(t, a) => Late(t, q) \/ Establishes(t, x)
    BY <1>2 DEF Late
  <1> QED BY <1>3, <1>4, <1>5, <1>6 DEF a

LEMMA HeadFacts ==
    ASSUME NEW S, NEW q \in Seq(S), q # <<>>
    PROVE  /\ Head(q) \in S /\ Tail(q) \in Seq(S)
           /\ \A f : In(f, q) <=> f = Head(q) \/ In(f, Tail(q))
           /\ \A f : Once(f, q) /\ f = Head(q) => ~In(f, Tail(q))
           /\ \A t : Establishes(t, Head(q)) => Late(t, q)
           /\ \A t, s : Precedes(t, s, q) /\ Establishes(s, Head(q)) => ~Late(t, q)
  <1> DEFINE a == Tail(q)
  <1>1. /\ Len(q) \in Nat /\ Len(q) > 0 /\ Len(a) = Len(q) - 1
        /\ Head(q) = q[1]
        /\ \A i \in 1..Len(a) : a[i] = q[i + 1]
    OBVIOUS
  <1>2. Head(q) \in S /\ Tail(q) \in Seq(S)
    OBVIOUS
  <1> HIDE DEF a
  <1>3. /\ \A i \in 1..Len(q) : i = 1 \/ (i - 1 \in 1..Len(a) /\ a[i - 1] = q[i])
        /\ \A i \in 1..Len(a) : i + 1 \in 1..Len(q) /\ i + 1 # 1 /\ a[i] = q[i + 1]
        /\ 1 \in 1..Len(q)
    BY <1>1
  <1>4. \A f : In(f, q) <=> f = Head(q) \/ In(f, a)
    BY <1>1, <1>3 DEF In
  <1>5. \A f : Once(f, q) /\ f = Head(q) => ~In(f, a)
    BY <1>1, <1>3 DEF In, Once
  <1>6. \A t : Establishes(t, Head(q)) => Late(t, q)
    BY <1>1, <1>3 DEF Late
  <1>7. ASSUME NEW t, NEW s, Precedes(t, s, q), Establishes(s, Head(q)) PROVE ~Late(t, q)
    <2> SUFFICES ASSUME NEW n \in 1..Len(q), Establishes(t, q[n]) PROVE FALSE
      BY DEF Late
    <2>1. n < 1
      BY <1>1, <1>3, <1>7 DEF Precedes
    <2> QED BY <2>1
  <1> QED BY <1>2, <1>4, <1>5, <1>6, <1>7 DEF a
-----------------------------------------------------------------------------
(* What one step may do to the wires, the tables and the sets of sessions, *)
(* whichever action takes it.                                              *)
UpMoves ==
    \A u \in User :
        \/ Piece(up'[u], up[u])
        \/ \E f \in UpFrames :
              /\ up'[u] = Append(up[u], f)
              /\ u = Sender(f)
              /\ \/ f.kind = "accept" /\ f.session \notin accepted /\ f.session \in accepted'
                 \/ /\ f.kind # "accept"
                    /\ \E g \in DownFrames : In(g, down[u]) /\ g.session = f.session
                    /\ f.kind = "confirm" => table'[u][Other(f.session, u)] = f.session

DownMoves ==
    \A u \in User :
        \/ Piece(down'[u], down[u])
        \/ \E f \in DownFrames :
              /\ down'[u] = Append(down[u], f)
              /\ \/ f.kind = "end" /\ <<f.session, u>> \in telling
                 \/ /\ f.kind = "accept"
                    /\ u = Recipient(f)
                    /\ f.session \in live'
                 \/ /\ f.kind \in Steps
                    /\ u = Recipient(f)
                    /\ f.session \in live
                    /\ In(f, up[Sender(f)])

Stored(u, p) ==
    LET s == table'[u][p]
    IN  /\ down[u] # <<>>
        /\ down'[u] = Tail(down[u])
        /\ s \in Session
        /\ Establishes(s, Head(down[u]))
        /\ p = Other(s, u)
        /\ live' = live
        /\ Head(down[u]).kind = "response" /\ link[u] = "up" => In(Frame("confirm", s), up'[u])

TableMoves ==
    \A u, p \in User :
        \/ table'[u][p] = table[u][p]
        \/ /\ table'[u][p] = NoSession
           /\ \/ link[u] # "up" \/ link'[u] # "up"
              \/ In(Frame("end", table[u][p]), down[u])
        \/ Stored(u, p)

LiveMoves ==
    /\ \A s \in live' \ live :
          Pending(s) /\ s \in accepted' /\ ~In(Frame("accept", s), up'[responder[s]])
    /\ \A s \in live \ live', t \in live' : Parties(s) # Parties(t)
    /\ \A s \in Session, u \in User :
          <<s, u>> \in telling' => <<s, u>> \in telling \/ s \in live \ live'

HistoryMoves ==
    accepted \subseteq accepted' /\ unconfirmed \subseteq unconfirmed' /\ forgotten \subseteq forgotten'

Moves == UpMoves /\ DownMoves /\ TableMoves /\ LiveMoves /\ HistoryMoves

(* Every step keeps the static part, for it is one of these moves.          *)
LEMMA FrameIs ==
    /\ \A f \in UpFrames : /\ f.session \in Session /\ f.kind \in Steps \cup {"accept"}
                           /\ f = Frame(f.kind, f.session)
    /\ \A f \in DownFrames : /\ f.session \in Session /\ f.kind \in Steps \cup {"accept", "end"}
                             /\ f = Frame(f.kind, f.session)
    /\ \A k, s : Frame(k, s).kind = k /\ Frame(k, s).session = s
    /\ \A s, f : Establishes(s, f) =>
          f \in UpFrames /\ f \in DownFrames /\ f.session = s /\ f.kind \in {"response", "confirm"}
    /\ \A f \in DownFrames : f.kind \in {"response", "confirm"} => Establishes(f.session, f)
  BY DEF UpFrames, DownFrames, Frames, Frame, Steps, Establishes

LEMMA Peers ==
    /\ \A s \in Session :
          /\ initiator[s] \in User /\ responder[s] \in User /\ initiator[s] # responder[s]
          /\ Parties(s) = {initiator[s], responder[s]}
          /\ Other(s, initiator[s]) = responder[s] /\ Other(s, responder[s]) = initiator[s]
          /\ \A u : Other(s, u) \in Parties(s)
          /\ \A u \in Parties(s) : Parties(s) = {u, Other(s, u)}
    /\ \A f \in UpFrames : Sender(f) \in Parties(f.session)
    /\ \A f \in DownFrames : Sender(f) \in Parties(f.session) /\ Recipient(f) \in Parties(f.session)
    /\ NoSession \notin Session
  <1>1. \A s \in Session :
          /\ initiator[s] \in User /\ responder[s] \in User /\ initiator[s] # responder[s]
          /\ Parties(s) = {initiator[s], responder[s]}
          /\ Other(s, initiator[s]) = responder[s] /\ Other(s, responder[s]) = initiator[s]
          /\ \A u : Other(s, u) \in Parties(s)
          /\ \A u \in Parties(s) : Parties(s) = {u, Other(s, u)}
    BY SessionAssumption DEF Parties, Other
  <1>2. \A f : Sender(f) \in Parties(f.session)
    BY DEF Sender, Parties
  <1>3. \A f \in DownFrames : Recipient(f) \in Parties(f.session)
    BY <1>1, FrameIs DEF Recipient
  <1> QED BY <1>1, <1>2, <1>3, SessionAssumption

LEMMA Wires ==
    ASSUME TypeOK, NEW u \in User
    PROVE  up[u] \in Seq(UpFrames) /\ down[u] \in Seq(DownFrames)
  BY DEF TypeOK, UpFrames, DownFrames

LEMMA UpMove ==
    ASSUME TypeOK, TypeOK', UpMoves, NEW u \in User
    PROVE  \/ /\ \A f : In(f, up'[u]) => In(f, up[u])
              /\ \A f : Once(f, up[u]) => Once(f, up'[u])
           \/ \E f \in UpFrames :
                 /\ u = Sender(f)
                 /\ \A g : In(g, up'[u]) <=> In(g, up[u]) \/ g = f
                 /\ \A g : Once(g, up[u]) /\ (g = f => ~In(g, up[u])) => Once(g, up'[u])
                 /\ \/ f.kind = "accept" /\ f.session \notin accepted /\ f.session \in accepted'
                    \/ /\ f.kind # "accept"
                       /\ \E g \in DownFrames : In(g, down[u]) /\ g.session = f.session
                       /\ f.kind = "confirm" => table'[u][Other(f.session, u)] = f.session
  <1>1. up[u] \in Seq(UpFrames) /\ up'[u] \in Seq(UpFrames)
    BY Wires DEF TypeOK, UpFrames
  <1>2. CASE Piece(up'[u], up[u])
    BY <1>1, <1>2, PieceFacts
  <1>3. CASE ~Piece(up'[u], up[u])
    <2>1. PICK f \in UpFrames :
              /\ up'[u] = Append(up[u], f)
              /\ u = Sender(f)
              /\ \/ f.kind = "accept" /\ f.session \notin accepted /\ f.session \in accepted'
                 \/ /\ f.kind # "accept"
                    /\ \E g \in DownFrames : In(g, down[u]) /\ g.session = f.session
                    /\ f.kind = "confirm" => table'[u][Other(f.session, u)] = f.session
      BY <1>3 DEF UpMoves
    <2>2. /\ \A g : In(g, up'[u]) <=> In(g, up[u]) \/ g = f
          /\ \A g : Once(g, up[u]) /\ (g = f => ~In(g, up[u])) => Once(g, up'[u])
      BY <1>1, <2>1, AppendFacts
    <2> QED BY <2>1, <2>2
  <1> QED BY <1>2, <1>3

LEMMA DownMove ==
    ASSUME TypeOK, TypeOK', DownMoves, NEW u \in User
    PROVE  \/ /\ \A f : In(f, down'[u]) => In(f, down[u])
              /\ \A t, s : Precedes(t, s, down[u]) => Precedes(t, s, down'[u])
              /\ \A t : Late(t, down'[u]) => Late(t, down[u])
           \/ \E f \in DownFrames :
                 /\ \A g : In(g, down'[u]) <=> In(g, down[u]) \/ g = f
                 /\ \A t, s : Precedes(t, s, down[u]) /\ ~Establishes(t, f) =>
                        Precedes(t, s, down'[u])
                 /\ \A t : Late(t, down'[u]) => Late(t, down[u]) \/ Establishes(t, f)
                 /\ \/ f.kind = "end" /\ <<f.session, u>> \in telling
                    \/ f.kind = "accept" /\ u = Recipient(f) /\ f.session \in live'
                    \/ /\ f.kind \in Steps /\ u = Recipient(f) /\ f.session \in live
                       /\ In(f, up[Sender(f)])
  <1>1. down[u] \in Seq(DownFrames) /\ down'[u] \in Seq(DownFrames)
    BY Wires DEF TypeOK, DownFrames
  <1>2. CASE Piece(down'[u], down[u])
    BY <1>1, <1>2, PieceFacts
  <1>3. CASE ~Piece(down'[u], down[u])
    <2>1. PICK f \in DownFrames :
              /\ down'[u] = Append(down[u], f)
              /\ \/ f.kind = "end" /\ <<f.session, u>> \in telling
                 \/ f.kind = "accept" /\ u = Recipient(f) /\ f.session \in live'
                 \/ /\ f.kind \in Steps /\ u = Recipient(f) /\ f.session \in live
                    /\ In(f, up[Sender(f)])
      BY <1>3 DEF DownMoves
    <2>2. /\ \A g : In(g, down'[u]) <=> In(g, down[u]) \/ g = f
          /\ \A t, s : Precedes(t, s, down[u]) /\ ~Establishes(t, f) => Precedes(t, s, down'[u])
          /\ \A t : Late(t, down'[u]) => Late(t, down[u]) \/ Establishes(t, f)
      BY <1>1, <2>1, AppendFacts
    <2> QED BY <2>1, <2>2
  <1> QED BY <1>2, <1>3

(* An entry that has just been stored.                                     *)
LEMMA StoredFacts ==
    ASSUME TypeOK, RightWire, NEW u \in User, NEW p \in User, Stored(u, p)
    PROVE  LET s == table'[u][p]
               f == Head(down[u])
           IN  /\ f \in DownFrames /\ In(f, down[u]) /\ f.session = s
               /\ Late(s, down[u])
               /\ u = Recipient(f) /\ u \in Parties(s) /\ p = Other(s, u)
               /\ \A t : Precedes(t, s, down[u]) => ~Late(t, down[u])
               /\ \A t : Late(t, down'[u]) => Late(t, down[u])
  <1> DEFINE s == table'[u][p]
             f == Head(down[u])
  <1>1. down[u] \in Seq(DownFrames) /\ down[u] # <<>> /\ down'[u] = Tail(down[u])
    BY Wires DEF Stored
  <1>2. Establishes(s, f) /\ p = Other(s, u)
    BY DEF Stored
  <1>3. /\ f \in DownFrames /\ In(f, down[u])
        /\ Late(s, down[u])
        /\ \A t : Precedes(t, s, down[u]) => ~Late(t, down[u])
        /\ Tail(down[u]) \in Seq(DownFrames)
    BY <1>1, <1>2, HeadFacts
  <1>4. f.session = s /\ f.kind \in {"response", "confirm"}
    BY <1>2, FrameIs
  <1>5. u = Recipient(f) /\ u \in Parties(s)
    BY <1>3, <1>4, Peers DEF RightWire
  <1>6. \A t : Late(t, down'[u]) => Late(t, down[u])
    BY <1>1, <1>3, Pieces, PieceFacts
  <1> QED BY <1>2, <1>3, <1>4, <1>5, <1>6

(* Nothing becomes pending, and of what is pending nothing appears.        *)
LEMMA PendingMove ==
    ASSUME TypeOK, TypeOK', Moves, NEW s \in Session, Pending(s)'
    PROVE  Pending(s)
  <1> DEFINE r == responder[s]
             a == Frame("accept", s)
  <1>1. CASE s \notin accepted'
    BY <1>1 DEF Pending, Moves, HistoryMoves
  <1>2. CASE In(a, up'[r])
    <2>1. CASE In(a, up[r])
      BY <2>1 DEF Pending
    <2>2. CASE ~In(a, up[r])
      <3>1. r \in User
        BY Peers
      <3>2. a.kind = "accept" /\ a.session = s
        BY FrameIs
      <3> HIDE DEF a, r
      <3>3. s \notin accepted
        BY <1>2, <2>2, <3>1, <3>2, UpMove DEF Moves
      <3> QED BY <3>3 DEF Pending
    <2> QED BY <2>1, <2>2
  <1> QED BY <1>1, <1>2 DEF Pending

LEMMA UnstartedMove ==
    ASSUME TypeOK, TypeOK', Static, Moves PROVE Unstarted'
  <1> SUFFICES ASSUME NEW s \in Session, Pending(s)' PROVE Untouched(s)'
    BY DEF Unstarted
  <1>1. Pending(s) /\ Untouched(s)
    BY PendingMove DEF Static, Unstarted
  <1>2. s \notin live'
    BY <1>1 DEF Moves, LiveMoves, Pending, Untouched
  <1>3. ASSUME NEW u \in User, NEW k \in Steps, In(Frame(k, s), up'[u]) PROVE FALSE
    <2> DEFINE c == Frame(k, s)
    <2>1. c.kind # "accept" /\ c.session = s
      BY FrameIs DEF Steps
    <2>2. ~In(c, up[u]) /\ \A g \in DownFrames : In(g, down[u]) => g.session # s
      BY <1>1 DEF Untouched
    <2>3. In(c, up'[u])
      BY <1>3
    <2> HIDE DEF c
    <2> QED BY <2>1, <2>2, <2>3, UpMove DEF Moves
  <1>4. ASSUME NEW u \in User, NEW g \in DownFrames, In(g, down'[u]), g.session = s PROVE FALSE
    <2>1. ~In(g, down[u]) /\ <<s, u>> \notin telling /\ s \notin live
      BY <1>1, <1>4 DEF Untouched
    <2> QED BY <1>2, <1>4, <2>1, DownMove DEF Moves
  <1>5. ASSUME NEW u \in User, NEW p \in User, table'[u][p] = s PROVE FALSE
    <2>1. table[u][p] # s /\ \A g \in DownFrames : In(g, down[u]) => g.session # s
      BY <1>1 DEF Untouched
    <2>2. Stored(u, p)
      BY <1>5, <2>1, Peers DEF Moves, TableMoves
    <2> QED BY <1>5, <2>1, <2>2, StoredFacts DEF Static
  <1>6. ASSUME NEW u \in User, <<s, u>> \in telling' PROVE FALSE
    BY <1>1, <1>6 DEF Untouched, Moves, LiveMoves
  <1> QED BY <1>2, <1>3, <1>4, <1>5, <1>6 DEF Untouched

LEMMA RightWireMove ==
    ASSUME TypeOK, TypeOK', Static, Moves PROVE RightWire'
  <1>1. ASSUME NEW u \in User, NEW f \in UpFrames, In(f, up'[u]) PROVE u = Sender(f)
    BY <1>1, UpMove DEF Static, RightWire, Moves
  <1>2. ASSUME NEW u \in User, NEW f \in DownFrames, In(f, down'[u])
        PROVE  f.kind = "end" \/ u = Recipient(f)
    BY <1>2, DownMove DEF Static, RightWire, Moves
  <1> QED BY <1>1, <1>2 DEF RightWire

LEMMA OwnedMove ==
    ASSUME TypeOK, TypeOK', Static, Moves PROVE Owned'
  <1> SUFFICES ASSUME NEW u \in User, NEW p \in User, table'[u][p] # NoSession
               PROVE  u \in Parties(table'[u][p]) /\ p = Other(table'[u][p], u)
    BY DEF Owned
  <1>1. CASE table'[u][p] = table[u][p]
    BY <1>1 DEF Static, Owned
  <1>2. CASE Stored(u, p)
    BY <1>2, StoredFacts DEF Static
  <1> QED BY <1>1, <1>2 DEF Moves, TableMoves

LEMMA AcceptOnceMove ==
    ASSUME TypeOK, TypeOK', Static, Moves PROVE AcceptOnce'
  <1> SUFFICES ASSUME NEW s \in Session, NEW u \in User
               PROVE  /\ Once(Frame("accept", s), up'[u])
                      /\ In(Frame("accept", s), up'[u]) => s \in accepted'
    BY DEF AcceptOnce
  <1> DEFINE a == Frame("accept", s)
  <1>1. a.kind = "accept" /\ a.session = s
    BY FrameIs
  <1>2. Once(a, up[u]) /\ (In(a, up[u]) => s \in accepted) /\ accepted \subseteq accepted'
    BY DEF Static, AcceptOnce, Moves, HistoryMoves
  <1> HIDE DEF a
  <1>3. Once(a, up'[u]) /\ (In(a, up'[u]) => s \in accepted')
    BY <1>1, <1>2, UpMove DEF Moves
  <1> QED BY <1>3 DEF a

LEMMA EndDeadMove ==
    ASSUME TypeOK, TypeOK', Static, Moves PROVE EndDead'
  <1> SUFFICES ASSUME NEW s \in live', NEW u \in User
               PROVE  ~In(Frame("end", s), down'[u]) /\ <<s, u>> \notin telling'
    BY DEF EndDead
  <1> DEFINE e == Frame("end", s)
  <1>0. s \in Session
    BY DEF TypeOK
  <1>1. e \in DownFrames /\ e.kind = "end" /\ e.session = s
    BY <1>0, FrameTypes, FrameIs
  <1>2. ~In(e, down[u]) /\ <<s, u>> \notin telling
    <2>1. CASE s \in live
      BY <2>1 DEF Static, EndDead
    <2>2. CASE s \notin live
      <3>1. Untouched(s)
        BY <1>0, <2>2 DEF Moves, LiveMoves, Static, Unstarted
      <3> QED BY <1>1, <3>1 DEF Untouched
    <2> QED BY <2>1, <2>2
  <1>3. <<s, u>> \notin telling'
    BY <1>0, <1>2 DEF Moves, LiveMoves
  <1> HIDE DEF e
  <1>4. ~In(e, down'[u])
    BY <1>1, <1>2, DownMove DEF Moves, Steps
  <1> QED BY <1>3, <1>4 DEF e

LEMMA OrderMove ==
    ASSUME TypeOK, TypeOK', Static, Moves PROVE Order'
  <1> SUFFICES ASSUME NEW s \in live', NEW t \in Session \ live', NEW u \in User,
                      Parties(s) = Parties(t)
               PROVE  /\ Precedes(t, s, down'[u])
                      /\ Holds(u, s)' => ~Late(t, down'[u])
    BY DEF Order, Parties
  <1>0. s \in Session /\ Other(s, u) \in User
    BY SessionAssumption DEF TypeOK, Other
  <1>1. t \notin live
    BY <1>0 DEF Moves, LiveMoves
  <1>2. Holds(u, s)' <=> table'[u][Other(s, u)] = s
    BY DEF Holds
  <1>3. CASE s \in live
    <2>1. Precedes(t, s, down[u]) /\ (Holds(u, s) => ~Late(t, down[u]))
      BY <1>1, <1>3 DEF Static, Order
    <2>2. \A f \in DownFrames : f.kind \in Steps /\ f.session \in live => ~Establishes(t, f)
      BY <1>1, FrameIs
    <2>3. \A f \in DownFrames : f.kind \in {"end", "accept"} => ~Establishes(t, f)
      BY FrameIs
    <2>4. Precedes(t, s, down'[u]) /\ (Late(t, down'[u]) => Late(t, down[u]))
      BY <2>1, <2>2, <2>3, DownMove DEF Moves
    <2>5. ASSUME Holds(u, s)' PROVE ~Late(t, down'[u])
      <3>1. CASE Holds(u, s)
        BY <2>1, <2>4, <3>1
      <3>2. CASE ~Holds(u, s)
        <4>1. Stored(u, Other(s, u))
          BY <1>0, <1>2, <2>5, <3>2, Peers DEF Moves, TableMoves, Holds
        <4> QED BY <1>0, <1>2, <2>1, <2>4, <2>5, <4>1, StoredFacts DEF Static
      <3> QED BY <3>1, <3>2
    <2> QED BY <2>4, <2>5
  <1>4. CASE s \notin live
    <2>1. Untouched(s)
      BY <1>0, <1>4 DEF Moves, LiveMoves, Static, Unstarted
    <2>2. ~Late(s, down'[u])
      <3>1. ASSUME Late(s, down'[u])
            PROVE  \E g \in DownFrames : /\ In(g, down'[u]) /\ g.session = s
                                         /\ g.kind \in {"response", "confirm"}
        <4>1. PICK n \in 1..Len(down'[u]) : Establishes(s, down'[u][n])
          BY <3>1 DEF Late
        <4> QED BY <4>1, FrameIs DEF In
      <3>2. \A g \in DownFrames : In(g, down[u]) => g.session # s
        BY <2>1 DEF Untouched
      <3>3. ASSUME NEW g \in DownFrames, In(g, down'[u]), g.session = s,
                   g.kind \in {"response", "confirm"}
            PROVE  FALSE
        BY <1>4, <3>2, <3>3, DownMove DEF Moves
      <3> QED BY <3>1, <3>3
    <2>3. Precedes(t, s, down'[u])
      BY <2>2 DEF Precedes, Late
    <2>4. ~Holds(u, s)'
      <3>1. table[u][Other(s, u)] # s /\ \A g \in DownFrames : In(g, down[u]) => g.session # s
        BY <1>0, <2>1 DEF Untouched
      <3>2. ~(Stored(u, Other(s, u)) /\ table'[u][Other(s, u)] = s)
        BY <1>0, <3>1, StoredFacts DEF Static
      <3> QED BY <1>0, <1>2, <3>1, <3>2, Peers DEF Moves, TableMoves
    <2> QED BY <2>3, <2>4
  <1> QED BY <1>3, <1>4

LEMMA StaticMove ==
    ASSUME TypeOK, TypeOK', Static, Moves PROVE Static'
  BY RightWireMove, OwnedMove, AcceptOnceMove, UnstartedMove, EndDeadMove, OrderMove DEF Static
-----------------------------------------------------------------------------
(* What becomes of a confirm, both ends being connected; and a client that *)
(* connects has its live sessions forgotten.                               *)
UpKept ==
    \A u \in User, s \in Session :
        In(Frame("confirm", s), up[u]) /\ link[u] = "up" /\ link'[u] = "up" =>
            \/ In(Frame("confirm", s), up'[u])
            \/ s \in unconfirmed'
            \/ link[Other(s, u)] = "up" => In(Frame("confirm", s), down'[Other(s, u)])

DownKept ==
    \A u \in User, s \in Session :
        In(Frame("confirm", s), down[u]) /\ link[u] = "up" /\ link'[u] = "up" =>
            \/ In(Frame("confirm", s), down'[u])
            \/ s \in unconfirmed'
            \/ table'[u][Other(s, u)] = s

LinkMoves ==
    \A u \in User :
        link'[u] = "up" => link[u] = "up" \/ \A s \in live : u \in Parties(s) => s \in forgotten'

Kept == UpKept /\ DownKept /\ LinkMoves

LEMMA SameMoves ==
    ASSUME TypeOK
    PROVE  /\ up' = up => UpMoves /\ UpKept
           /\ down' = down => DownMoves /\ DownKept
           /\ table' = table => TableMoves
           /\ live' = live /\ telling' \subseteq telling => LiveMoves
           /\ link' = link => LinkMoves
           /\ UNCHANGED <<accepted, causes>> => HistoryMoves
  <1>1. ASSUME up' = up PROVE UpMoves /\ UpKept
    <2>1. \A u \in User : Piece(up[u], up[u])
      BY Wires, Pieces
    <2> QED BY <1>1, <2>1 DEF UpMoves, UpKept
  <1>2. ASSUME down' = down PROVE DownMoves /\ DownKept
    <2>1. \A u \in User : Piece(down[u], down[u])
      BY Wires, Pieces
    <2> QED BY <1>2, <2>1 DEF DownMoves, DownKept
  <1>3. table' = table => TableMoves
    BY DEF TableMoves
  <1>4. live' = live /\ telling' \subseteq telling => LiveMoves
    BY DEF LiveMoves
  <1>5. link' = link => LinkMoves
    BY DEF LinkMoves
  <1>6. UNCHANGED <<accepted, causes>> => HistoryMoves
    BY DEF HistoryMoves, causes
  <1> QED BY <1>1, <1>2, <1>3, <1>4, <1>5, <1>6

LEMMA ReadMoves ==
    ASSUME TypeOK, NEW u \in User, NEW f, Read(u, f)
    PROVE  /\ UpMoves
           /\ In(f, up[u])
           /\ \A x \in User \ {u} : up'[x] = up[x]
           /\ \A g : In(g, up[u]) => g = f \/ In(g, up'[u])
           /\ Once(f, up[u]) => ~In(f, up'[u])
  <1>1. /\ up[u] \in Seq(UpFrames) /\ up[u] # <<>> /\ f = Head(up[u])
        /\ up'[u] = Tail(up[u])
        /\ \A x \in User \ {u} : up'[x] = up[x]
    BY Wires DEF Read, TypeOK
  <1>2. \A x \in User : Piece(up'[x], up[x])
    <2>1. ASSUME NEW x \in User \ {u} PROVE Piece(up'[x], up[x])
      BY <1>1, Wires, Pieces
    <2> QED BY <1>1, <2>1, Pieces
  <1> QED BY <1>1, <1>2, HeadFacts DEF UpMoves

LEMMA ReadKept ==
    ASSUME TypeOK, NEW u \in User, NEW f, Read(u, f), UNCHANGED link,
           \A s \in Session : f = Frame("confirm", s) =>
               \/ s \in unconfirmed'
               \/ link[Other(s, u)] = "up" => In(f, down'[Other(s, u)])
    PROVE  UpKept
  <1> SUFFICES ASSUME NEW x \in User, NEW s \in Session, In(Frame("confirm", s), up[x])
               PROVE  \/ In(Frame("confirm", s), up'[x])
                      \/ s \in unconfirmed'
                      \/ link[Other(s, x)] = "up" => In(Frame("confirm", s), down'[Other(s, x)])
    BY DEF UpKept
  <1> DEFINE c == Frame("confirm", s)
  <1>1. /\ \A y \in User \ {u} : up'[y] = up[y]
        /\ \A g : In(g, up[u]) => g = f \/ In(g, up'[u])
    BY ReadMoves
  <1>2. In(c, up'[x]) \/ (x = u /\ c = f)
    BY <1>1
  <1> QED BY <1>2

LEMMA DeliverMoves ==
    ASSUME TypeOK, NEW p \in User, NEW f \in DownFrames, Deliver(p, f),
           \/ f.kind = "end" /\ <<f.session, p>> \in telling
           \/ f.kind = "accept" /\ p = Recipient(f) /\ f.session \in live'
           \/ /\ f.kind \in Steps /\ p = Recipient(f) /\ f.session \in live
              /\ In(f, up[Sender(f)])
    PROVE  /\ DownMoves /\ DownKept
           /\ link[p] = "up" => In(f, down'[p])
  <1>1. \A x \in User : down[x] \in Seq(DownFrames) /\ Piece(down[x], down[x])
    BY Wires, Pieces
  <1>2. CASE link[p] = "up"
    <2>1. /\ down'[p] = Append(down[p], f)
          /\ \A x \in User \ {p} : down'[x] = down[x]
      BY <1>2 DEF Deliver, TypeOK
    <2>2. DownMoves
      <3> SUFFICES ASSUME NEW u \in User
                   PROVE  \/ Piece(down'[u], down[u])
                          \/ \E g \in DownFrames :
                                /\ down'[u] = Append(down[u], g)
                                /\ \/ g.kind = "end" /\ <<g.session, u>> \in telling
                                   \/ g.kind = "accept" /\ u = Recipient(g) /\ g.session \in live'
                                   \/ /\ g.kind \in Steps /\ u = Recipient(g)
                                      /\ g.session \in live /\ In(g, up[Sender(g)])
        BY DEF DownMoves
      <3>1. CASE u = p
        BY <2>1, <3>1
      <3>2. CASE u # p
        BY <1>1, <2>1, <3>2
      <3> QED BY <3>1, <3>2
    <2>3. \A g : In(g, Append(down[p], f)) <=> In(g, down[p]) \/ g = f
      BY <1>1, AppendFacts
    <2>4. \A u \in User : \A g : In(g, down[u]) => In(g, down'[u])
      BY <2>1, <2>3
    <2> QED BY <2>1, <2>2, <2>3, <2>4 DEF DownKept
  <1>3. CASE link[p] # "up"
    <2>1. down' = down
      BY <1>3 DEF Deliver
    <2> QED BY <1>3, <2>1, SameMoves
  <1> QED BY <1>2, <1>3

LEMMA SendKept ==
    ASSUME TypeOK, NEW u \in User, NEW f \in UpFrames, Send(u, f)
    PROVE  /\ UpKept
           /\ \/ up' = up
              \/ /\ up'[u] = Append(up[u], f)
                 /\ \A x \in User \ {u} : up'[x] = up[x] /\ Piece(up'[x], up[x])
           /\ link[u] = "up" => In(f, up'[u])
  <1>1. \A x \in User : up[x] \in Seq(UpFrames) /\ Piece(up[x], up[x])
    BY Wires, Pieces
  <1>2. CASE Connected(u)
    <2>1. /\ up'[u] = Append(up[u], f)
          /\ \A x \in User \ {u} : up'[x] = up[x]
      BY <1>2 DEF Send, TypeOK
    <2>2. \A g : In(g, Append(up[u], f)) <=> In(g, up[u]) \/ g = f
      BY <1>1, AppendFacts
    <2>3. \A x \in User : \A g : In(g, up[x]) => In(g, up'[x])
      BY <2>1, <2>2
    <2> QED BY <1>1, <2>1, <2>2, <2>3 DEF UpKept
  <1>3. CASE ~Connected(u)
    <2>1. up' = up /\ link[u] # "up"
      BY <1>3 DEF Send, Connected
    <2> QED BY <1>3, <2>1, SameMoves
  <1> QED BY <1>2, <1>3

LEMMA AcceptMoves ==
    ASSUME TypeOK, NEW s \in Session, Accept(s) PROVE Moves /\ Kept
  <1> DEFINE u == responder[s]
             f == Frame("accept", s)
  <1>1. u \in User /\ f \in UpFrames /\ f.kind = "accept" /\ f.session = s /\ u = Sender(f)
    BY Peers, FrameTypes, FrameIs DEF Sender
  <1>2. /\ Send(u, f) /\ s \notin accepted /\ accepted' = accepted \cup {s}
        /\ UNCHANGED <<link, table, live, telling, down, unconfirmed, forgotten>>
    BY DEF Accept, client, relay, causes
  <1> HIDE DEF u, f
  <1>3. UpKept /\ UpMoves
    <2>1. CASE up' = up
      BY <2>1, SameMoves
    <2>2. CASE /\ up'[u] = Append(up[u], f)
               /\ \A x \in User \ {u} : up'[x] = up[x] /\ Piece(up'[x], up[x])
      <3>1. UpKept
        BY <1>1, <1>2, SendKept
      <3> QED BY <1>1, <1>2, <2>2, <3>1 DEF UpMoves
    <2> QED BY <1>1, <1>2, <2>1, <2>2, SendKept
  <1> QED BY <1>2, <1>3, SameMoves DEF Moves, Kept, HistoryMoves

LEMMA LostMoves ==
    ASSUME TypeOK, NEW u \in User,
           \/ \E i \in 0..Len(up[u]), j \in 0..Len(down[u]) : Lose(u, i, j)
           \/ \E i \in 0..Len(up[u]) : Exit(u, i)
           \/ Connect(u)
    PROVE  Moves /\ Kept
  <1>1. \A x \in User : /\ up[x] \in Seq(UpFrames) /\ down[x] \in Seq(DownFrames)
                        /\ Piece(up[x], up[x]) /\ Piece(down[x], down[x])
    BY Wires, Pieces
  <1>2. /\ UNCHANGED <<live, telling, accepted, unconfirmed>> /\ forgotten \subseteq forgotten'
        /\ link[u] # "up" \/ link'[u] # "up"
        /\ \A x \in User \ {u} : /\ link'[x] = link[x] /\ table'[x] = table[x]
                                 /\ up'[x] = up[x] /\ down'[x] = down[x]
        /\ table'[u] = table[u] \/ table'[u] = [p \in User |-> NoSession]
        /\ link'[u] = "up" => \A s \in live : u \in Parties(s) => s \in forgotten'
    BY DEF Lose, Exit, Connect, Cleared, relay, causes, TypeOK
  <1>3. Piece(up'[u], up[u]) /\ Piece(down'[u], down[u])
    <2>1. \/ \E i \in 0..Len(up[u]) : up'[u] = SubSeq(up[u], 1, i)
          \/ up'[u] = <<>>
      BY DEF Lose, Exit, Connect, TypeOK
    <2>2. \/ \E j \in 0..Len(down[u]) : down'[u] = SubSeq(down[u], 1, j)
          \/ down'[u] = <<>>
          \/ down'[u] = down[u]
      BY DEF Lose, Exit, Connect, TypeOK
    <2> QED BY <1>1, <2>1, <2>2, Pieces
  <1>4. UpMoves /\ DownMoves
    BY <1>1, <1>2, <1>3 DEF UpMoves, DownMoves
  <1>5. TableMoves
    BY <1>2 DEF TableMoves
  <1>6. UpKept /\ DownKept /\ LinkMoves
    BY <1>2 DEF UpKept, DownKept, LinkMoves
  <1> QED BY <1>2, <1>4, <1>5, <1>6, SameMoves DEF Moves, Kept, HistoryMoves

LEMMA RefuseMoves ==
    ASSUME TypeOK, NEW u, NEW rest, Refuse(u, rest) PROVE DownMoves /\ DownKept
  BY SameMoves DEF Refuse

LEMMA GrantMoves ==
    ASSUME TypeOK, Static, NEW s \in Session, Grant(s) PROVE Moves /\ Kept
  <1> DEFINE r == responder[s]
             i == initiator[s]
             f == Frame("accept", s)
  <1>1. /\ Read(r, f)
        /\ \/ live' = live \cup {s} /\ Deliver(i, f)
           \/ \E rest : Refuse(r, rest) /\ UNCHANGED live
        /\ UNCHANGED <<link, table, telling, accepted, unconfirmed, forgotten>>
    BY DEF Grant, client, causes
  <1>2. /\ f \in DownFrames /\ f.kind = "accept" /\ f.session = s
        /\ i \in User /\ r \in User /\ i = Recipient(f)
        /\ \A t \in Session : f # Frame("confirm", t)
    BY Peers, FrameTypes, FrameIs DEF Sender, Recipient
  <1>3. Once(f, up[r]) /\ (In(f, up[r]) => s \in accepted)
    BY <1>2 DEF Static, AcceptOnce
  <1>4. Pending(s) <=> s \notin accepted \/ In(f, up[r])
    BY DEF Pending
  <1>5. Frame("accept", s) = f /\ responder[s] = r
    OBVIOUS
  <1> HIDE DEF r, i, f
  <1>6. UpMoves /\ UpKept /\ In(f, up[r]) /\ ~In(f, up'[r])
    BY <1>1, <1>2, <1>3, ReadMoves, ReadKept
  <1>7. DownMoves /\ DownKept
    <2>1. CASE live' = live \cup {s} /\ Deliver(i, f)
      BY <1>2, <2>1, DeliverMoves
    <2> QED BY <1>1, <2>1, RefuseMoves
  <1>8. LiveMoves
    <2>1. CASE live' = live
      BY <1>1, <2>1, SameMoves
    <2>2. CASE live' = live \cup {s}
      BY <1>1, <1>3, <1>4, <1>5, <1>6, <2>2 DEF LiveMoves
    <2> QED BY <1>1, <2>1, <2>2
  <1> QED BY <1>1, <1>6, <1>7, <1>8, SameMoves DEF Moves, Kept, HistoryMoves

LEMMA RouteMoves ==
    ASSUME TypeOK, Static, NEW u \in User, NEW k \in Steps, NEW s \in Session, Route(u, k, s)
    PROVE  Moves /\ Kept
  <1> DEFINE f == Frame(k, s)
             p == Other(s, u)
  <1>1. /\ Read(u, f)
        /\ \/ s \in live /\ Deliver(p, f) /\ UNCHANGED unconfirmed
           \/ \E rest : Refuse(u, rest) /\ Unheard(f)
        /\ UNCHANGED <<link, table, live, telling, accepted, forgotten>>
    BY DEF Route, client
  <1>2. f \in UpFrames /\ f \in DownFrames /\ f.kind = k /\ f.session = s /\ p \in User
    BY Peers, FrameTypes, FrameIs DEF Other
  <1>3. \A t \in Session : f = Frame("confirm", t) => t = s /\ k = "confirm"
    BY <1>2, FrameIs
  <1>4. p = Other(s, u)
    OBVIOUS
  <1> HIDE DEF f, p
  <1>5. UpMoves /\ In(f, up[u])
    BY <1>1, ReadMoves
  <1>6. u = Sender(f) /\ p = Recipient(f)
    BY <1>2, <1>4, <1>5 DEF Static, RightWire, Recipient
  <1>7. CASE s \in live /\ Deliver(p, f) /\ UNCHANGED unconfirmed
    <2>1. DownMoves /\ DownKept /\ (link[p] = "up" => In(f, down'[p]))
      BY <1>2, <1>5, <1>6, <1>7, DeliverMoves
    <2>2. UpKept
      BY <1>1, <1>3, <1>4, <2>1, ReadKept
    <2> QED BY <1>1, <1>5, <1>7, <2>1, <2>2, SameMoves DEF Moves, Kept, HistoryMoves
  <1>8. CASE \E rest : Refuse(u, rest) /\ Unheard(f)
    <2>1. DownMoves /\ DownKept
      BY <1>8, RefuseMoves
    <2>2. unconfirmed \subseteq unconfirmed' /\ (k = "confirm" => s \in unconfirmed')
      BY <1>2, <1>8 DEF Unheard
    <2>3. UpKept
      BY <1>1, <1>3, <2>2, ReadKept
    <2> QED BY <1>1, <1>5, <2>1, <2>2, <2>3, SameMoves DEF Moves, Kept, HistoryMoves
  <1> QED BY <1>1, <1>7, <1>8

LEMMA LimitedMoves ==
    ASSUME TypeOK, NEW u \in User, Limited(u) PROVE Moves /\ Kept
  <1> DEFINE f == Head(up[u])
  <1>1. /\ Read(u, f) /\ Unheard(f) /\ Refuse(u, active)
        /\ UNCHANGED <<link, table, live, telling, accepted, forgotten>>
    BY DEF Limited, client
  <1> HIDE DEF f
  <1>2. unconfirmed \subseteq unconfirmed'
    BY <1>1 DEF Unheard
  <1>3. \A s \in Session : f = Frame("confirm", s) => s \in unconfirmed'
    BY <1>1, FrameIs DEF Unheard
  <1> QED
    BY <1>1, <1>2, <1>3, ReadMoves, ReadKept, RefuseMoves, SameMoves
    DEF Moves, Kept, HistoryMoves

LEMMA CleanupMoves ==
    ASSUME TypeOK, NEW x \in User, Cleanup(x) PROVE Moves /\ Kept
  <1>1. /\ live' = live \ SessionsOf(x) /\ telling' = telling \cup Owed(x)
        /\ UNCHANGED <<link, table, up, down, accepted, unconfirmed, forgotten>>
    BY DEF Cleanup, client, causes
  <1>2. \A s, u : <<s, u>> \in Owed(x) => s \in SessionsOf(x)
    BY DEF Owed
  <1>3. \A s : s \in SessionsOf(x) <=> s \in live /\ x \in Parties(s)
    BY DEF SessionsOf
  <1>4. LiveMoves
    BY <1>1, <1>2, <1>3 DEF LiveMoves
  <1> QED BY <1>1, <1>4, SameMoves DEF Moves, Kept, HistoryMoves

LEMMA TellMoves ==
    ASSUME TypeOK, NEW s \in Session, NEW p \in User, Tell(s, p) PROVE Moves /\ Kept
  <1> DEFINE f == Frame("end", s)
  <1>1. /\ <<s, p>> \in telling /\ telling' \subseteq telling
        /\ Deliver(p, f) \/ UNCHANGED down
        /\ UNCHANGED <<link, table, live, up, accepted, unconfirmed, forgotten>>
    BY DEF Tell, client, causes
  <1>2. f \in DownFrames /\ f.kind = "end" /\ f.session = s
    BY FrameTypes, FrameIs
  <1> HIDE DEF f
  <1>3. DownMoves /\ DownKept
    BY <1>1, <1>2, DeliverMoves, SameMoves
  <1> QED BY <1>1, <1>3, SameMoves DEF Moves, Kept, HistoryMoves

LEMMA RestartMoves ==
    ASSUME TypeOK, Restart PROVE Moves /\ Kept
  <1>1. /\ live' = {} /\ telling' = {} /\ up' = [u \in User |-> <<>>]
        /\ \A u \in User : link'[u] # "up"
        /\ UNCHANGED <<table, down, accepted, unconfirmed, forgotten>>
    BY DEF Restart, Connected, causes
  <1>2. UpMoves
    BY <1>1, Wires, Pieces DEF UpMoves
  <1>3. LiveMoves /\ UpKept /\ LinkMoves
    BY <1>1 DEF LiveMoves, UpKept, LinkMoves
  <1> QED BY <1>1, <1>2, <1>3, SameMoves DEF Moves, Kept, HistoryMoves

(* A handler of the client sends at most the next frame of the session it  *)
(* has read about, and stores no other.                                    *)
LEMMA ReceiveMoves ==
    ASSUME TypeOK, Static, NEW u \in User, Receive(u) PROVE Moves /\ Kept
  <1> DEFINE h == Head(down[u])
             s == h.session
             p == Other(s, u)
  <1>1. /\ down[u] \in Seq(DownFrames) /\ down[u] # <<>>
        /\ down'[u] = Tail(down[u])
        /\ \A x \in User \ {u} : down'[x] = down[x]
        /\ UNCHANGED <<link, live, telling, accepted, forgotten>>
    BY Wires DEF Receive, relay, TypeOK
  <1>2. /\ h \in DownFrames /\ In(h, down[u])
        /\ \A f : In(f, down[u]) => f = h \/ In(f, down'[u])
    BY <1>1, HeadFacts
  <1>3. s \in Session /\ h.kind \in Steps \cup {"accept", "end"} /\ h = Frame(h.kind, s)
    BY <1>2, FrameIs
  <1>4. h.kind = "end" \/ u = Recipient(h)
    BY <1>2 DEF Static, RightWire
  <1>5. \/ OnNothing(h.kind, s)
        \/ h.kind = "accept" /\ OnAccept(u, s)
        \/ h.kind = "init" /\ OnInit(u, s)
        \/ h.kind = "response" /\ OnResponse(u, s)
        \/ h.kind = "confirm" /\ OnConfirm(u, s)
        \/ h.kind = "end" /\ OnEnd(u, s)
    BY <1>3 DEF Receive, Steps
  <1>6. p \in User /\ p = Other(s, u)
    BY <1>3, Peers DEF Other
  <1>7. h.kind \in {"response", "confirm"} => Establishes(s, h)
    BY <1>2, FrameIs
  <1>8. /\ h.kind \in {"accept", "response"} => u = initiator[s]
        /\ h.kind \in {"init", "confirm"} => u = responder[s]
    BY <1>3, <1>4, Peers DEF Recipient, Sender
  <1>9. \A k \in Steps : Frame(k, s) \in UpFrames /\ Frame(k, s).kind = k /\ Frame(k, s).session = s
    BY <1>3, FrameTypes, FrameIs
  <1>10. table \in [User -> [User -> Session \cup {NoSession}]]
    BY DEF TypeOK
  <1> HIDE DEF h, s, p
  (* What is stored is the session of the first frame.                     *)
  <1>11. ASSUME Store(u, s)
         PROVE  /\ table'[u][p] = s
                /\ \A x, y \in User : table'[x][y] = table[x][y] \/ (x = u /\ y = p)
    BY <1>6, <1>10, <1>11 DEF Store
  <1>12. unconfirmed \subseteq unconfirmed'
    BY <1>5 DEF OnNothing, OnAccept, OnInit, OnResponse, OnConfirm, OnEnd
  <1>13. /\ UpKept
         /\ \/ up' = up
            \/ \E k \in Steps : /\ Send(u, Frame(k, s)) /\ u = Sender(Frame(k, s))
                                /\ k = "confirm" => table'[u][p] = s
    <2>1. CASE up' = up
      BY <2>1, SameMoves
    <2>2. CASE up' # up
      <3>1. \/ h.kind = "accept" /\ Send(u, Frame("init", s))
            \/ h.kind = "init" /\ Send(u, Frame("response", s))
            \/ h.kind = "response" /\ Store(u, s) /\ Send(u, Frame("confirm", s))
        BY <1>5, <2>2 DEF OnNothing, OnAccept, OnInit, OnResponse, OnConfirm, OnEnd
      <3>2. PICK k \in Steps : /\ Send(u, Frame(k, s)) /\ u = Sender(Frame(k, s))
                               /\ k = "confirm" => table'[u][p] = s
        BY <1>8, <1>9, <1>11, <3>1 DEF Sender, Steps
      <3>3. UpKept
        BY <1>9, <3>2, SendKept
      <3> QED BY <3>2, <3>3
    <2> QED BY <2>1, <2>2
  <1>14. UpMoves
    <2>1. CASE up' = up
      BY <2>1, SameMoves
    <2>2. CASE up' # up
      <3>1. PICK k \in Steps : /\ Send(u, Frame(k, s)) /\ u = Sender(Frame(k, s))
                               /\ k = "confirm" => table'[u][p] = s
        BY <1>13, <2>2
      <3> DEFINE f == Frame(k, s)
      <3>2. f \in UpFrames /\ f.kind = k /\ f.session = s /\ f.kind # "accept"
        BY <1>9 DEF Steps
      <3> HIDE DEF f
      <3>3. /\ up'[u] = Append(up[u], f)
            /\ \A x \in User \ {u} : Piece(up'[x], up[x])
        BY <2>2, <3>1, <3>2, SendKept DEF f
      <3>4. \E g \in DownFrames : In(g, down[u]) /\ g.session = f.session
        BY <1>2, <3>2 DEF s
      <3>5. u = Sender(f) /\ (f.kind = "confirm" => table'[u][Other(f.session, u)] = f.session)
        BY <1>6, <3>1, <3>2 DEF f
      <3> QED BY <3>2, <3>3, <3>4, <3>5 DEF UpMoves
    <2> QED BY <2>1, <2>2
  <1>15. TableMoves
    <2>1. CASE table' = table
      BY <2>1, SameMoves
    <2>2. CASE h.kind = "end" /\ OnEnd(u, s)
      <3>1. \A x, y \in User :
                \/ table'[x][y] = table[x][y]
                \/ x = u /\ table[x][y] = s /\ table'[x][y] = NoSession
        BY <1>10, <2>2 DEF OnEnd
      <3>2. In(Frame("end", s), down[u])
        BY <1>2, <1>3, <2>2
      <3> QED BY <3>1, <3>2 DEF TableMoves
    <2>3. CASE h.kind \in {"response", "confirm"} /\ Store(u, s) /\
               (h.kind = "response" => Send(u, Frame("confirm", s)))
      <3>1. h.kind = "response" /\ link[u] = "up" => In(Frame("confirm", s), up'[u])
        BY <1>9, <2>3, SendKept DEF Steps
      <3>2. Stored(u, p)
        BY <1>1, <1>3, <1>6, <1>7, <1>11, <2>3, <3>1 DEF Stored, h
      <3> QED BY <1>11, <2>3, <3>2 DEF TableMoves
    <2> QED
      BY <1>5, <2>1, <2>2, <2>3 DEF OnNothing, OnAccept, OnInit, OnResponse, OnConfirm
  <1>16. DownMoves
    BY <1>1, Wires, Pieces DEF DownMoves
  <1>17. DownKept
    <2> SUFFICES ASSUME NEW x \in User, NEW t \in Session, In(Frame("confirm", t), down[x])
                 PROVE  \/ In(Frame("confirm", t), down'[x])
                        \/ t \in unconfirmed'
                        \/ table'[x][Other(t, x)] = t
      BY DEF DownKept
    <2>1. CASE x # u \/ Frame("confirm", t) # h
      BY <1>1, <1>2, <2>1
    <2>2. CASE x = u /\ Frame("confirm", t) = h
      <3>1. h.kind = "confirm" /\ t = s
        BY <2>2, FrameIs DEF s
      <3>2. \/ s \in unconfirmed'
            \/ Store(u, s)
        BY <1>5, <3>1 DEF OnNothing, OnConfirm
      <3> QED BY <1>6, <1>11, <2>2, <3>1, <3>2
    <2> QED BY <2>1, <2>2
  <1> QED
    BY <1>1, <1>12, <1>13, <1>14, <1>15, <1>16, <1>17, SameMoves DEF Moves, Kept, HistoryMoves

LEMMA StepMoves ==
    ASSUME TypeOK, Static, [Next]_vars PROVE Moves /\ Kept
  <1>1. CASE \/ UNCHANGED vars
             \/ \E u \in User : \/ Notice(u) \/ Install(u) \/ Displace(u)
                                \/ \E s \in Session : Timeout(u, s)
    <2>1. /\ UNCHANGED <<table, live, telling, up, down, accepted, unconfirmed, forgotten>>
          /\ \A u \in User : link'[u] = "up" => link[u] = "up"
      BY <1>1 DEF vars, client, relay, causes, Notice, Install, Displace, Timeout, TypeOK
    <2>2. LinkMoves
      BY <2>1 DEF LinkMoves
    <2> QED BY <2>1, <2>2, SameMoves DEF Moves, Kept, HistoryMoves
  <1>2. ASSUME NEW u \in User, Serve(u) PROVE Moves /\ Kept
    BY <1>2, GrantMoves, RouteMoves, TellMoves, CleanupMoves DEF Serve
  <1>3. ASSUME NEW u \in User, Environment(u) PROVE Moves /\ Kept
    BY <1>1, <1>3, LostMoves, LimitedMoves DEF Environment
  <1>4. ASSUME NEW u \in User, Loop(u) \/ Process(u) PROVE Moves /\ Kept
    BY <1>1, <1>4, LostMoves, ReceiveMoves DEF Loop, Process
  <1> QED
    BY <1>1, <1>2, <1>3, <1>4, AcceptMoves, RestartMoves DEF Next
-----------------------------------------------------------------------------
(* An entry that is live stays, or is replaced by one that is live: the    *)
(* session it names ends with every other of the same two users, and what  *)
(* establishes itself late finds no younger one.                           *)
LEMMA LiveEntry ==
    ASSUME TypeOK, TypeOK', Static, Moves,
           NEW u \in User, NEW p \in User, table[u][p] \in live,
           link[u] = "up", link'[u] = "up",
           NEW t \in live', Parties(t) = {u, p}
    PROVE  table'[u][p] \in live'
  <1> DEFINE s == table[u][p]
  <1>1. s \in live /\ s \in Session /\ s # NoSession
    BY Peers DEF TypeOK
  <1>2. u \in Parties(s) /\ p = Other(s, u)
    BY <1>1 DEF Static, Owned
  <1>3. Parties(s) = {u, p}
    BY <1>1, <1>2, Peers
  <1>4. CASE table'[u][p] = s
    BY <1>1, <1>3, <1>4 DEF Moves, LiveMoves
  <1>5. CASE table'[u][p] = NoSession /\ In(Frame("end", s), down[u])
    BY <1>1, <1>5 DEF Static, EndDead
  <1>6. CASE Stored(u, p)
    <2> DEFINE n == table'[u][p]
    <2>1. /\ n \in Session /\ live' = live
          /\ u \in Parties(n) /\ p = Other(n, u) /\ Late(n, down[u])
      BY <1>6, StoredFacts DEF Static, Stored
    <2>2. Parties(n) = Parties(s)
      BY <1>3, <2>1, Peers
    <2>3. Holds(u, s)
      BY <1>2 DEF Holds
    <2> HIDE DEF n
    <2>4. n \in live
      BY <1>1, <2>1, <2>2, <2>3 DEF Static, Order
    <2> QED BY <2>1, <2>4 DEF n
  <1> QED BY <1>4, <1>5, <1>6 DEF Moves, TableMoves

(* Of a session that has just become steady nobody holds anything: it has  *)
(* just been granted.                                                      *)
LEMMA SteadyMove ==
    ASSUME TypeOK, TypeOK', Static, Moves, Kept, NEW s \in Session, Steady(s)'
    PROVE  \/ Steady(s)
           \/ /\ ~Confirming(s)'
              /\ ~Holds(initiator[s], s)' /\ ~Holds(responder[s], s)'
  <1> DEFINE i == initiator[s]
             r == responder[s]
             c == Frame("confirm", s)
  <1>1. /\ s \in live' /\ s \notin forgotten' /\ link'[i] = "up" /\ link'[r] = "up"
        /\ i \in User /\ r \in User /\ i \in Parties(s) /\ r \in Parties(s)
        /\ Other(s, i) = r /\ Other(s, r) = i
    BY Peers DEF Steady
  <1>2. CASE s \in live
    <2>1. link[i] = "up" /\ link[r] = "up"
      BY <1>1, <1>2 DEF Kept, LinkMoves
    <2> QED BY <1>1, <1>2, <2>1 DEF Steady, Moves, HistoryMoves
  <1>3. CASE s \notin live
    <2>1. Untouched(s)
      BY <1>1, <1>3 DEF Moves, LiveMoves, Static, Unstarted
    <2>2. c.kind = "confirm" /\ c.session = s /\ c \in DownFrames
      BY FrameTypes, FrameIs DEF Steps
    <2>3. \A u \in User : \A g \in DownFrames : In(g, down[u]) => g.session # s
      BY <2>1 DEF Untouched
    <2>4. ~In(c, up[i])
      BY <1>1, <2>1 DEF Untouched, Steps
    <2>5. \A u, p \in User : ~(Stored(u, p) /\ table'[u][p] = s)
      BY <2>3, StoredFacts DEF Static
    <2>6. ASSUME NEW u \in User, NEW p \in User PROVE table'[u][p] # s
      <3>1. table[u][p] # s
        BY <2>1 DEF Untouched
      <3>2. table'[u][p] = table[u][p] \/ table'[u][p] = NoSession \/ Stored(u, p)
        BY DEF Moves, TableMoves
      <3>3. s # NoSession
        BY Peers
      <3> QED BY <2>5, <3>1, <3>2, <3>3
    <2>7. (Holds(i, s)' <=> table'[i][r] = s) /\ (Holds(r, s)' <=> table'[r][i] = s)
      BY <1>1 DEF Holds
    <2>8. Confirming(s)' <=> In(c, up'[i]) \/ In(c, down'[r])
      BY DEF Confirming
    <2> HIDE DEF c, i, r
    <2>9. ~In(c, up'[i])
      BY <1>1, <2>2, <2>3, <2>4, UpMove DEF Moves
    <2>10. ~In(c, down'[r])
      BY <1>1, <1>3, <2>2, <2>3, DownMove DEF Moves
    <2> QED BY <1>1, <2>6, <2>7, <2>8, <2>9, <2>10 DEF i, r
  <1> QED BY <1>2, <1>3

(* How a steady session comes to be held, and what becomes of its confirm.  *)
LEMMA HeldMove ==
    ASSUME TypeOK, TypeOK', Static, Moves, Kept, NEW s \in Session, Steady(s), Steady(s)'
    PROVE  LET i == initiator[s]
               r == responder[s]
           IN  /\ Holds(i, s)' => Holds(i, s) \/ Confirming(s)'
               /\ Confirming(s)' \/ Holds(r, s)' =>
                      Confirming(s) \/ Holds(r, s) \/ table'[i][r] = s
               /\ Confirming(s) => Confirming(s)' \/ s \in unconfirmed' \/ table'[r][i] = s
  <1> DEFINE i == initiator[s]
             r == responder[s]
             c == Frame("confirm", s)
  <1>1. /\ link'[i] = "up" /\ link'[r] = "up" /\ link[i] = "up" /\ link[r] = "up"
        /\ i \in User /\ r \in User /\ i # r
        /\ Other(s, i) = r /\ Other(s, r) = i
    BY Peers DEF Steady
  <1>2. /\ c.kind = "confirm" /\ c.session = s /\ c \in DownFrames /\ c \in UpFrames
        /\ Sender(c) = i
    BY FrameTypes, FrameIs DEF Steps, Sender
  <1>3. /\ (Holds(i, s) <=> table[i][r] = s) /\ (Holds(r, s) <=> table[r][i] = s)
        /\ (Holds(i, s)' <=> table'[i][r] = s) /\ (Holds(r, s)' <=> table'[r][i] = s)
    BY <1>1 DEF Holds
  <1>4. /\ Confirming(s) <=> In(c, up[i]) \/ In(c, down[r])
        /\ Confirming(s)' <=> In(c, up'[i]) \/ In(c, down'[r])
    BY DEF Confirming
  <1>5. \A f \in DownFrames :
            /\ f.session = s /\ f.kind = "confirm" => f = c /\ Recipient(f) = r
            /\ f.session = s /\ f.kind = "response" => Recipient(f) = i
    BY <1>1, FrameIs DEF Recipient, Sender
  <1>6. \A u, p \in User : Stored(u, p) /\ table'[u][p] = s =>
            \/ u = i /\ (link[u] = "up" => In(c, up'[u]))
            \/ u = r /\ In(c, down[u])
    <2> SUFFICES ASSUME NEW u \in User, NEW p \in User, Stored(u, p), table'[u][p] = s
                 PROVE  \/ u = i /\ (link[u] = "up" => In(c, up'[u]))
                        \/ u = r /\ In(c, down[u])
      OBVIOUS
    <2> DEFINE h == Head(down[u])
    <2>1. /\ h \in DownFrames /\ In(h, down[u]) /\ h.session = s /\ u = Recipient(h)
          /\ h.kind \in {"response", "confirm"}
          /\ h.kind = "response" /\ link[u] = "up" => In(c, up'[u])
      BY StoredFacts, FrameIs DEF Static, Stored
    <2> HIDE DEF h
    <2> QED BY <1>5, <2>1
  <1>7. (In(c, up[i]) => In(c, up'[i]) \/ s \in unconfirmed' \/ In(c, down'[r]))
    BY <1>1 DEF Kept, UpKept
  <1>8. (In(c, down[r]) => In(c, down'[r]) \/ s \in unconfirmed' \/ table'[r][i] = s)
    BY <1>1 DEF Kept, DownKept
  <1> HIDE DEF i, r, c
  <1>9. Holds(i, s)' => Holds(i, s) \/ Confirming(s)'
    BY <1>1, <1>3, <1>4, <1>6, Peers DEF Moves, TableMoves
  <1>10. Holds(r, s)' => Holds(r, s) \/ Confirming(s)
    BY <1>1, <1>3, <1>4, <1>6, Peers DEF Moves, TableMoves
  <1>11. In(c, up'[i]) => In(c, up[i]) \/ table'[i][r] = s
    BY <1>1, <1>2, UpMove DEF Moves
  <1>12. In(c, down'[r]) => In(c, down[r]) \/ In(c, up[i])
    BY <1>1, <1>2, DownMove DEF Moves
  <1> QED
    BY <1>4, <1>7, <1>8, <1>9, <1>10, <1>11, <1>12 DEF i, r

LEMMA TogetherMove ==
    ASSUME TypeOK, TypeOK', Static, Together, Moves, Kept PROVE Together'
  <1> SUFFICES ASSUME NEW s \in Session, Steady(s)'
               PROVE  LET i == initiator[s]
                          r == responder[s]
                      IN  /\ Holds(i, s)' => \/ Confirming(s)'
                                             \/ s \in unconfirmed'
                                             \/ table'[r][i] \in live'
                          /\ Confirming(s)' \/ Holds(r, s)' => table'[i][r] \in live'
    BY DEF Together
  <1> DEFINE i == initiator[s]
             r == responder[s]
  <1>1. CASE ~Steady(s)
    BY <1>1, SteadyMove
  <1>2. CASE Steady(s)
    <2>1. /\ i \in User /\ r \in User /\ Parties(s) = {i, r} /\ s \in live'
          /\ link[i] = "up" /\ link[r] = "up" /\ link'[i] = "up" /\ link'[r] = "up"
      BY <1>2, Peers DEF Steady
    <2>2. /\ Holds(i, s) => Confirming(s) \/ s \in unconfirmed \/ table[r][i] \in live
          /\ Confirming(s) \/ Holds(r, s) => table[i][r] \in live
      BY <1>2 DEF Together
    <2>3. /\ Holds(i, s)' => Holds(i, s) \/ Confirming(s)'
          /\ Confirming(s)' \/ Holds(r, s)' =>
                 Confirming(s) \/ Holds(r, s) \/ table'[i][r] = s
          /\ Confirming(s) => Confirming(s)' \/ s \in unconfirmed' \/ table'[r][i] = s
      BY <1>2, HeldMove
    <2> HIDE DEF i, r
    <2>4. /\ table[r][i] \in live => table'[r][i] \in live'
          /\ table[i][r] \in live => table'[i][r] \in live'
      BY <2>1, LiveEntry
    <2>5. unconfirmed \subseteq unconfirmed'
      BY DEF Moves, HistoryMoves
    <2> QED BY <2>1, <2>2, <2>3, <2>4, <2>5 DEF i, r
  <1> QED BY <1>1, <1>2

LEMMA TogetherInit == Init => Static /\ Together
  <1> SUFFICES ASSUME Init PROVE Static /\ Together
    OBVIOUS
  <1>1. \A u \in User : /\ up[u] = <<>> /\ down[u] = <<>>
                        /\ \A p \in User : table[u][p] = NoSession
    BY DEF Init
  <1>2. live = {} /\ telling = {} /\ accepted = {}
    BY DEF Init
  <1>3. \A f, t, s : ~In(f, <<>>) /\ Once(f, <<>>) /\ Precedes(t, s, <<>>)
    BY DEF In, Once, Precedes
  <1>4. RightWire /\ Owned /\ AcceptOnce /\ EndDead /\ Order
    BY <1>1, <1>2, <1>3 DEF RightWire, Owned, AcceptOnce, EndDead, Order
  <1>5. Unstarted
    BY <1>1, <1>2, <1>3, Peers DEF Unstarted, Untouched
  <1>6. Together
    BY <1>2 DEF Together, Steady
  <1> QED BY <1>4, <1>5, <1>6 DEF Static

LEMMA TogetherInvariance == Spec => [](TypeOK /\ Static /\ Together)
  <1>1. Init => TypeOK /\ Static /\ Together
    BY InvInit, TogetherInit DEF Inv
  <1>2. ASSUME TypeOK /\ Static /\ Together, [Next]_vars
        PROVE  (TypeOK /\ Static /\ Together)'
    <2>1. TypeOK' /\ Moves /\ Kept
      BY <1>2, TypeStep, StepMoves
    <2> QED BY <1>2, <2>1, StaticMove, TogetherMove
  <1> QED BY <1>1, <1>2, PTL DEF Spec

(* Both ends being connected since it was granted, a session is not held   *)
(* by one of them alone once its confirm has arrived.                      *)
THEOREM HeldTogetherTheorem == Spec => []HeldTogether
  <1>1. TypeOK /\ Static /\ Together => HeldTogether
    <2> SUFFICES ASSUME TypeOK, Static, Together, NEW s \in live \ forgotten,
                        link[initiator[s]] = "up", link[responder[s]] = "up"
                 PROVE  /\ Holds(initiator[s], s) =>
                              \/ table[responder[s]][initiator[s]] \in live
                              \/ In(Frame("confirm", s), up[initiator[s]])
                              \/ In(Frame("confirm", s), down[responder[s]])
                              \/ s \in unconfirmed
                        /\ Holds(responder[s], s) =>
                              table[initiator[s]][responder[s]] \in live
      BY DEF HeldTogether
    <2>1. s \in Session /\ Steady(s) /\ NoSession \notin live
      BY Peers DEF TypeOK, Steady
    <2> QED BY <2>1 DEF Together, Confirming
  <1> QED BY <1>1, TogetherInvariance, PTL

(* A live session is replaced in a table only by a live one: a handshake   *)
(* that completes after the end of its session finds no younger one of the *)
(* same two users, although store asks nothing of the entry it replaces    *)
(* (active_sessions.py:20-22).                                             *)
ReplacedByLive ==
    \A u, p \in User :
        table[u][p] \in live => table'[u][p] \in live \cup {NoSession}

(* It holds of every step, whatever came late.                             *)
THEOREM ReplacedByLiveTheorem == Spec => [][ReplacedByLive]_vars
  <1>1. ASSUME TypeOK /\ Static, (TypeOK /\ Static)', [Next]_vars PROVE ReplacedByLive
    <2>1. Moves
      BY <1>1, StepMoves
    <2> SUFFICES ASSUME NEW u \in User, NEW p \in User, table[u][p] \in live, Stored(u, p)
                 PROVE  table'[u][p] \in live
      BY <2>1 DEF ReplacedByLive, Moves, TableMoves
    <2> DEFINE s == table[u][p]
               n == table'[u][p]
    <2>2. s \in Session /\ s # NoSession
      BY <1>1, Peers DEF TypeOK
    <2>3. u \in Parties(s) /\ p = Other(s, u)
      BY <1>1, <2>2 DEF Static, Owned
    <2>4. n \in Session /\ u \in Parties(n) /\ p = Other(n, u) /\ Late(n, down[u])
      BY <1>1, StoredFacts DEF Static, Stored
    <2>5. Parties(n) = Parties(s) /\ Holds(u, s)
      <3>1. Parties(n) = {u, p} /\ Parties(s) = {u, p}
        BY <2>2, <2>3, <2>4, Peers
      <3> QED BY <2>3, <3>1 DEF Holds
    <2> HIDE DEF n
    <2>6. n \in live
      BY <1>1, <2>4, <2>5 DEF Static, Order
    <2> QED BY <2>6 DEF n
  <1>2. TypeOK /\ Static /\ (TypeOK /\ Static)' /\ [Next]_vars => [ReplacedByLive]_vars
    BY <1>1
  <1> QED BY <1>2, TogetherInvariance, PTL DEF Spec
-----------------------------------------------------------------------------
(* ImplementsNegotiation.  What it rests on, beside the above: a session   *)
(* has one message of its negotiation at most on all the wires, and has it *)
(* there once.                                                             *)
HopUser(n, s) == IF n \in {1, 4, 5, 8} THEN responder[s] ELSE initiator[s]
HopFrame(n, s) ==
    Frame(CASE n \in {1, 2} -> "accept"
            [] n \in {3, 4} -> "init"
            [] n \in {5, 6} -> "response"
            [] n \in {7, 8} -> "confirm", s)
HopWire(n, s) == IF n \in {1, 3, 5, 7} THEN up[HopUser(n, s)] ELSE down[HopUser(n, s)]

OnHop(n, s) == In(HopFrame(n, s), HopWire(n, s))

OneMessage == \A s \in Session : \A n, m \in 1..8 : OnHop(n, s) /\ OnHop(m, s) => n = m

OnceEach ==
    \A u \in User :
        /\ \A f \in UpFrames : Once(f, up[u])
        /\ \A f \in DownFrames : f.kind # "end" => Once(f, down[u])

NInv == TypeOK /\ Static /\ OneMessage /\ OnceEach

LEMMA HopCases ==
    \A s \in Session :
        LET i == initiator[s]
            r == responder[s]
        IN  /\ OnHop(1, s) <=> In(Frame("accept", s), up[r])
            /\ OnHop(2, s) <=> In(Frame("accept", s), down[i])
            /\ OnHop(3, s) <=> In(Frame("init", s), up[i])
            /\ OnHop(4, s) <=> In(Frame("init", s), down[r])
            /\ OnHop(5, s) <=> In(Frame("response", s), up[r])
            /\ OnHop(6, s) <=> In(Frame("response", s), down[i])
            /\ OnHop(7, s) <=> In(Frame("confirm", s), up[i])
            /\ OnHop(8, s) <=> In(Frame("confirm", s), down[r])
  BY DEF OnHop, HopWire, HopFrame, HopUser

LEMMA UnsentHop ==
    ASSUME Static, NEW s \in Session, s \notin accepted PROVE \A n \in 1..8 : ~OnHop(n, s)
  <1>1. Untouched(s) /\ initiator[s] \in User /\ responder[s] \in User
    BY Peers DEF Static, Unstarted, Pending
  <1>2. \A u \in User : ~In(Frame("accept", s), up[u])
    BY DEF Static, AcceptOnce
  <1>3. \A u \in User : \A k \in Steps : ~In(Frame(k, s), up[u])
    BY <1>1 DEF Untouched
  <1>4. \A u \in User : \A k \in Steps \cup {"accept"} : ~In(Frame(k, s), down[u])
    <2>1. \A k \in Steps \cup {"accept"} : Frame(k, s) \in DownFrames /\ Frame(k, s).session = s
      BY FrameTypes, FrameIs
    <2> QED BY <1>1, <2>1 DEF Untouched
  <1>5. ~OnHop(1, s) /\ ~OnHop(2, s) /\ ~OnHop(3, s) /\ ~OnHop(4, s)
    BY <1>1, <1>2, <1>3, <1>4, HopCases DEF Steps
  <1>6. ~OnHop(5, s) /\ ~OnHop(6, s) /\ ~OnHop(7, s) /\ ~OnHop(8, s)
    BY <1>1, <1>3, <1>4, HopCases DEF Steps
  <1> QED BY <1>5, <1>6

LEMMA HopIs ==
    ASSUME Static, OneMessage, NEW s \in Session
    PROVE  /\ Hop(s) \in 0..9
           /\ Hop(s) = 0 <=> s \notin accepted
           /\ \A n \in 1..8 : Hop(s) = n <=> OnHop(n, s)
           /\ Hop(s) = 9 <=> s \in accepted /\ \A n \in 1..8 : ~OnHop(n, s)
  <1>1. Hop(s) = CASE s \notin accepted -> 0
                   [] OnHop(1, s) -> 1
                   [] OnHop(2, s) -> 2
                   [] OnHop(3, s) -> 3
                   [] OnHop(4, s) -> 4
                   [] OnHop(5, s) -> 5
                   [] OnHop(6, s) -> 6
                   [] OnHop(7, s) -> 7
                   [] OnHop(8, s) -> 8
                   [] OTHER -> 9
    BY HopCases DEF Hop
  <1>2. s \notin accepted => \A n \in 1..8 : ~OnHop(n, s)
    BY UnsentHop
  <1>3. \A n, m \in 1..8 : OnHop(n, s) /\ OnHop(m, s) => n = m
    BY DEF OneMessage
  <1>4. CASE s \notin accepted
    BY <1>1, <1>2, <1>4
  <1>5. CASE s \in accepted /\ \A n \in 1..8 : ~OnHop(n, s)
    BY <1>1, <1>5
  <1>6. ASSUME s \in accepted, NEW n \in 1..8, OnHop(n, s) PROVE Hop(s) = n
    BY <1>1, <1>3, <1>6
  <1> QED BY <1>2, <1>4, <1>5, <1>6

HopIsAt(s) ==
    /\ Hop(s) \in 0..9
    /\ Hop(s) = 0 <=> s \notin accepted
    /\ \A n \in 1..8 : Hop(s) = n <=> OnHop(n, s)
    /\ Hop(s) = 9 <=> s \in accepted /\ \A n \in 1..8 : ~OnHop(n, s)

LEMMA HopIsAlways == Static /\ OneMessage => \A s \in Session : HopIsAt(s)
  BY HopIs DEF HopIsAt

LEMMA HopIsNext == (Static /\ OneMessage)' => (\A s \in Session : HopIsAt(s))'
  <1>1. (Static /\ OneMessage => \A s \in Session : HopIsAt(s))'
    BY HopIsAlways, PTL
  <1> QED BY <1>1

Odd  == {1, 3, 5, 7}
Even == {2, 4, 6, 8}

LEMMA HopNames ==
    /\ \A s \in Session : \A n \in 1..8 :
          /\ HopFrame(n, s) \in UpFrames /\ HopFrame(n, s) \in DownFrames
          /\ HopFrame(n, s).session = s /\ HopFrame(n, s).kind # "end"
          /\ HopUser(n, s) \in Parties(s) /\ HopUser(n, s) \in User
          /\ n \in Odd => /\ HopUser(n, s) = Sender(HopFrame(n, s))
                          /\ HopUser(n + 1, s) = Recipient(HopFrame(n, s))
                          /\ HopFrame(n + 1, s) = HopFrame(n, s)
                          /\ n + 1 \in 1..8 /\ n + 1 \in Even
          /\ n \in Even => /\ HopUser(n, s) = Recipient(HopFrame(n, s))
                           /\ n # 8 => HopUser(n + 1, s) = HopUser(n, s) /\ n + 1 \in Odd
    /\ \A s \in Session : \A n, m \in 1..8 :
          HopFrame(n, s) = HopFrame(m, s) /\ (n \in Odd <=> m \in Odd) => n = m
    /\ \A f \in UpFrames : \E n \in Odd : f = HopFrame(n, f.session)
    /\ \A f \in DownFrames : f.kind # "end" => \E n \in Even : f = HopFrame(n, f.session)
    /\ \A n \in 1..8 : n \in Odd \/ n \in Even
    /\ \A n \in Odd : n \in 1..8 /\ n \notin Even
    /\ \A n \in Even : n \in 1..8 /\ n \notin Odd
  <1>1. \A s : /\ HopFrame(1, s) = Frame("accept", s) /\ HopFrame(2, s) = Frame("accept", s)
               /\ HopFrame(3, s) = Frame("init", s) /\ HopFrame(4, s) = Frame("init", s)
               /\ HopFrame(5, s) = Frame("response", s) /\ HopFrame(6, s) = Frame("response", s)
               /\ HopFrame(7, s) = Frame("confirm", s) /\ HopFrame(8, s) = Frame("confirm", s)
    BY DEF HopFrame
  <1>2. \A s : /\ HopUser(1, s) = responder[s] /\ HopUser(2, s) = initiator[s]
               /\ HopUser(3, s) = initiator[s] /\ HopUser(4, s) = responder[s]
               /\ HopUser(5, s) = responder[s] /\ HopUser(6, s) = initiator[s]
               /\ HopUser(7, s) = initiator[s] /\ HopUser(8, s) = responder[s]
    BY DEF HopUser
  <1>3. \A n \in 1..8 : n \in {1, 2, 3, 4, 5, 6, 7, 8}
    OBVIOUS
  <1>4. \A s \in Session : \A k \in Steps \cup {"accept"} :
          /\ Frame(k, s) \in UpFrames /\ Frame(k, s) \in DownFrames
          /\ Frame(k, s).session = s /\ Frame(k, s).kind = k
    BY FrameTypes, FrameIs
  <1>5. /\ "accept" \in Steps \cup {"accept"} /\ "init" \in Steps \cup {"accept"}
        /\ "response" \in Steps \cup {"accept"} /\ "confirm" \in Steps \cup {"accept"}
        /\ \A k \in Steps \cup {"accept"} :
              k # "end" /\ k \in {"accept", "init", "response", "confirm"}
    BY DEF Steps
  <1>6. \A s \in Session :
          /\ initiator[s] \in User /\ responder[s] \in User
          /\ initiator[s] \in Parties(s) /\ responder[s] \in Parties(s)
          /\ Other(s, initiator[s]) = responder[s] /\ Other(s, responder[s]) = initiator[s]
    BY Peers
  <1>7. ASSUME NEW s \in Session, NEW n \in 1..8
        PROVE  /\ HopFrame(n, s) \in UpFrames /\ HopFrame(n, s) \in DownFrames
               /\ HopFrame(n, s).session = s /\ HopFrame(n, s).kind # "end"
               /\ HopUser(n, s) \in Parties(s) /\ HopUser(n, s) \in User
    BY <1>1, <1>2, <1>3, <1>4, <1>5, <1>6
  <1>8. \A s \in Session :
          /\ Sender(Frame("accept", s)) = responder[s] /\ Recipient(Frame("accept", s)) = initiator[s]
          /\ Sender(Frame("response", s)) = responder[s] /\ Recipient(Frame("response", s)) = initiator[s]
          /\ Sender(Frame("init", s)) = initiator[s] /\ Recipient(Frame("init", s)) = responder[s]
          /\ Sender(Frame("confirm", s)) = initiator[s] /\ Recipient(Frame("confirm", s)) = responder[s]
    BY <1>6, FrameIs DEF Sender, Recipient
  <1>9. ASSUME NEW s \in Session, NEW n \in Odd
        PROVE  /\ HopUser(n, s) = Sender(HopFrame(n, s))
               /\ HopUser(n + 1, s) = Recipient(HopFrame(n, s))
               /\ HopFrame(n + 1, s) = HopFrame(n, s)
               /\ n + 1 \in 1..8 /\ n + 1 \in Even
    BY <1>1, <1>2, <1>8 DEF Odd, Even
  <1>10. ASSUME NEW s \in Session, NEW n \in Even
         PROVE  /\ HopUser(n, s) = Recipient(HopFrame(n, s))
                /\ n # 8 => HopUser(n + 1, s) = HopUser(n, s) /\ n + 1 \in Odd
    BY <1>1, <1>2, <1>8 DEF Odd, Even
  <1>11. ASSUME NEW s \in Session, NEW n \in 1..8, NEW m \in 1..8,
                HopFrame(n, s) = HopFrame(m, s), n \in Odd <=> m \in Odd
         PROVE  n = m
    <2>1. HopFrame(n, s).kind = HopFrame(m, s).kind
      BY <1>11
    <2>2. \A k \in 1..8 : HopFrame(k, s).kind = CASE k \in {1, 2} -> "accept"
                                                  [] k \in {3, 4} -> "init"
                                                  [] k \in {5, 6} -> "response"
                                                  [] k \in {7, 8} -> "confirm"
      BY DEF HopFrame, Frame
    <2> QED BY <1>3, <1>11, <2>1, <2>2 DEF Odd
  <1>12. ASSUME NEW f \in UpFrames PROVE \E n \in Odd : f = HopFrame(n, f.session)
    BY <1>1, <1>5, FrameIs DEF Odd
  <1>13. ASSUME NEW f \in DownFrames, f.kind # "end" PROVE \E n \in Even : f = HopFrame(n, f.session)
    BY <1>1, <1>5, <1>13, FrameIs DEF Even, Steps
  <1>14. /\ \A n \in 1..8 : n \in Odd \/ n \in Even
         /\ \A n \in Odd : n \in 1..8 /\ n \notin Even
         /\ \A n \in Even : n \in 1..8 /\ n \notin Odd
    BY <1>3 DEF Odd, Even
  <1> QED BY <1>7, <1>9, <1>10, <1>11, <1>12, <1>13, <1>14

(* What becomes of the message of a session in a step: nothing; it may be  *)
(* lost; it takes a hop, or is lost taking it; it is sent.                 *)
Still(s) ==
    /\ s \in accepted' <=> s \in accepted
    /\ \A n \in 1..8 : OnHop(n, s)' <=> OnHop(n, s)

Fades(s) ==
    /\ s \in accepted' <=> s \in accepted
    /\ \A n \in 1..8 : OnHop(n, s)' => OnHop(n, s)

Goes(s, n) ==
    /\ s \in accepted' <=> s \in accepted
    /\ OnHop(n, s) /\ ~OnHop(n, s)'
    /\ \A m \in 1..8 : OnHop(m, s)' => OnHop(m, s) \/ m = n + 1

Starts(s) ==
    /\ s \notin accepted /\ s \in accepted'
    /\ \A n \in 1..8 : OnHop(n, s)' <=> n = 1

StillBut(s) == \A t \in Session \ {s} : Still(t)
AllFade     == \A t \in Session : Fades(t)
AllStill    == \A t \in Session : Still(t)

LEMMA HopFates ==
    ASSUME Static, OneMessage, Static', OneMessage', NEW s \in Session
    PROVE  /\ Hop(s) \in 0..9 /\ Hop(s)' \in 0..9
           /\ Still(s) => Hop(s)' = Hop(s)
           /\ Fades(s) => Hop(s)' = Hop(s) \/ (Hop(s) # 0 /\ Hop(s)' = 9)
           /\ \A n \in 1..8 : Goes(s, n) => Hop(s) = n /\ Hop(s)' \in {n + 1, 9}
           /\ Starts(s) => Hop(s) = 0 /\ Hop(s)' = 1
  <1>1. HopIsAt(s) /\ HopIsAt(s)'
    BY HopIsAlways, HopIsNext
  <1>2. Hop(s) \in 0..9 /\ Hop(s)' \in 0..9
    BY <1>1 DEF HopIsAt
  <1>3. /\ Hop(s) = 0 <=> s \notin accepted
        /\ \A n \in 1..8 : Hop(s) = n <=> OnHop(n, s)
        /\ Hop(s)' = 0 <=> s \notin accepted'
        /\ \A n \in 1..8 : Hop(s)' = n <=> OnHop(n, s)'
    BY <1>1 DEF HopIsAt
  <1>4. \A x \in 0..9 : x = 0 \/ x = 9 \/ x \in 1..8
    OBVIOUS
  <1>5. \A n, m \in 1..8 : OnHop(n, s) /\ OnHop(m, s) => n = m
    BY DEF OneMessage
  <1> DEFINE h == Hop(s)
             g == Hop(s)'
  <1> HIDE DEF h, g
  <1>6. /\ h \in 0..9 /\ g \in 0..9
        /\ h = 0 <=> s \notin accepted
        /\ \A n \in 1..8 : h = n <=> OnHop(n, s)
        /\ g = 0 <=> s \notin accepted'
        /\ \A n \in 1..8 : g = n <=> OnHop(n, s)'
    BY <1>2, <1>3 DEF h, g
  <1>7. Still(s) => g = h
    BY <1>4, <1>6 DEF Still
  <1>8. Fades(s) => g = h \/ (h # 0 /\ g = 9)
    BY <1>4, <1>6 DEF Fades
  <1>9. ASSUME NEW n \in 1..8, Goes(s, n) PROVE h = n /\ g \in {n + 1, 9}
    <2>1. h = n /\ g # n /\ g # 0
      BY <1>6, <1>9 DEF Goes
    <2>2. g \in 1..8 => g = n + 1
      BY <1>5, <1>6, <1>9, <2>1 DEF Goes
    <2> QED BY <1>4, <1>6, <2>1, <2>2
  <1>10. Starts(s) => h = 0 /\ g = 1
    BY <1>6 DEF Starts
  <1> QED BY <1>6, <1>7, <1>8, <1>9, <1>10 DEF h, g

LEMMA OneMessageMove ==
    ASSUME Static, OneMessage,
           \A s \in Session : Fades(s) \/ Starts(s) \/ \E n \in 1..8 : Goes(s, n)
    PROVE  OneMessage'
  <1> SUFFICES ASSUME NEW s \in Session, NEW n \in 1..8, NEW m \in 1..8, OnHop(n, s)', OnHop(m, s)'
               PROVE  n = m
    BY DEF OneMessage
  <1>1. CASE Fades(s)
    BY <1>1 DEF OneMessage, Fades
  <1>2. CASE Starts(s)
    BY <1>2 DEF Starts
  <1>3. ASSUME NEW k \in 1..8, Goes(s, k) PROVE n = m
    BY <1>3 DEF OneMessage, Goes
  <1> QED BY <1>1, <1>2, <1>3

(* The fate of a message, from what is on the wires before and after.      *)
LEMMA HopWires ==
    ASSUME NEW s \in Session, NEW n \in 1..8
    PROVE  LET f == HopFrame(n, s)
               u == HopUser(n, s)
           IN  /\ n \in Odd => /\ OnHop(n, s) <=> In(f, up[u])
                               /\ OnHop(n, s)' <=> In(f, up'[u])
               /\ n \in Even => /\ OnHop(n, s) <=> In(f, down[u])
                                /\ OnHop(n, s)' <=> In(f, down'[u])
  <1>1. (n \in Odd <=> n \in {1, 3, 5, 7}) /\ (n \in Even => n \notin {1, 3, 5, 7})
    BY DEF Odd, Even
  <1>2. /\ HopWire(n, s) = IF n \in Odd THEN up[HopUser(n, s)] ELSE down[HopUser(n, s)]
        /\ HopWire(n, s)' = IF n \in Odd THEN up'[HopUser(n, s)] ELSE down'[HopUser(n, s)]
    BY <1>1 DEF HopWire, HopUser
  <1>3. HopFrame(n, s)' = HopFrame(n, s)
    BY DEF HopFrame, Frame
  <1>4. /\ OnHop(n, s) <=> In(HopFrame(n, s), HopWire(n, s))
        /\ OnHop(n, s)' <=> In(HopFrame(n, s), HopWire(n, s)')
    BY <1>3 DEF OnHop, In
  <1> QED BY <1>1, <1>2, <1>4 DEF Odd

LEMMA FadesIf ==
    ASSUME NEW s \in Session, s \in accepted' <=> s \in accepted,
           \A u \in Parties(s) : \A f : f.session = s /\ f.kind # "end" =>
               (In(f, up'[u]) => In(f, up[u])) /\ (In(f, down'[u]) => In(f, down[u]))
    PROVE  Fades(s)
  BY HopWires, HopNames DEF Fades

LEMMA StillIf ==
    ASSUME NEW s \in Session, s \in accepted' <=> s \in accepted,
           \A u \in Parties(s) : \A f : f.session = s /\ f.kind # "end" =>
               (In(f, up'[u]) <=> In(f, up[u])) /\ (In(f, down'[u]) <=> In(f, down[u]))
    PROVE  Still(s)
  BY HopWires, HopNames DEF Still

LEMMA GoesIf ==
    ASSUME NEW s \in Session, NEW n \in 1..8, s \in accepted' <=> s \in accepted,
           OnHop(n, s), ~OnHop(n, s)',
           \A u \in Parties(s) : \A f : f.session = s /\ f.kind # "end" =>
               /\ In(f, up'[u]) => In(f, up[u]) \/ (n \in Even /\ f = HopFrame(n + 1, s) /\ n # 8)
               /\ In(f, down'[u]) => In(f, down[u]) \/ (n \in Odd /\ f = HopFrame(n + 1, s))
    PROVE  Goes(s, n)
  <1> SUFFICES ASSUME NEW m \in 1..8, OnHop(m, s)', ~OnHop(m, s) PROVE m = n + 1
    BY DEF Goes
  <1> DEFINE f == HopFrame(m, s)
             u == HopUser(m, s)
  <1>1. u \in Parties(s) /\ f.session = s /\ f.kind # "end"
    BY HopNames
  <1>2. CASE m \in Odd
    <2>1. In(f, up'[u]) /\ ~In(f, up[u])
      BY <1>2, HopWires
    <2>2. n \in Even /\ f = HopFrame(n + 1, s) /\ n # 8
      BY <1>1, <2>1
    <2>3. n + 1 \in Odd /\ n + 1 \in 1..8
      BY <2>2, HopNames
    <2> QED BY <1>2, <2>2, <2>3, HopNames
  <1>3. CASE m \in Even
    <2>1. In(f, down'[u]) /\ ~In(f, down[u])
      BY <1>3, HopWires
    <2>2. n \in Odd /\ f = HopFrame(n + 1, s)
      BY <1>1, <2>1
    <2>3. n + 1 \in Even /\ n + 1 \in 1..8 /\ n + 1 \notin Odd
      BY <2>2, HopNames
    <2> QED BY <1>3, <2>2, <2>3, HopNames
  <1> QED BY <1>2, <1>3, HopNames

(* Pieces of the wires.                                                    *)
LEMMA Cut ==
    ASSUME TypeOK, TypeOK', OnceEach,
           \A u \in User : Piece(up'[u], up[u]) /\ Piece(down'[u], down[u])
    PROVE  /\ OnceEach'
           /\ \A u \in User : \A f : /\ In(f, up'[u]) => In(f, up[u])
                                     /\ In(f, down'[u]) => In(f, down[u])
           /\ accepted' = accepted => AllFade
  <1>1. \A u \in User : /\ up[u] \in Seq(UpFrames) /\ up'[u] \in Seq(UpFrames)
                        /\ down[u] \in Seq(DownFrames) /\ down'[u] \in Seq(DownFrames)
    BY Wires DEF TypeOK, UpFrames, DownFrames
  <1>2. \A u \in User : \A f : /\ In(f, up'[u]) => In(f, up[u])
                               /\ In(f, down'[u]) => In(f, down[u])
                               /\ Once(f, up[u]) => Once(f, up'[u])
                               /\ Once(f, down[u]) => Once(f, down'[u])
    BY <1>1, PieceFacts
  <1>3. OnceEach'
    BY <1>2 DEF OnceEach
  <1>4. ASSUME accepted' = accepted, NEW s \in Session PROVE Fades(s)
    BY <1>2, <1>4, FadesIf, Peers
  <1> QED BY <1>2, <1>3, <1>4 DEF AllFade

LEMMA Untold ==
    ASSUME TypeOK, up' = up, down' = down, accepted' = accepted
    PROVE  AllStill /\ AllFade /\ (OnceEach => OnceEach')
  <1>1. \A s \in Session : Still(s)
    BY StillIf
  <1>2. \A s \in Session : Fades(s)
    BY FadesIf
  <1> QED BY <1>1, <1>2 DEF AllStill, AllFade, OnceEach

(* The relay reads a frame.                                                *)
LEMMA Reads ==
    ASSUME TypeOK, TypeOK', Static, OneMessage, OnceEach, accepted' = accepted,
           NEW u \in User, NEW f, Read(u, f)
    PROVE  /\ f \in UpFrames
           /\ down' = down => AllFade /\ OnceEach'
           /\ \A x \in User : \A g : In(g, up'[x]) => In(g, up[x])
           /\ \A x \in User : \A g : g.session # f.session => (In(g, up'[x]) <=> In(g, up[x]))
           /\ \E n \in Odd : /\ f = HopFrame(n, f.session) /\ u = HopUser(n, f.session)
                             /\ OnHop(n, f.session) /\ ~OnHop(n, f.session)'
  <1>1. /\ up[u] \in Seq(UpFrames) /\ up[u] # <<>> /\ f = Head(up[u]) /\ up'[u] = Tail(up[u])
        /\ \A x \in User \ {u} : up'[x] = up[x]
    BY Wires DEF Read, TypeOK
  <1>2. f \in UpFrames /\ In(f, up[u])
    BY <1>1, HeadFacts
  <1>3. \A x \in User : Piece(up'[x], up[x]) /\ Piece(down[x], down[x])
    <2>1. \A x \in User \ {u} : Piece(up'[x], up[x])
      BY <1>1, Wires, Pieces
    <2>2. \A x \in User : Piece(down[x], down[x])
      BY Wires, Pieces
    <2> QED BY <1>1, <2>1, <2>2, Pieces
  <1>4. ~In(f, up'[u])
    BY <1>1, <1>2, HeadFacts DEF OnceEach
  <1>5. \A g : In(g, up[u]) <=> g = f \/ In(g, up'[u])
    BY <1>1, HeadFacts
  <1>6. \A x \in User : \A g : In(g, up'[x]) => In(g, up[x])
    BY <1>1, <1>5
  <1>7. \A x \in User : \A g : g.session # f.session => (In(g, up'[x]) <=> In(g, up[x]))
    BY <1>1, <1>5
  <1>8. down' = down => AllFade /\ OnceEach'
    BY <1>3, Cut
  <1>9. PICK n \in Odd : f = HopFrame(n, f.session)
    BY <1>2, HopNames
  <1>10. n \in 1..8 /\ f.session \in Session
    BY <1>2, FrameIs, HopNames
  <1>11. u = HopUser(n, f.session)
    BY <1>2, <1>9, <1>10, HopNames DEF Static, RightWire
  <1>12. OnHop(n, f.session) /\ ~OnHop(n, f.session)'
    BY <1>2, <1>4, <1>9, <1>10, <1>11, HopWires
  <1> QED BY <1>2, <1>6, <1>7, <1>8, <1>9, <1>11, <1>12

(* It passes it on, or writes it to a dead connection.                     *)
LEMMA Passes ==
    ASSUME TypeOK, TypeOK', Static, OneMessage, OnceEach, accepted' = accepted,
           NEW u \in User, NEW f, Read(u, f), Deliver(Recipient(f), f)
    PROVE  /\ OnceEach' /\ StillBut(f.session)
           /\ \E n \in Odd : /\ f = HopFrame(n, f.session) /\ u = HopUser(n, f.session)
                             /\ Goes(f.session, n)
  <1> DEFINE s == f.session
             p == Recipient(f)
  <1>1. PICK n \in Odd : f = HopFrame(n, s) /\ u = HopUser(n, s) /\ OnHop(n, s) /\ ~OnHop(n, s)'
    BY Reads
  <1>2. /\ f \in UpFrames /\ s \in Session /\ n \in 1..8 /\ n + 1 \in 1..8 /\ n + 1 \in Even
        /\ f = HopFrame(n + 1, s) /\ p = HopUser(n + 1, s) /\ p \in User /\ f \in DownFrames
    BY <1>1, Reads, FrameIs, HopNames
  <1>3. /\ \A x \in User : \A g : In(g, up'[x]) => In(g, up[x])
        /\ \A x \in User : \A g : g.session # s => (In(g, up'[x]) <=> In(g, up[x]))
    BY Reads
  <1>4. ~In(f, down[p])
    <2>1. ~OnHop(n + 1, s)
      BY <1>1, <1>2 DEF OneMessage
    <2> QED BY <1>2, <2>1, HopWires
  <1> HIDE DEF s, p
  <1>5. /\ \A x \in User : \A g : In(g, down'[x]) => In(g, down[x]) \/ g = f
        /\ \A x \in User : \A g : g # f => (In(g, down'[x]) <=> In(g, down[x]))
        /\ \A x \in User : \A g \in DownFrames :
              Once(g, down[x]) /\ (g = f /\ x = p => ~In(g, down[x])) => Once(g, down'[x])
    <2>1. CASE link[p] # "up"
      BY <2>1 DEF Deliver, p
    <2>2. CASE link[p] = "up"
      <3>1. /\ down'[p] = Append(down[p], f) /\ down[p] \in Seq(DownFrames)
            /\ \A x \in User \ {p} : down'[x] = down[x]
        BY <1>2, <2>2, Wires DEF Deliver, TypeOK, p
      <3>2. /\ \A g : In(g, Append(down[p], f)) <=> In(g, down[p]) \/ g = f
            /\ \A g : Once(g, down[p]) /\ (g = f => ~In(g, down[p])) => Once(g, Append(down[p], f))
        BY <1>2, <3>1, AppendFacts
      <3> QED BY <3>1, <3>2
    <2> QED BY <2>1, <2>2
  <1>6. Goes(s, n)
    <2>1. Parties(s) \subseteq User /\ s \in Session /\ n \in 1..8 /\ f = HopFrame(n + 1, s)
      BY <1>2, Peers
    <2>2. \A x \in Parties(s) : \A g : g.session = s /\ g.kind # "end" =>
             /\ In(g, up'[x]) => In(g, up[x]) \/ (n \in Even /\ g = HopFrame(n + 1, s) /\ n # 8)
             /\ In(g, down'[x]) => In(g, down[x]) \/ (n \in Odd /\ g = HopFrame(n + 1, s))
      BY <1>1, <1>3, <1>5, <2>1
    <2>3. (s \in accepted' <=> s \in accepted) /\ OnHop(n, s) /\ ~OnHop(n, s)'
      BY <1>1
    <2> QED BY <2>1, <2>2, <2>3, GoesIf
  <1>7. ASSUME NEW t \in Session \ {s} PROVE Still(t)
    <2>1. \A g : g.session = t => g # f /\ g.session # s
      BY <1>7 DEF s
    <2> QED BY <1>3, <1>5, <2>1, StillIf, Peers
  <1>8. OnceEach'
    <2>1. \A x \in User : \A g \in UpFrames : Once(g, up'[x])
      <3>1. \A x \in User : Piece(up'[x], up[x])
        <4>1. up[u] # <<>> /\ up'[u] = Tail(up[u]) /\ \A x \in User \ {u} : up'[x] = up[x]
          BY DEF Read, TypeOK
        <4>2. \A x \in User \ {u} : Piece(up'[x], up[x])
          BY <4>1, Wires, Pieces
        <4>3. Piece(up'[u], up[u])
          BY <4>1, Wires, Pieces
        <4> QED BY <4>2, <4>3
      <3>2. \A x \in User : up[x] \in Seq(UpFrames) /\ up'[x] \in Seq(UpFrames)
        BY Wires DEF TypeOK, UpFrames
      <3> QED BY <3>1, <3>2, PieceFacts DEF OnceEach
    <2>2. \A x \in User : \A g \in DownFrames : g.kind # "end" => Once(g, down'[x])
      BY <1>4, <1>5 DEF OnceEach
    <2> QED BY <2>1, <2>2 DEF OnceEach
  <1> QED BY <1>1, <1>6, <1>7, <1>8 DEF StillBut, s

(* A client takes a frame, and sends the next one, or nothing.             *)
LEMMA Takes ==
    ASSUME TypeOK, TypeOK', Static, OneMessage, OnceEach, accepted' = accepted,
           NEW u \in User, down[u] # <<>>, down' = [down EXCEPT ![u] = Tail(@)],
           NEW s \in Session, NEW n \in Even, Head(down[u]) = HopFrame(n, s),
           up' = up \/ (n # 8 /\ Send(u, HopFrame(n + 1, s)))
    PROVE  u = HopUser(n, s) /\ OnceEach' /\ StillBut(s) /\ Goes(s, n) /\ (up' = up => AllFade)
  <1> DEFINE h == Head(down[u])
             f == HopFrame(n + 1, s)
  <1>1. /\ down[u] \in Seq(DownFrames) /\ down'[u] = Tail(down[u])
        /\ \A x \in User \ {u} : down'[x] = down[x]
    BY Wires DEF TypeOK
  <1>2. /\ h \in DownFrames /\ In(h, down[u]) /\ \A g : In(g, down[u]) <=> g = h \/ In(g, down'[u])
        /\ Once(h, down[u]) => ~In(h, down'[u])
    BY <1>1, HeadFacts
  <1>3. n \in 1..8 /\ h = HopFrame(n, s) /\ h.session = s /\ h.kind # "end"
    BY HopNames
  <1>4. ~In(h, down'[u])
    BY <1>2, <1>3 DEF OnceEach
  <1>5. u = HopUser(n, s)
    BY <1>2, <1>3, HopNames DEF Static, RightWire
  <1>6. OnHop(n, s) /\ ~OnHop(n, s)'
    BY <1>2, <1>3, <1>4, <1>5, HopWires
  <1>7. \A x \in User : Piece(down'[x], down[x])
    <2>1. \A x \in User \ {u} : Piece(down'[x], down[x])
      BY <1>1, Wires, Pieces
    <2> QED BY <1>1, <2>1, Pieces
  <1>8. n # 8 => /\ n + 1 \in Odd /\ n + 1 \in 1..8 /\ u = HopUser(n + 1, s)
                 /\ f \in UpFrames /\ f.session = s
    BY <1>5, HopNames
  <1>9. n # 8 => ~In(f, up[u])
    <2>1. n # 8 => ~OnHop(n + 1, s)
      BY <1>3, <1>6, <1>8 DEF OneMessage
    <2> QED BY <1>8, <2>1, HopWires
  <1>10. \A t : t # s => \A g : g.session = t => g # h /\ (n # 8 => g # f)
    BY <1>3, <1>8
  <1> HIDE DEF h, f
  <1>11. /\ \A x \in User : \A g : In(g, up'[x]) => In(g, up[x]) \/ (g = f /\ n # 8)
         /\ \A x \in User : \A g : (n # 8 => g # f) => (In(g, up'[x]) <=> In(g, up[x]))
         /\ \A x \in User : \A g \in UpFrames :
               Once(g, up[x]) /\ (g = f /\ x = u /\ n # 8 => ~In(g, up[x])) => Once(g, up'[x])
    <2>1. CASE up' = up
      BY <2>1
    <2>2. CASE up' # up
      <3>1. n # 8 /\ Send(u, f) /\ Connected(u)
        BY <2>2 DEF Send, f
      <3>2. /\ up'[u] = Append(up[u], f) /\ up[u] \in Seq(UpFrames)
            /\ \A x \in User \ {u} : up'[x] = up[x]
        BY <3>1, Wires DEF Send, TypeOK
      <3>3. /\ \A g : In(g, Append(up[u], f)) <=> In(g, up[u]) \/ g = f
            /\ \A g : Once(g, up[u]) /\ (g = f => ~In(g, up[u])) => Once(g, Append(up[u], f))
        BY <1>8, <3>1, <3>2, AppendFacts
      <3> QED BY <3>1, <3>2, <3>3
    <2> QED BY <2>1, <2>2
  <1>12. /\ \A x \in User : \A g : In(g, down'[x]) => In(g, down[x])
         /\ \A x \in User : \A g : g # h => (In(g, down'[x]) <=> In(g, down[x]))
         /\ \A x \in User : \A g : Once(g, down[x]) => Once(g, down'[x])
    <2>1. \A x \in User : down[x] \in Seq(DownFrames) /\ down'[x] \in Seq(DownFrames)
      BY Wires DEF TypeOK, DownFrames
    <2>2. \A x \in User : \A g : /\ In(g, down'[x]) => In(g, down[x])
                                 /\ Once(g, down[x]) => Once(g, down'[x])
      BY <1>7, <2>1, PieceFacts
    <2> QED BY <1>1, <1>2, <2>2
  <1>13. Goes(s, n)
    <2>1. Parties(s) \subseteq User /\ f = HopFrame(n + 1, s)
      BY Peers DEF f
    <2>2. \A x \in Parties(s) : \A g : g.session = s /\ g.kind # "end" =>
             /\ In(g, up'[x]) => In(g, up[x]) \/ (n \in Even /\ g = HopFrame(n + 1, s) /\ n # 8)
             /\ In(g, down'[x]) => In(g, down[x]) \/ (n \in Odd /\ g = HopFrame(n + 1, s))
      BY <1>11, <1>12, <2>1
    <2>3. (s \in accepted' <=> s \in accepted) /\ n \in 1..8
      BY <1>3
    <2> QED BY <1>6, <2>2, <2>3, GoesIf
  <1>14. ASSUME NEW t \in Session \ {s} PROVE Still(t)
    <2>1. Parties(t) \subseteq User /\ t \in Session /\ t # s
      BY Peers
    <2>2. \A g : g.session = t => g # h /\ (n # 8 => g # f)
      BY <1>10, <2>1
    <2>3. \A x \in Parties(t) : \A g : g.session = t /\ g.kind # "end" =>
             (In(g, up'[x]) <=> In(g, up[x])) /\ (In(g, down'[x]) <=> In(g, down[x]))
      BY <1>11, <1>12, <2>1, <2>2
    <2>4. t \in accepted' <=> t \in accepted
      OBVIOUS
    <2> QED BY <2>1, <2>3, <2>4, StillIf
  <1>15. OnceEach'
    BY <1>9, <1>11, <1>12 DEF OnceEach
  <1>16. ASSUME up' = up, NEW t \in Session PROVE Fades(t)
    <2>1. Parties(t) \subseteq User
      BY Peers
    <2>2. \A x \in Parties(t) : \A g : g.session = t /\ g.kind # "end" =>
             (In(g, up'[x]) => In(g, up[x])) /\ (In(g, down'[x]) => In(g, down[x]))
      BY <1>12, <1>16, <2>1
    <2>3. t \in accepted' <=> t \in accepted
      OBVIOUS
    <2> QED BY <2>2, <2>3, FadesIf
  <1> QED BY <1>5, <1>13, <1>14, <1>15, <1>16 DEF StillBut, AllFade

(* Every step does one of these to the negotiations, and keeps each        *)
(* message single.                                                         *)
Idles      == AllFade /\ live' = live /\ table' = table
EndsAll    == AllFade /\ live' = {} /\ table' = table
Ends(u)    == AllStill /\ live' = live \ SessionsOf(u) /\ table' = table
Clears(u)  == /\ AllFade /\ \A s \in Session : u \notin Parties(s) => Still(s)
              /\ live' = live /\ table' = Cleared(u)
Drops(u, s) == /\ AllStill /\ live' = live
               /\ table' = [table EXCEPT ![u] =
                              [p \in User |-> IF @[p] = s THEN NoSession ELSE @[p]]]
Proposes(s) == Starts(s) /\ StillBut(s) /\ live' = live /\ table' = table
Forwards(s, n) == /\ Goes(s, n) /\ StillBut(s) /\ (n # 1 => s \in live)
                  /\ live' = live \cup {s} /\ table' = table
Answers(s, n) == Goes(s, n) /\ StillBut(s) /\ live' = live /\ table' = table
Stores(s, n)  == Goes(s, n) /\ StillBut(s) /\ live' = live /\ Store(HopUser(n, s), s)

Negotiates ==
    \/ Idles \/ EndsAll
    \/ \E u \in User : Ends(u) \/ Clears(u) \/ \E s \in Session : Drops(u, s)
    \/ \E s \in Session : \/ Proposes(s)
                          \/ \E n \in Odd : Forwards(s, n)
                          \/ \E n \in {2, 4} : Answers(s, n)
                          \/ \E n \in {6, 8} : Stores(s, n)

LEMMA AcceptNegotiates ==
    ASSUME TypeOK, TypeOK', Static, OnceEach, NEW s \in Session, Accept(s)
    PROVE  Negotiates /\ OnceEach'
  <1> DEFINE u == responder[s]
             f == Frame("accept", s)
  <1>1. /\ u \in User /\ f \in UpFrames /\ f.session = s /\ f = HopFrame(1, s) /\ u = HopUser(1, s)
        /\ f.kind = "accept"
    BY Peers, FrameTypes, FrameIs DEF HopFrame, HopUser
  <1>2. /\ s \notin accepted /\ accepted' = accepted \cup {s}
        /\ Connected(u) /\ Send(u, f)
        /\ UNCHANGED <<live, table, down>>
    BY DEF Accept, client, relay
  <1>3. \A n \in 1..8 : ~OnHop(n, s)
    BY <1>2, UnsentHop
  <1> HIDE DEF u, f
  <1>4. /\ up[u] \in Seq(UpFrames) /\ up'[u] = Append(up[u], f)
        /\ \A x \in User \ {u} : up'[x] = up[x]
    BY <1>1, <1>2, Wires DEF Send, TypeOK
  <1>5. ~In(f, up[u])
    <2>1. 1 \in 1..8 /\ 1 \in Odd
      BY DEF Odd
    <2> QED BY <1>1, <1>3, <2>1, HopWires
  <1>6. /\ \A g : In(g, up'[u]) <=> In(g, up[u]) \/ g = f
        /\ \A g : Once(g, up[u]) => Once(g, up'[u])
    BY <1>1, <1>4, <1>5, AppendFacts
  <1>7. OnceEach'
    BY <1>2, <1>4, <1>6 DEF OnceEach
  <1>8. ASSUME NEW t \in Session \ {s} PROVE Still(t)
    <2>1. Parties(t) \subseteq User /\ t \in Session /\ t # s
      BY Peers
    <2>2. \A x \in Parties(t) : \A g : g.session = t /\ g.kind # "end" =>
             (In(g, up'[x]) <=> In(g, up[x])) /\ (In(g, down'[x]) <=> In(g, down[x]))
      BY <1>1, <1>2, <1>4, <1>6, <2>1
    <2>3. t \in accepted' <=> t \in accepted
      BY <1>2
    <2> QED BY <2>1, <2>2, <2>3, StillIf
  <1>9. Starts(s)
    <2>1. ASSUME NEW n \in 1..8 PROVE OnHop(n, s)' <=> n = 1
      <3>1. CASE n \in Even
        <4>1. n # 1 /\ ~OnHop(n, s)
          BY <1>3, <3>1 DEF Even
        <4> QED BY <1>2, <3>1, <4>1, HopWires
      <3>2. CASE n \in Odd
        <4>1. 1 \in 1..8 /\ 1 \in Odd
          BY DEF Odd
        <4>2. HopFrame(n, s) = f => n = 1
          BY <1>1, <3>2, <4>1, HopNames
        <4>3. ~In(HopFrame(n, s), up[HopUser(n, s)])
          BY <1>3, <3>2, HopWires
        <4>4. HopUser(n, s) \in User
          BY HopNames
        <4>5. In(HopFrame(n, s), up'[HopUser(n, s)]) <=> n = 1
          BY <1>1, <1>4, <1>6, <4>2, <4>3, <4>4
        <4> QED BY <3>2, <4>5, HopWires
      <3> QED BY <3>1, <3>2, HopNames
    <2> QED BY <1>2, <2>1 DEF Starts
  <1> QED BY <1>2, <1>7, <1>8, <1>9 DEF Negotiates, Proposes, StillBut

LEMMA CutNegotiates ==
    ASSUME TypeOK, TypeOK', OnceEach, NEW u \in User,
           \/ \E i \in 0..Len(up[u]), j \in 0..Len(down[u]) : Lose(u, i, j)
           \/ \E i \in 0..Len(up[u]) : Exit(u, i)
           \/ Connect(u)
    PROVE  Negotiates /\ OnceEach'
  <1>1. \A x \in User : /\ up[x] \in Seq(UpFrames) /\ down[x] \in Seq(DownFrames)
                        /\ Piece(up[x], up[x]) /\ Piece(down[x], down[x])
    BY Wires, Pieces
  <1>2. /\ live' = live /\ accepted' = accepted
        /\ \A x \in User \ {u} : up'[x] = up[x] /\ down'[x] = down[x]
        /\ table' = table \/ table' = Cleared(u)
    BY DEF Lose, Exit, Connect, relay, TypeOK
  <1>3. Piece(up'[u], up[u]) /\ Piece(down'[u], down[u])
    <2>1. \/ \E i \in 0..Len(up[u]) : up'[u] = SubSeq(up[u], 1, i)
          \/ up'[u] = <<>>
      BY DEF Lose, Exit, Connect, TypeOK
    <2>2. \/ \E j \in 0..Len(down[u]) : down'[u] = SubSeq(down[u], 1, j)
          \/ down'[u] = <<>>
          \/ down'[u] = down[u]
      BY DEF Lose, Exit, Connect, TypeOK
    <2> QED BY <1>1, <2>1, <2>2, Pieces
  <1>4. \A x \in User : Piece(up'[x], up[x]) /\ Piece(down'[x], down[x])
    BY <1>1, <1>2, <1>3
  <1>5. AllFade /\ OnceEach'
    BY <1>2, <1>4, Cut
  <1>6. ASSUME NEW s \in Session, u \notin Parties(s) PROVE Still(s)
    <2>1. \A x \in Parties(s) : x \in User \ {u}
      BY <1>6, Peers
    <2>2. \A x \in Parties(s) : \A g : g.session = s /\ g.kind # "end" =>
             (In(g, up'[x]) <=> In(g, up[x])) /\ (In(g, down'[x]) <=> In(g, down[x]))
      BY <1>2, <2>1
    <2>3. s \in accepted' <=> s \in accepted
      BY <1>2
    <2> QED BY <2>2, <2>3, StillIf
  <1> QED BY <1>2, <1>5, <1>6 DEF Negotiates, Idles, Clears

LEMMA RelayNegotiates ==
    ASSUME TypeOK, TypeOK', Static, OneMessage, OnceEach, NEW u \in User,
           Serve(u) \/ Limited(u) \/ Restart
    PROVE  Negotiates /\ OnceEach'
  <1>1. accepted' = accepted /\ table' = table
    BY DEF Serve, Grant, Route, Tell, Cleanup, Limited, Restart, client
  <1>2. ASSUME NEW x \in User, NEW f, Read(x, f), down' = down, live' = live PROVE Negotiates /\ OnceEach'
    BY <1>1, <1>2, Reads DEF Negotiates, Idles
  <1>3. ASSUME NEW x \in User, NEW f, Read(x, f), Deliver(Recipient(f), f),
               live' = live \cup {f.session}, f.kind # "accept" => f.session \in live
        PROVE  Negotiates /\ OnceEach'
    <2>1. PICK n \in Odd : f = HopFrame(n, f.session) /\ Goes(f.session, n)
      BY <1>1, <1>3, Passes
    <2>2. f \in UpFrames /\ f.session \in Session
      BY <1>1, <1>3, Reads, FrameIs
    <2>3. n # 1 => f.kind # "accept"
      BY <2>1 DEF HopFrame, Frame, Odd
    <2> QED BY <1>1, <1>3, <2>1, <2>2, <2>3, Passes DEF Negotiates, Forwards
  <1>4. ASSUME NEW s \in Session, Grant(s) PROVE Negotiates /\ OnceEach'
    <2> DEFINE f == Frame("accept", s)
    <2>1. /\ Read(responder[s], f)
          /\ \/ live' = live \cup {s} /\ Deliver(initiator[s], f)
             \/ down' = down /\ live' = live
      BY <1>4 DEF Grant, Refuse
    <2>2. f.session = s /\ f.kind = "accept" /\ Recipient(f) = initiator[s] /\ responder[s] \in User
      BY Peers, FrameIs DEF Recipient, Sender
    <2> HIDE DEF f
    <2> QED BY <1>2, <1>3, <2>1, <2>2
  <1>5. ASSUME NEW k \in Steps, NEW s \in Session, Route(u, k, s) PROVE Negotiates /\ OnceEach'
    <2> DEFINE f == Frame(k, s)
    <2>1. /\ Read(u, f) /\ live' = live
          /\ \/ s \in live /\ Deliver(Other(s, u), f)
             \/ down' = down
      BY <1>5 DEF Route, Refuse
    <2>2. f.session = s /\ f \in UpFrames
      BY FrameTypes, FrameIs
    <2>3. In(f, up[u])
      BY <2>1, ReadMoves
    <2>4. Recipient(f) = Other(s, u)
      BY <2>2, <2>3 DEF Static, RightWire, Recipient
    <2> HIDE DEF f
    <2>5. s \in live => live \cup {s} = live
      OBVIOUS
    <2> QED BY <1>2, <1>3, <2>1, <2>2, <2>4, <2>5
  <1>6. CASE Limited(u)
    BY <1>2, <1>6 DEF Limited, Refuse
  <1>7. ASSUME NEW s \in Session, Tell(s, u) PROVE Negotiates /\ OnceEach'
    <2>1. /\ up' = up /\ live' = live
          /\ Deliver(u, Frame("end", s)) \/ down' = down
      BY <1>7 DEF Tell
    <2>2. CASE down' = down
      BY <1>1, <2>1, <2>2, Untold DEF Negotiates, Idles
    <2>3. CASE down' # down
      <3> DEFINE f == Frame("end", s)
      <3>1. f \in DownFrames /\ f.kind = "end"
        BY FrameTypes, FrameIs
      <3> HIDE DEF f
      <3>2. /\ down[u] \in Seq(DownFrames) /\ down'[u] = Append(down[u], f)
            /\ \A x \in User \ {u} : down'[x] = down[x]
        BY <2>1, <2>3, Wires DEF Deliver, TypeOK, f
      <3>3. /\ \A g : In(g, down'[u]) <=> In(g, down[u]) \/ g = f
            /\ \A g : Once(g, down[u]) /\ (g = f => ~In(g, down[u])) => Once(g, down'[u])
        BY <3>1, <3>2, AppendFacts
      <3>4. \A x \in User : \A g : g.kind # "end" =>
               (In(g, down'[x]) <=> In(g, down[x])) /\ (Once(g, down[x]) => Once(g, down'[x]))
        BY <3>1, <3>2, <3>3
      <3>5. OnceEach'
        BY <2>1, <3>4 DEF OnceEach
      <3>6. ASSUME NEW t \in Session PROVE Fades(t)
        <4>1. \A x \in Parties(t) : \A g : g.session = t /\ g.kind # "end" =>
                 (In(g, up'[x]) => In(g, up[x])) /\ (In(g, down'[x]) => In(g, down[x]))
          BY <2>1, <3>4, Peers
        <4>2. t \in accepted' <=> t \in accepted
          BY <1>1
        <4> QED BY <4>1, <4>2, FadesIf
      <3> QED BY <1>1, <2>1, <3>5, <3>6 DEF Negotiates, Idles, AllFade
    <2> QED BY <2>2, <2>3
  <1>8. CASE Cleanup(u)
    <2>1. up' = up /\ down' = down /\ live' = live \ SessionsOf(u)
      BY <1>8 DEF Cleanup
    <2> QED BY <1>1, <2>1, Untold DEF Negotiates, Ends
  <1>9. CASE Restart
    <2>1. up' = [x \in User |-> <<>>] /\ down' = down /\ live' = {}
      BY <1>9 DEF Restart
    <2>2. \A x \in User : Piece(up'[x], up[x]) /\ Piece(down'[x], down[x])
      BY <2>1, Wires, Pieces
    <2> QED BY <1>1, <2>1, <2>2, Cut DEF Negotiates, EndsAll
  <1> QED BY <1>4, <1>5, <1>6, <1>7, <1>8, <1>9 DEF Serve

LEMMA ReceiveNegotiates ==
    ASSUME TypeOK, TypeOK', Static, OneMessage, OnceEach, NEW u \in User, Receive(u)
    PROVE  Negotiates /\ OnceEach'
  <1> DEFINE h == Head(down[u])
             s == h.session
  <1>1. /\ down[u] \in Seq(DownFrames) /\ down[u] # <<>>
        /\ down' = [down EXCEPT ![u] = Tail(@)]
        /\ down'[u] = Tail(down[u])
        /\ \A x \in User \ {u} : down'[x] = down[x]
        /\ live' = live /\ accepted' = accepted
    BY Wires DEF Receive, relay, TypeOK
  <1>2. h \in DownFrames /\ \A g : In(g, down[u]) <=> g = h \/ In(g, down'[u])
    BY <1>1, HeadFacts
  <1>3. s \in Session /\ h.kind \in Steps \cup {"accept", "end"} /\ h = Frame(h.kind, s)
    BY <1>2, FrameIs
  <1>4. \/ OnNothing(h.kind, s)
        \/ h.kind = "accept" /\ OnAccept(u, s)
        \/ h.kind = "init" /\ OnInit(u, s)
        \/ h.kind = "response" /\ OnResponse(u, s)
        \/ h.kind = "confirm" /\ OnConfirm(u, s)
        \/ h.kind = "end" /\ OnEnd(u, s)
    BY <1>3 DEF Receive, Steps
  <1>5. CASE h.kind = "end"
    <2>1. up' = up /\ (OnEnd(u, s) \/ table' = table)
      BY <1>4, <1>5 DEF OnNothing, OnEnd
    <2>2. \A x \in User : Piece(up'[x], up[x]) /\ Piece(down'[x], down[x])
      <3>1. \A x \in User : Piece(up[x], up[x]) /\ Piece(down[x], down[x])
        BY Wires, Pieces
      <3>2. Piece(down'[u], down[u])
        BY <1>1, Pieces
      <3> QED BY <1>1, <2>1, <3>1, <3>2
    <2>3. AllFade /\ OnceEach'
      BY <1>1, <2>2, Cut
    <2> HIDE DEF h
    <2>4. ASSUME NEW t \in Session PROVE Still(t)
      <3>1. \A g : g.kind # "end" => (In(g, down'[u]) <=> In(g, down[u]))
        BY <1>2, <1>5
      <3>2. \A x \in Parties(t) : \A g : g.session = t /\ g.kind # "end" =>
               (In(g, up'[x]) <=> In(g, up[x])) /\ (In(g, down'[x]) <=> In(g, down[x]))
        BY <1>1, <2>1, <3>1, Peers
      <3>3. t \in accepted' <=> t \in accepted
        BY <1>1
      <3> QED BY <3>2, <3>3, StillIf
    <2>5. CASE table' = table
      BY <1>1, <2>3, <2>5 DEF Negotiates, Idles
    <2>6. CASE OnEnd(u, s)
      <3>1. Drops(u, s)
        BY <1>1, <2>4, <2>6 DEF Drops, OnEnd, AllStill
      <3> QED BY <1>3, <2>3, <3>1 DEF Negotiates
    <2> QED BY <2>1, <2>5, <2>6
  <1>6. CASE h.kind # "end"
    <2>1. PICK n \in Even : h = HopFrame(n, s)
      BY <1>2, <1>6, HopNames
    <2>2. /\ h.kind = "accept" <=> n = 2
          /\ h.kind = "init" <=> n = 4
          /\ h.kind = "response" <=> n = 6
          /\ h.kind = "confirm" <=> n = 8
          /\ n = 2 => HopFrame(n + 1, s) = Frame("init", s)
          /\ n = 4 => HopFrame(n + 1, s) = Frame("response", s)
          /\ n = 6 => HopFrame(n + 1, s) = Frame("confirm", s)
      <3>1. /\ HopFrame(2, s).kind = "accept" /\ HopFrame(4, s).kind = "init"
            /\ HopFrame(6, s).kind = "response" /\ HopFrame(8, s).kind = "confirm"
            /\ HopFrame(2 + 1, s) = Frame("init", s)
            /\ HopFrame(4 + 1, s) = Frame("response", s)
            /\ HopFrame(6 + 1, s) = Frame("confirm", s)
        BY FrameIs DEF HopFrame
      <3>2. n = 2 \/ n = 4 \/ n = 6 \/ n = 8
        BY DEF Even
      <3> HIDE DEF h, s
      <3> QED BY <2>1, <3>1, <3>2
    <2>3. up' = up \/ (n # 8 /\ Send(u, HopFrame(n + 1, s)))
      BY <1>4, <1>6, <2>2 DEF OnNothing, OnAccept, OnInit, OnResponse, OnConfirm
    <2>4. u = HopUser(n, s) /\ OnceEach' /\ StillBut(s) /\ Goes(s, n) /\ (up' = up => AllFade)
      BY <1>1, <1>3, <2>1, <2>3, Takes
    <2>5. \/ n \in {2, 4} /\ table' = table
          \/ n \in {6, 8} /\ Store(HopUser(n, s), s)
          \/ up' = up /\ table' = table
      BY <1>4, <1>6, <2>2, <2>4 DEF OnNothing, OnAccept, OnInit, OnResponse, OnConfirm
    <2> HIDE DEF h, s
    <2>6. Negotiates
      BY <1>1, <1>3, <2>4, <2>5 DEF Negotiates, Answers, Stores, Idles
    <2> QED BY <2>4, <2>6
  <1> QED BY <1>5, <1>6

LEMMA StepNegotiates ==
    ASSUME TypeOK, TypeOK', Static, OneMessage, OnceEach, [Next]_vars
    PROVE  Negotiates /\ OnceEach'
  <1>1. CASE \/ UNCHANGED vars
             \/ \E u \in User : \/ Notice(u) \/ Install(u) \/ Displace(u)
                                \/ \E s \in Session : Timeout(u, s)
    <2>1. UNCHANGED <<table, live, up, down, accepted>>
      BY <1>1 DEF vars, client, relay, Notice, Install, Displace, Timeout
    <2> QED BY <2>1, Untold DEF Negotiates, Idles
  <1>2. ASSUME NEW u \in User, Loop(u) \/ Process(u) \/ Serve(u) \/ Environment(u)
        PROVE  Negotiates /\ OnceEach'
    BY <1>1, <1>2, CutNegotiates, RelayNegotiates, ReceiveNegotiates DEF Loop, Process, Environment
  <1>3. ASSUME NEW s \in Session, Accept(s) PROVE Negotiates /\ OnceEach'
    BY <1>3, AcceptNegotiates
  <1>4. CASE Restart /\ User # {}
    BY <1>4, RelayNegotiates
  <1>5. CASE Restart /\ User = {}
    <2>1. /\ accepted' = accepted /\ table' = table /\ live' = {} /\ Session = {}
      BY <1>5, Peers DEF Restart
    <2> QED BY <1>5, <2>1 DEF Negotiates, EndsAll, AllFade, OnceEach
  <1> QED BY <1>1, <1>2, <1>3, <1>4, <1>5 DEF Next

LEMMA NInvMove == NInv /\ [Next]_vars => NInv'
  <1> SUFFICES ASSUME TypeOK, Static, OneMessage, OnceEach, [Next]_vars PROVE NInv'
    BY DEF NInv
  <1>1. TypeOK'
    BY TypeStep
  <1>2. Static'
    BY <1>1, StepMoves, StaticMove
  <1>3. Negotiates /\ OnceEach'
    BY <1>1, StepNegotiates
  <1>4. \A s \in Session : Fades(s) \/ Starts(s) \/ \E n \in 1..8 : Goes(s, n)
    <2>1. \A s \in Session : Still(s) => Fades(s)
      BY DEF Still, Fades
    <2>2. AllFade \/ AllStill \/ \E s \in Session : StillBut(s) /\ (Starts(s) \/ \E n \in 1..8 : Goes(s, n))
      BY <1>3, HopNames
      DEF Negotiates, Idles, EndsAll, Ends, Clears, Drops, Proposes, Forwards, Answers, Stores
    <2> QED BY <2>1, <2>2 DEF AllFade, AllStill, StillBut
  <1>5. OneMessage'
    BY <1>4, OneMessageMove
  <1> QED BY <1>1, <1>2, <1>3, <1>5 DEF NInv

LEMMA NInvInit == Init => NInv
  <1> SUFFICES ASSUME Init PROVE NInv
    OBVIOUS
  <1>1. TypeOK /\ Static
    BY InvInit, TogetherInit DEF Inv
  <1>2. accepted = {} /\ \A u \in User : up[u] = <<>> /\ down[u] = <<>>
    BY DEF Init
  <1>3. OneMessage
    BY <1>1, <1>2, UnsentHop DEF OneMessage
  <1>4. OnceEach
    <2>1. \A f : Once(f, <<>>)
      BY DEF Once
    <2> QED BY <1>2, <2>1 DEF OnceEach
  <1> QED BY <1>1, <1>3, <1>4 DEF NInv

(* The sessions a user holds, after a table has changed.                   *)
HeldBy(u) == {s \in Session : u \in Parties(s) /\ Holds(u, s)}

LEMMA HeldCleared ==
    ASSUME TypeOK, NEW u \in User, table' = Cleared(u)
    PROVE  \A x \in User : HeldBy(x)' = IF x = u THEN {} ELSE HeldBy(x)
  <1>1. \A s \in Session : \A x \in Parties(s) : Other(s, x) \in User /\ x \in User
    BY Peers
  <1>2. /\ \A p \in User : table'[u][p] = NoSession
        /\ \A x \in User \ {u} : table'[x] = table[x]
    BY DEF Cleared, TypeOK
  <1> QED BY <1>1, <1>2, Peers DEF HeldBy, Holds

LEMMA HeldDropped ==
    ASSUME TypeOK, NEW u \in User, NEW s \in Session, Drops(u, s)
    PROVE  \A x \in User : HeldBy(x)' = IF x = u THEN HeldBy(x) \ {s} ELSE HeldBy(x)
  <1>1. \A t \in Session : \A x \in Parties(t) : Other(t, x) \in User /\ x \in User
    BY Peers
  <1>2. /\ \A p \in User : table'[u][p] = IF table[u][p] = s THEN NoSession ELSE table[u][p]
        /\ \A x \in User \ {u} : table'[x] = table[x]
    BY DEF Drops, TypeOK
  <1> QED BY <1>1, <1>2, Peers DEF HeldBy, Holds

LEMMA HeldStored ==
    ASSUME TypeOK, NEW u \in User, NEW s \in Session, u \in Parties(s), Store(u, s)
    PROVE  \A x \in User :
              HeldBy(x)' = IF x = u
                           THEN (HeldBy(x) \ {t \in Session : Parties(t) = Parties(s)}) \cup {s}
                           ELSE HeldBy(x)
  <1> DEFINE p == Other(s, u)
  <1>1. \A t \in Session : \A x \in Parties(t) : Other(t, x) \in User /\ x \in User
    BY Peers
  <1>2. \A t \in Session : u \in Parties(t) => (Other(t, u) = p <=> Parties(t) = Parties(s))
    <2> SUFFICES ASSUME NEW t \in Session, u \in Parties(t)
                 PROVE  Other(t, u) = p <=> Parties(t) = Parties(s)
      OBVIOUS
    <2>1. Parties(t) = {u, Other(t, u)} /\ Parties(s) = {u, p} /\ Other(t, u) # u /\ p # u
      BY Peers DEF Other
    <2> QED BY <2>1
  <1>3. /\ table'[u][p] = s /\ \A q \in User \ {p} : table'[u][q] = table[u][q]
        /\ \A x \in User \ {u} : table'[x] = table[x]
    BY <1>1 DEF Store, TypeOK
  <1>4. ASSUME NEW x \in User \ {u} PROVE HeldBy(x)' = HeldBy(x)
    BY <1>1, <1>3 DEF HeldBy, Holds
  <1>5. ASSUME NEW t \in Session
        PROVE  u \in Parties(t) /\ table'[u][Other(t, u)] = t <=>
                  \/ t = s
                  \/ /\ u \in Parties(t) /\ table[u][Other(t, u)] = t
                     /\ Parties(t) # Parties(s)
    BY <1>1, <1>2, <1>3
  <1>6. HeldBy(u)' = (HeldBy(u) \ {t \in Session : Parties(t) = Parties(s)}) \cup {s}
    BY <1>5 DEF HeldBy, Holds
  <1> QED BY <1>4, <1>6

(* The step of Negotiation that a step of the sessions is.                 *)
LEMMA NegotiationStep == NInv /\ NInv' /\ [Next]_vars => [N!ANext]_(N!avars)
  <1> SUFFICES ASSUME TypeOK, TypeOK', Static, Static', OneMessage, OneMessage', Negotiates
               PROVE  [N!ANext]_(N!avars)
    BY StepNegotiates DEF NInv
  <1> DEFINE hop  == [s \in Session |-> Hop(s)]
             next == [s \in Session |-> Hop(s)']
             held == [u \in User |-> HeldBy(u)]
  <1>1. hop' = next
    OBVIOUS
  <1>2. \A s \in Session :
           /\ hop[s] \in 0..9 /\ next[s] \in 0..9
           /\ Still(s) => next[s] = hop[s]
           /\ Fades(s) => next[s] = hop[s] \/ (hop[s] # 0 /\ next[s] = 9)
           /\ \A n \in 1..8 : Goes(s, n) => hop[s] = n /\ next[s] \in {n + 1, 9}
           /\ Starts(s) => hop[s] = 0 /\ next[s] = 1
    BY HopFates
  <1>3. table' = table => held' = held
    BY DEF HeldBy, Holds
  <1>4. next \in [Session -> 0..9]
    BY <1>2
  <1>5. \A s \in Session : StillBut(s) => next = [hop EXCEPT ![s] = next[s]]
    BY <1>2 DEF StillBut
  <1>6. AllStill => next = hop
    BY <1>2 DEF AllStill
  <1>7. AllFade => \A s \in Session : next[s] = hop[s] \/ (hop[s] # 0 /\ next[s] = 9)
    BY <1>2 DEF AllFade
  <1>8. \A s \in Session : N!AParties(s) = Parties(s)
    BY DEF N!AParties, Parties
  <1> HIDE DEF hop, next, held
  <1>9. CASE Idles
    BY <1>1, <1>3, <1>4, <1>7, <1>9 DEF Idles, N!ANext, N!Lose, N!Lost, N!Over, hop, held, HeldBy
  <1>10. CASE EndsAll
    BY <1>1, <1>3, <1>4, <1>7, <1>10 DEF EndsAll, N!ANext, N!EndAll, N!Lost, N!Over, hop, held, HeldBy
  <1>11. ASSUME NEW u \in User, Ends(u) PROVE N!ANext
    <2>1. N!End(u)
      BY <1>1, <1>3, <1>6, <1>8, <1>11 DEF Ends, SessionsOf, TypeOK, N!End, hop, held, HeldBy
    <2> QED BY <2>1 DEF N!ANext
  <1>12. ASSUME NEW u \in User, Clears(u) PROVE N!ANext
    <2>1. held' = [held EXCEPT ![u] = {}]
      BY <1>12, HeldCleared DEF Clears, held
    <2>2. \A s \in Session : next[s] = hop[s] \/ (u \in Parties(s) /\ hop[s] # 0 /\ next[s] = 9)
      BY <1>2, <1>7, <1>12 DEF Clears
    <2>3. N!Reset(u)
      BY <1>1, <1>4, <1>8, <1>12, <2>1, <2>2 DEF Clears, N!Reset, N!Lost, N!Over, hop, held, HeldBy
    <2> QED BY <2>3 DEF N!ANext
  <1>13. ASSUME NEW u \in User, NEW s \in Session, Drops(u, s) PROVE N!ANext
    <2>1. held' = [held EXCEPT ![u] = @ \ {s}]
      BY <1>13, HeldDropped DEF held
    <2>2. N!Drop(u, s)
      BY <1>1, <1>6, <1>13, <2>1 DEF Drops, N!Drop, hop, held, HeldBy
    <2> QED BY <2>2 DEF N!ANext
  <1>14. ASSUME NEW s \in Session, Proposes(s) PROVE N!ANext
    <2>1. hop[s] = 0 /\ next[s] = 1 /\ next = [hop EXCEPT ![s] = next[s]]
      BY <1>2, <1>5, <1>14 DEF Proposes
    <2>2. N!Propose(s)
      BY <1>1, <1>3, <1>14, <2>1 DEF Proposes, N!Propose, hop, held, HeldBy
    <2> QED BY <2>2 DEF N!ANext
  (* The message goes on, or nowhere.                                      *)
  <1>15. ASSUME NEW s \in Session, NEW n \in 1..8, Goes(s, n), StillBut(s)
         PROVE  hop[s] = n /\ N!Move(s)
    <2>1. hop[s] = n /\ next[s] \in {hop[s] + 1, 9} /\ next = [hop EXCEPT ![s] = next[s]]
      BY <1>2, <1>5, <1>15
    <2> QED BY <1>1, <2>1 DEF N!Move, N!Over, hop
  <1>16. ASSUME NEW s \in Session, NEW n \in Odd, Forwards(s, n) PROVE N!ANext
    <2>1. hop[s] = n /\ N!Move(s)
      BY <1>15, <1>16, HopNames DEF Forwards
    <2>2. N!Forward(s)
      BY <1>3, <1>16, <2>1 DEF Forwards, Odd, N!Forward, hop, held, HeldBy
    <2> QED BY <2>2 DEF N!ANext
  <1>17. ASSUME NEW s \in Session, NEW n \in {2, 4}, Answers(s, n) PROVE N!ANext
    <2>1. hop[s] = n /\ N!Move(s)
      BY <1>15, <1>17 DEF Answers
    <2>2. N!Answer(s)
      BY <1>3, <1>17, <2>1 DEF Answers, N!Answer, hop, held, HeldBy
    <2> QED BY <2>2 DEF N!ANext
  <1>18. ASSUME NEW s \in Session, NEW n \in {6, 8}, Stores(s, n) PROVE N!ANext
    <2> DEFINE u == HopUser(n, s)
    <2>1. hop[s] = n /\ N!Move(s)
      BY <1>15, <1>18 DEF Stores
    <2>2. /\ u \in User /\ u \in Parties(s)
          /\ n = 6 => u = initiator[s]
          /\ n = 8 => u = responder[s]
      BY HopNames DEF HopUser
    <2> HIDE DEF u
    <2>3. held' = [held EXCEPT ![u] = (@ \ {t \in Session : Parties(t) = Parties(s)}) \cup {s}]
      BY <1>18, <2>2, HeldStored DEF Stores, held, u
    <2>4. {t \in Session : Parties(t) = Parties(s)} = N!OfTheSame(s)
      BY <1>8 DEF N!OfTheSame
    <2>5. N!Establish(u, s)
      BY <2>3, <2>4 DEF N!Establish, held, HeldBy
    <2>6. N!Decide(s) \/ N!Adopt(s)
      BY <1>18, <2>1, <2>2, <2>5 DEF Stores, N!Decide, N!Adopt, hop
    <2> QED BY <2>6 DEF N!ANext
  <1> QED
    BY <1>9, <1>10, <1>11, <1>12, <1>13, <1>14, <1>16, <1>17, <1>18 DEF Negotiates

(* The sessions of the relay and the two ends, with every queue,           *)
(* connection, timer and restart, implement the negotiation.               *)
THEOREM NegotiationTheorem == Spec => ImplementsNegotiation
  <1>1. Init => N!AInit
    <2> SUFFICES ASSUME Init PROVE N!AInit
      OBVIOUS
    <2>1. \A s \in Session : Hop(s) = 0
      BY NInvInit, HopIs DEF Init, NInv
    <2>2. \A u \in User : \A s \in Session : u \in Parties(s) => ~Holds(u, s)
      BY Peers DEF Init, Holds
    <2>3. live = {}
      BY DEF Init
    <2> QED BY <2>1, <2>2, <2>3 DEF N!AInit
  <1>2. Init => NInv
    BY NInvInit
  <1>3. NInv /\ [Next]_vars => NInv'
    BY NInvMove
  <1>4. NInv /\ NInv' /\ [Next]_vars => [N!ANext]_(N!avars)
    BY NegotiationStep
  <1> QED
    BY <1>1, <1>2, <1>3, <1>4, PTL DEF Spec, ImplementsNegotiation, N!ASpec

(* What follows from it: the two ends establish a session in order, the    *)
(* initiator when it has the response and the responder when it has the    *)
(* confirm, and each of them once: a session that was ended, replaced or   *)
(* cleared does not come back into a table (client/main.py:124-125 stores  *)
(* what on_established reports without asking whether it has ended).       *)
InOrder ==
    \A s \in Session :
        /\ Holds(initiator[s], s) => Hop(s) \in 7..9
        /\ Holds(responder[s], s) => Hop(s) = 9

NeverAgain ==
    \A u \in User : \A s \in HeldBy(u)' \ HeldBy(u) :
        \/ u = initiator[s] /\ Hop(s) = 6 /\ Hop(s)' \in {7, 9}
        \/ u = responder[s] /\ Hop(s) = 8 /\ Hop(s)' = 9

NeverBack == \A s \in Session : Hop(s)' >= Hop(s)

LEMMA NegotiationMoves ==
    ASSUME NInv, NInv', [Next]_vars PROVE NeverBack /\ NeverAgain
  <1>1. TypeOK /\ Negotiates
    BY StepNegotiates DEF NInv
  <1>2. \A s \in Session :
           /\ Hop(s) \in 0..9 /\ Hop(s)' \in 0..9
           /\ Still(s) => Hop(s)' = Hop(s)
           /\ Fades(s) => Hop(s)' = Hop(s) \/ Hop(s)' = 9
           /\ \A n \in 1..8 : Goes(s, n) => Hop(s) = n /\ Hop(s)' \in {n + 1, 9}
           /\ Starts(s) => Hop(s) = 0 /\ Hop(s)' = 1
    BY HopFates DEF NInv
  <1>3. \A s \in Session : Still(s) \/ Fades(s) \/ Starts(s) \/ \E n \in 1..8 : Goes(s, n)
    BY <1>1, HopNames
    DEF Negotiates, Idles, EndsAll, Ends, Clears, Drops, Proposes, Forwards, Answers, Stores,
        AllFade, AllStill, StillBut
  <1>4. NeverBack
    BY <1>2, <1>3 DEF NeverBack
  <1>5. ASSUME table' = table \/ \E u \in User : table' = Cleared(u) \/ \E s \in Session : Drops(u, s)
        PROVE  NeverAgain
    <2>1. CASE table' = table
      BY <2>1 DEF NeverAgain, HeldBy, Holds
    <2>2. CASE \E u \in User : table' = Cleared(u)
      BY <1>1, <2>2, HeldCleared DEF NeverAgain
    <2>3. CASE \E u \in User : \E s \in Session : Drops(u, s)
      BY <1>1, <2>3, HeldDropped DEF NeverAgain
    <2> QED BY <1>5, <2>1, <2>2, <2>3
  <1>6. ASSUME NEW s \in Session, NEW n \in {6, 8}, Stores(s, n) PROVE NeverAgain
    <2> DEFINE u == HopUser(n, s)
    <2>1. /\ u \in User /\ u \in Parties(s)
          /\ n = 6 => u = initiator[s]
          /\ n = 8 => u = responder[s]
      BY HopNames DEF HopUser
    <2> HIDE DEF u
    <2>2. \A x \in User : \A t : t \in HeldBy(x)' /\ t \notin HeldBy(x) => x = u /\ t = s
      BY <1>1, <1>6, <2>1, HeldStored DEF Stores, u
    <2>3. Hop(s) = n /\ Hop(s)' \in {n + 1, 9}
      BY <1>2, <1>6 DEF Stores
    <2> QED BY <2>1, <2>2, <2>3 DEF NeverAgain
  <1> QED
    BY <1>1, <1>4, <1>5, <1>6
    DEF Negotiates, Idles, EndsAll, Ends, Clears, Proposes, Forwards, Answers

LEMMA NInvInvariance == Spec => []NInv
  BY NInvInit, NInvMove, PTL DEF Spec

(* Who holds a session has been reached by the message that establishes it. *)
THEOREM EstablishedInOrder == Spec => []InOrder
  <1>1. Init => InOrder
    BY Peers DEF Init, InOrder, Holds
  <1>2. NInv /\ NInv' /\ InOrder /\ [Next]_vars => InOrder'
    <2> SUFFICES ASSUME NInv, NInv', InOrder, NeverBack, NeverAgain, NEW s \in Session
                 PROVE  /\ Holds(initiator[s], s)' => Hop(s)' \in 7..9
                        /\ Holds(responder[s], s)' => Hop(s)' = 9
      BY NegotiationMoves DEF InOrder
    <2>1. /\ initiator[s] \in User /\ responder[s] \in User /\ initiator[s] # responder[s]
          /\ initiator[s] \in Parties(s) /\ responder[s] \in Parties(s)
      BY Peers
    <2>2. /\ Holds(initiator[s], s) <=> s \in HeldBy(initiator[s])
          /\ Holds(responder[s], s) <=> s \in HeldBy(responder[s])
          /\ Holds(initiator[s], s)' <=> s \in HeldBy(initiator[s])'
          /\ Holds(responder[s], s)' <=> s \in HeldBy(responder[s])'
      BY <2>1 DEF HeldBy
    <2>3. Hop(s) \in 0..9 /\ Hop(s)' \in 0..9 /\ Hop(s)' >= Hop(s)
      BY HopFates DEF NInv, NeverBack
    <2> DEFINE h == Hop(s)
               g == Hop(s)'
    <2>4. /\ s \in HeldBy(initiator[s]) => h \in 7..9
          /\ s \in HeldBy(responder[s]) => h = 9
      BY <2>2 DEF InOrder
    <2>5. /\ s \in HeldBy(initiator[s])' /\ s \notin HeldBy(initiator[s]) => g \in {7, 9}
          /\ s \in HeldBy(responder[s])' /\ s \notin HeldBy(responder[s]) => g = 9
      BY <2>1 DEF NeverAgain
    <2> HIDE DEF h, g
    <2>6. h \in 0..9 /\ g \in 0..9 /\ g >= h
      BY <2>3 DEF h, g
    <2>7. /\ s \in HeldBy(initiator[s])' => g \in 7..9
          /\ s \in HeldBy(responder[s])' => g = 9
      BY <2>4, <2>5, <2>6
    <2> QED BY <2>2, <2>7 DEF g
  <1> QED BY <1>1, <1>2, NInvInvariance, PTL DEF Spec

(* Nobody comes to hold a session but by that message, and it does not     *)
(* come twice: an end that is told a session is over stays without it.     *)
THEOREM EstablishedOnce == Spec => [][NeverBack /\ NeverAgain]_vars
  <1>1. NInv /\ NInv' /\ [Next]_vars => [NeverBack /\ NeverAgain]_vars
    BY NegotiationMoves
  <1> QED BY <1>1, NInvInvariance, PTL DEF Spec
-----------------------------------------------------------------------------
(* One session for two users, if one of them has asked.  It rests on the   *)
(* order of the confirms: the one that is stored last is sent last, and    *)
(* none is overtaken.                                                      *)
Confirm(s) == Frame("confirm", s)

Before(f, g, q) == \A n, m \in 1..Len(q) : q[n] = f /\ q[m] = g => n < m

(* The session the initiator holds is the latest that it has established:  *)
(* the confirm of another one goes before, and if the responder holds      *)
(* another one, there is a confirm to come.                                *)
Coming(s) == \/ In(Confirm(s), up[initiator[s]])
             \/ s \in unconfirmed
             \/ link[responder[s]] # "up"

Latest ==
    \A s \in Session : \A t \in Session \ {s} :
        LET i == initiator[s]
            r == responder[s]
        IN  /\ initiator[t] = i /\ responder[t] = r
            /\ Holds(i, s) /\ link[i] = "up"
            => /\ In(Confirm(t), up[i]) =>
                      In(Confirm(s), up[i]) /\ Before(Confirm(t), Confirm(s), up[i])
               /\ In(Confirm(t), down[r]) =>
                      \/ Coming(s)
                      \/ In(Confirm(s), down[r]) /\ Before(Confirm(t), Confirm(s), down[r])
               /\ Holds(r, t) => Coming(s) \/ In(Confirm(s), down[r])

(* While a connection works, a wire loses its first frame only; and a      *)
(* connection begins with nothing.                                         *)
Turn(r, q) == r = q \/ (q # <<>> /\ r = Tail(q))

InTurn ==
    \A u \in User : link[u] = "up" /\ link'[u] = "up" =>
        /\ Piece(up'[u], up[u]) => Turn(up'[u], up[u])
        /\ Piece(down'[u], down[u]) => Turn(down'[u], down[u])

Renewed ==
    \A u \in User : link[u] # "up" /\ link'[u] = "up" =>
        /\ down'[u] = <<>>
        /\ \A p \in User : table'[u][p] = NoSession

LEMMA AppendNoPiece ==
    ASSUME NEW S, NEW q \in Seq(S), NEW x \in S PROVE ~Piece(Append(q, x), q)
  <1>1. Len(Append(q, x)) = Len(q) + 1 /\ Len(q) \in Nat
    OBVIOUS
  <1> QED BY <1>1 DEF Piece

LEMMA TurnFacts ==
    ASSUME NEW S, NEW q \in Seq(S), NEW r, Turn(r, q), NEW f, NEW g, f # g,
           In(f, r), In(g, q), Before(f, g, q)
    PROVE  In(g, r) /\ Before(f, g, r)
  <1>1. CASE r = q
    BY <1>1
  <1>2. CASE q # <<>> /\ r = Tail(q)
    <2>1. /\ Len(q) \in Nat /\ Len(r) = Len(q) - 1
          /\ \A n \in 1..Len(r) : r[n] = q[n + 1]
      BY <1>2
    <2>2. /\ \A n \in 1..Len(r) : n + 1 \in 1..Len(q) /\ r[n] = q[n + 1]
          /\ \A n \in 1..Len(q) : n > 1 => n - 1 \in 1..Len(r) /\ r[n - 1] = q[n]
      BY <2>1
    <2>3. PICK n \in 1..Len(r) : r[n] = f
      BY DEF In
    <2>4. PICK m \in 1..Len(q) : q[m] = g
      BY DEF In
    <2>5. n + 1 < m
      BY <2>2, <2>3, <2>4 DEF Before
    <2>6. m > 1 /\ n \in Nat
      BY <2>3, <2>5
    <2>7. In(g, r)
      BY <2>2, <2>4, <2>6 DEF In
    <2>8. Before(f, g, r)
      <3> SUFFICES ASSUME NEW a \in 1..Len(r), NEW b \in 1..Len(r), r[a] = f, r[b] = g
                   PROVE  a < b
        BY DEF Before
      <3>1. a + 1 < b + 1
        BY <2>2 DEF Before
      <3> QED BY <3>1
    <2> QED BY <2>7, <2>8
  <1> QED BY <1>1, <1>2 DEF Turn

LEMMA BeforeFacts ==
    ASSUME NEW S, NEW q \in Seq(S), NEW x \in S, NEW f, NEW g, f # x,
           Before(f, g, q) \/ ~In(g, q)
    PROVE  Before(f, g, Append(q, x))
  <1> DEFINE a == Append(q, x)
  <1>1. /\ Len(a) = Len(q) + 1 /\ Len(q) \in Nat
        /\ a[Len(q) + 1] = x
        /\ \A i \in 1..Len(q) : a[i] = q[i]
    OBVIOUS
  <1> HIDE DEF a
  <1>2. Before(f, g, a)
    <2> SUFFICES ASSUME NEW n \in 1..Len(a), NEW m \in 1..Len(a), a[n] = f, a[m] = g
                 PROVE  n < m
      BY DEF Before
    <2>1. n \in 1..Len(q) /\ q[n] = f
      BY <1>1
    <2>2. CASE m \in 1..Len(q)
      <3>1. q[m] = g
        BY <1>1, <2>2
      <3> QED BY <2>1, <2>2, <3>1 DEF Before, In
    <2>3. CASE m = Len(q) + 1
      BY <1>1, <2>1, <2>3
    <2> QED BY <1>1, <2>2, <2>3
  <1> QED BY <1>2 DEF a

LEMMA SendTurn ==
    ASSUME TypeOK, NEW u \in User, NEW f \in UpFrames, Send(u, f), NEW x \in User,
           Piece(up'[x], up[x])
    PROVE  up'[x] = up[x]
  <1>1. up'[x] = up[x] \/ up'[x] = Append(up[x], f)
    BY DEF Send, TypeOK
  <1> QED BY <1>1, Wires, AppendNoPiece

LEMMA DeliverTurn ==
    ASSUME TypeOK, NEW u \in User, NEW f \in DownFrames, Deliver(u, f), NEW x \in User,
           Piece(down'[x], down[x])
    PROVE  down'[x] = down[x]
  <1>1. down'[x] = down[x] \/ down'[x] = Append(down[x], f)
    BY DEF Deliver, TypeOK
  <1> QED BY <1>1, Wires, AppendNoPiece

LEMMA StepTurns ==
    ASSUME TypeOK, Drained, [Next]_vars PROVE InTurn /\ Renewed
  <1>1. CASE \/ UNCHANGED vars
             \/ \E u \in User : \/ Notice(u) \/ Install(u) \/ Displace(u) \/ Cleanup(u)
                                \/ \E s \in Session : Timeout(u, s)
    <2>1. /\ UNCHANGED <<up, down>>
          /\ \A u \in User : link'[u] = "up" => link[u] = "up"
      BY <1>1 DEF vars, client, relay, Notice, Install, Displace, Cleanup, Timeout, TypeOK
    <2> QED BY <2>1 DEF InTurn, Renewed, Turn
  <1>2. ASSUME NEW s \in Session, Accept(s) PROVE InTurn /\ Renewed
    <2>1. /\ UNCHANGED <<down, link>> /\ Send(responder[s], Frame("accept", s))
          /\ responder[s] \in User /\ Frame("accept", s) \in UpFrames
      BY <1>2, Peers, FrameTypes DEF Accept, client
    <2> QED BY <2>1, SendTurn DEF InTurn, Renewed, Turn
  <1>3. ASSUME NEW u \in User, Serve(u) \/ Limited(u) PROVE InTurn /\ Renewed
    <2>1. UNCHANGED link
      BY <1>3 DEF Serve, Grant, Route, Tell, Cleanup, Limited, client
    <2>2. \A x \in User : Turn(up'[x], up[x])
      <3>1. CASE UNCHANGED up
        BY <3>1 DEF Turn
      <3>2. CASE \E v \in User : \E f : Read(v, f)
        BY <3>2 DEF Read, Turn, TypeOK
      <3> QED BY <1>3, <3>1, <3>2, Peers DEF Serve, Grant, Route, Tell, Cleanup, Limited
    <2>3. \/ UNCHANGED down
          \/ \E v \in User, f \in DownFrames : Deliver(v, f)
      BY <1>3, Peers, FrameTypes DEF Serve, Grant, Route, Tell, Cleanup, Limited, Refuse, Other
    <2> QED BY <2>1, <2>2, <2>3, DeliverTurn DEF InTurn, Renewed, Turn
  <1>4. ASSUME NEW u \in User, Receive(u) PROVE InTurn /\ Renewed
    <2> DEFINE s == Head(down[u]).session
    <2>1. /\ UNCHANGED link
          /\ \A x \in User : Turn(down'[x], down[x])
      BY <1>4 DEF Receive, Turn, TypeOK
    <2>2. s \in Session /\ Head(down[u]).kind \in {"init", "response", "confirm", "accept", "end"}
      <3>1. down[u] # <<>> /\ down[u] \in Seq(DownFrames)
        BY <1>4, Wires DEF Receive
      <3> QED BY <3>1, FrameTypes, HeadFacts
    <2>3. \/ UNCHANGED up
          \/ \E k \in Steps : Send(u, Frame(k, s))
      BY <1>4, <2>2 DEF Receive, OnNothing, OnAccept, OnInit, OnResponse, OnConfirm, OnEnd, Steps
    <2>4. \A k \in Steps : Frame(k, s) \in UpFrames
      BY <2>2, FrameTypes
    <2> QED BY <2>1, <2>3, <2>4, SendTurn DEF InTurn, Renewed, Turn
  <1>5. ASSUME NEW u \in User,
               \/ \E i \in 0..Len(up[u]), j \in 0..Len(down[u]) : Lose(u, i, j)
               \/ \E i \in 0..Len(up[u]) : Exit(u, i)
               \/ Connect(u)
        PROVE  InTurn /\ Renewed
    <2>1. /\ \A x \in User \ {u} : link'[x] = link[x] /\ up'[x] = up[x] /\ down'[x] = down[x]
          /\ link[u] # "up" \/ link'[u] # "up"
          /\ link'[u] = "up" => /\ link[u] = "down" /\ down'[u] = down[u]
                                /\ table'[u] = [p \in User |-> NoSession]
      BY <1>5 DEF Lose, Exit, Connect, Cleared, TypeOK
    <2> QED BY <2>1 DEF InTurn, Renewed, Turn, Drained
  <1>6. CASE Restart
    BY <1>6 DEF Restart, Connected, InTurn, Renewed
  <1> QED
    BY <1>1, <1>2, <1>3, <1>4, <1>5, <1>6 DEF Next, Loop, Process, Environment

LEMMA ConfirmFacts ==
    /\ \A s \in Session :
          /\ Confirm(s) \in UpFrames /\ Confirm(s) \in DownFrames
          /\ Confirm(s).kind = "confirm" /\ Confirm(s).session = s
          /\ Sender(Confirm(s)) = initiator[s] /\ Recipient(Confirm(s)) = responder[s]
    /\ \A s, t \in Session : s # t => Confirm(s) # Confirm(t)
  <1>1. \A s \in Session :
          /\ Confirm(s) \in UpFrames /\ Confirm(s) \in DownFrames
          /\ Confirm(s).kind = "confirm" /\ Confirm(s).session = s
    BY FrameTypes, FrameIs DEF Confirm, Steps
  <1> QED BY <1>1, Peers DEF Sender, Recipient

(* What becomes of the confirm of s, as long as both ends stay.            *)
LEMMA ConfirmGoes ==
    ASSUME TypeOK, Kept, NEW s \in Session,
           link[initiator[s]] = "up", link'[initiator[s]] = "up",
           Coming(s), link[responder[s]] = "up", HistoryMoves
    PROVE  Coming(s)' \/ In(Confirm(s), down'[responder[s]])
  <1> QED BY Peers DEF Coming, Kept, UpKept, Confirm, HistoryMoves

(* The initiator holds s since this step: it has just sent its confirm.    *)
LEMMA LatestStored ==
    ASSUME NInv, NInv', Moves, NEW s \in Session, NEW t \in Session \ {s},
           link[initiator[s]] = "up", Stored(initiator[s], responder[s]),
           table'[initiator[s]][responder[s]] = s
    PROVE  /\ In(Confirm(s), up'[initiator[s]])
           /\ Before(Confirm(t), Confirm(s), up'[initiator[s]])
  <1> DEFINE i == initiator[s]
             h == Head(down[i])
  <1>1. i \in User /\ responder[s] \in User
    BY Peers
  <1>2. h \in DownFrames /\ In(h, down[i]) /\ h.session = s /\ i = Recipient(h)
    BY <1>1, StoredFacts DEF NInv, Static
  <1>3. h.kind = "response"
    <2>1. h.kind \in {"response", "confirm"}
      BY FrameIs DEF Stored
    <2> QED BY <1>2, <2>1, Peers DEF Recipient, Sender
  <1>4. h = Frame("response", s)
    BY <1>2, <1>3, FrameIs
  <1>5. In(Confirm(s), up'[i])
    BY <1>3 DEF Stored, Confirm
  <1>6. ~In(Confirm(s), up[i])
    BY <1>2, <1>4, HopCases DEF NInv, OneMessage, Confirm
  <1>7. up[i] \in Seq(UpFrames) /\ up'[i] \in Seq(UpFrames)
    BY <1>1, Wires DEF NInv, TypeOK, UpFrames
  <1>8. PICK f \in UpFrames : up'[i] = Append(up[i], f)
    <2>1. ~Piece(up'[i], up[i])
      BY <1>5, <1>6, <1>7, PieceFacts
    <2> QED BY <1>1, <2>1 DEF Moves, UpMoves
  <1>9. f = Confirm(s)
    BY <1>5, <1>6, <1>7, <1>8, AppendFacts
  <1>10. Before(Confirm(t), Confirm(s), up'[i])
    BY <1>6, <1>7, <1>8, <1>9, ConfirmFacts, BeforeFacts
  <1> QED BY <1>5, <1>10

(* It keeps s: what it sends is no other confirm.                          *)
LEMMA LatestUp ==
    ASSUME NInv, NInv', Moves, InTurn, NEW s \in Session, NEW t \in Session \ {s},
           initiator[t] = initiator[s], responder[t] = responder[s],
           link[initiator[s]] = "up", link'[initiator[s]] = "up",
           Holds(initiator[s], s)',
           In(Confirm(t), up[initiator[s]]) =>
               /\ In(Confirm(s), up[initiator[s]])
               /\ Before(Confirm(t), Confirm(s), up[initiator[s]]),
           In(Confirm(t), up'[initiator[s]])
    PROVE  /\ In(Confirm(s), up'[initiator[s]])
           /\ Before(Confirm(t), Confirm(s), up'[initiator[s]])
  <1> DEFINE i == initiator[s]
             c == Confirm(s)
             d == Confirm(t)
  <1>1. /\ i \in User /\ responder[s] \in User
        /\ Other(s, i) = responder[s] /\ Other(t, i) = responder[s]
    BY Peers
  <1>2. up[i] \in Seq(UpFrames) /\ up'[i] \in Seq(UpFrames)
    BY <1>1, Wires DEF NInv, TypeOK, UpFrames
  <1>3. c # d /\ d.kind = "confirm" /\ d.session = t
    BY ConfirmFacts
  <1> HIDE DEF c, d
  <1>4. CASE Piece(up'[i], up[i])
    <2>1. Turn(up'[i], up[i])
      BY <1>1, <1>4 DEF InTurn
    <2>2. In(d, up[i])
      BY <1>2, <1>4, PieceFacts DEF d
    <2> QED BY <1>2, <1>3, <2>1, <2>2, TurnFacts DEF c, d
  <1>5. CASE ~Piece(up'[i], up[i])
    <2>1. PICK f \in UpFrames :
              /\ up'[i] = Append(up[i], f)
              /\ f.kind = "confirm" => table'[i][Other(f.session, i)] = f.session
      BY <1>1, <1>5 DEF Moves, UpMoves
    <2>2. f # d
      <3>1. table'[i][responder[s]] = s
        BY <1>1 DEF Holds
      <3> QED BY <1>1, <1>3, <2>1, <3>1
    <2>3. In(d, up[i])
      BY <1>2, <2>1, <2>2, AppendFacts DEF d
    <2>4. In(c, up[i]) /\ Before(d, c, up[i])
      BY <2>3 DEF c, d
    <2> QED BY <1>2, <2>1, <2>2, <2>4, AppendFacts, BeforeFacts DEF c, d
  <1> QED BY <1>4, <1>5

(* The responder's wire takes them over in the same order.                 *)
LEMMA LatestDown ==
    ASSUME NInv, NInv', Moves, Kept, InTurn, NEW s \in Session, NEW t \in Session \ {s},
           initiator[t] = initiator[s], responder[t] = responder[s],
           link[initiator[s]] = "up", link'[initiator[s]] = "up",
           link[responder[s]] = "up", link'[responder[s]] = "up",
           In(Confirm(t), up[initiator[s]]) => In(Confirm(s), up[initiator[s]]),
           In(Confirm(t), down[responder[s]]) =>
               \/ Coming(s)
               \/ /\ In(Confirm(s), down[responder[s]])
                  /\ Before(Confirm(t), Confirm(s), down[responder[s]]),
           In(Confirm(t), down'[responder[s]]),
           ~Coming(s)'
    PROVE  /\ In(Confirm(s), down'[responder[s]])
           /\ Before(Confirm(t), Confirm(s), down'[responder[s]])
  <1> DEFINE i == initiator[s]
             r == responder[s]
             c == Confirm(s)
             d == Confirm(t)
  <1>1. i \in User /\ r \in User
    BY Peers
  <1>2. down[r] \in Seq(DownFrames) /\ down'[r] \in Seq(DownFrames)
    BY <1>1, Wires DEF NInv, TypeOK, DownFrames
  <1>3. c # d /\ Sender(d) = i
    BY ConfirmFacts
  <1>4. ~(In(c, up[i]) /\ In(c, down[r]))
    BY HopCases DEF NInv, OneMessage, Confirm
  <1>5. s \notin unconfirmed
    BY DEF Coming, Moves, HistoryMoves
  <1>6. Coming(s) <=> In(c, up[i])
    BY <1>5 DEF Coming
  <1>7. Coming(s) => In(c, down'[r])
    BY ConfirmGoes DEF NInv, Moves
  <1> HIDE DEF c, d
  <1>8. CASE Piece(down'[r], down[r])
    <2>1. Turn(down'[r], down[r])
      BY <1>1, <1>8 DEF InTurn
    <2>2. In(d, down[r])
      BY <1>2, <1>8, PieceFacts DEF d
    <2>3. In(c, down[r]) /\ Before(d, c, down[r])
      <3>1. ~Coming(s)
        BY <1>2, <1>4, <1>6, <1>7, <1>8, PieceFacts
      <3> QED BY <2>2, <3>1 DEF c, d
    <2> QED BY <1>2, <1>3, <2>1, <2>2, <2>3, TurnFacts DEF c, d
  <1>9. CASE ~Piece(down'[r], down[r])
    <2>1. PICK f \in DownFrames :
              /\ down'[r] = Append(down[r], f)
              /\ f.kind \in Steps => In(f, up[Sender(f)])
      BY <1>1, <1>9 DEF Moves, DownMoves, Steps
    <2>2. \A g : In(g, down'[r]) <=> In(g, down[r]) \/ g = f
      BY <1>2, <2>1, AppendFacts
    <2>3. f # d
      <3>1. f = d => In(d, up[i])
        BY <1>3, <2>1, ConfirmFacts DEF d, Steps
      <3>2. In(d, up[i]) => In(c, up[i])
        BY DEF c, d
      <3> QED BY <1>3, <1>4, <1>6, <1>7, <2>2, <3>1, <3>2
    <2>4. In(d, down[r])
      BY <2>2, <2>3 DEF d
    <2>5. CASE In(c, up[i])
      <3>1. In(c, down'[r]) /\ ~In(c, down[r])
        BY <1>4, <1>6, <1>7, <2>5
      <3> QED BY <1>2, <2>1, <2>3, <3>1, BeforeFacts DEF c, d
    <2>6. CASE ~In(c, up[i])
      <3>1. In(c, down[r]) /\ Before(d, c, down[r])
        BY <1>6, <2>4, <2>6 DEF c, d
      <3> QED BY <1>2, <2>1, <2>2, <2>3, <3>1, BeforeFacts DEF c, d
    <2> QED BY <2>5, <2>6
  <1> QED BY <1>8, <1>9

(* And the responder stores them in that order.                            *)
LEMMA LatestHeld ==
    ASSUME NInv, NInv', Moves, Kept, NEW s \in Session, NEW t \in Session \ {s},
           initiator[t] = initiator[s], responder[t] = responder[s],
           link[initiator[s]] = "up", link'[initiator[s]] = "up",
           link[responder[s]] = "up", link'[responder[s]] = "up",
           In(Confirm(t), down[responder[s]]) => Coming(s) \/ In(Confirm(s), down[responder[s]]),
           Holds(responder[s], t) => Coming(s) \/ In(Confirm(s), down[responder[s]]),
           Holds(responder[s], t)'
    PROVE  Coming(s)' \/ In(Confirm(s), down'[responder[s]])
  <1> DEFINE i == initiator[s]
             r == responder[s]
  <1>1. /\ i \in User /\ r \in User /\ i # r
        /\ Other(t, r) = i /\ Other(s, r) = i
    BY Peers
  <1>2. table'[r][i] = t
    BY <1>1 DEF Holds
  <1>3. Coming(s) \/ In(Confirm(s), down[r])
    <2>1. CASE table'[r][i] = table[r][i]
      BY <1>1, <1>2, <2>1 DEF Holds
    <2>2. CASE Stored(r, i)
      <3> DEFINE h == Head(down[r])
      <3>1. h \in DownFrames /\ In(h, down[r]) /\ h.session = t /\ r = Recipient(h)
        BY <1>1, <1>2, <2>2, StoredFacts DEF NInv, Static
      <3>2. h.kind \in {"response", "confirm"}
        BY <2>2, FrameIs DEF Stored
      <3>3. h = Confirm(t)
        BY <1>1, <3>1, <3>2, FrameIs, Peers DEF Recipient, Sender, Confirm
      <3> QED BY <3>1, <3>3
    <2> QED BY <1>1, <1>2, <2>1, <2>2, Peers DEF Moves, TableMoves
  <1>4. CASE Coming(s)
    BY <1>4, ConfirmGoes DEF NInv, Moves
  <1>5. CASE In(Confirm(s), down[r])
    BY <1>1, <1>2, <1>5 DEF Kept, DownKept, Confirm, Coming
  <1> QED BY <1>3, <1>4, <1>5

LEMMA LatestMove ==
    ASSUME NInv, NInv', Moves, Kept, InTurn, Renewed, Latest PROVE Latest'
  <1> SUFFICES ASSUME NEW s \in Session, NEW t \in Session \ {s},
                      initiator[t] = initiator[s], responder[t] = responder[s],
                      Holds(initiator[s], s)', link'[initiator[s]] = "up"
               PROVE  /\ In(Confirm(t), up'[initiator[s]]) =>
                             /\ In(Confirm(s), up'[initiator[s]])
                             /\ Before(Confirm(t), Confirm(s), up'[initiator[s]])
                      /\ In(Confirm(t), down'[responder[s]]) =>
                             \/ Coming(s)'
                             \/ /\ In(Confirm(s), down'[responder[s]])
                                /\ Before(Confirm(t), Confirm(s), down'[responder[s]])
                      /\ Holds(responder[s], t)' =>
                             Coming(s)' \/ In(Confirm(s), down'[responder[s]])
    BY DEF Latest
  <1> DEFINE i == initiator[s]
             r == responder[s]
  <1>1. /\ i \in User /\ r \in User
        /\ Other(s, i) = r /\ Other(s, r) = i /\ Other(t, r) = i
    BY Peers
  <1>2. table'[i][r] = s /\ s # NoSession
    BY <1>1, Peers DEF Holds
  <1>3. link[i] = "up"
    BY <1>1, <1>2 DEF Renewed
  <1>4. CASE Stored(i, r)
    BY <1>2, <1>3, <1>4, LatestStored DEF Coming
  <1>5. CASE table[i][r] = s
    <2>1. /\ In(Confirm(t), up[i]) =>
                 In(Confirm(s), up[i]) /\ Before(Confirm(t), Confirm(s), up[i])
          /\ In(Confirm(t), down[r]) =>
                 \/ Coming(s)
                 \/ In(Confirm(s), down[r]) /\ Before(Confirm(t), Confirm(s), down[r])
          /\ Holds(r, t) => Coming(s) \/ In(Confirm(s), down[r])
      BY <1>1, <1>3, <1>5 DEF Latest, Holds
    <2>2. CASE link'[r] # "up"
      BY <1>3, <2>1, <2>2, LatestUp DEF Coming
    <2>3. CASE link'[r] = "up" /\ link[r] # "up"
      <3>1. ~In(Confirm(t), down'[r])
        BY <1>1, <2>3 DEF Renewed, In
      <3>2. ~Holds(r, t)'
        BY <1>1, <2>3, Peers DEF Renewed, Holds
      <3> QED BY <1>3, <2>1, <3>1, <3>2, LatestUp
    <2>4. CASE link'[r] = "up" /\ link[r] = "up"
      BY <1>3, <2>1, <2>4, LatestUp, LatestDown, LatestHeld
    <2> QED BY <2>2, <2>3, <2>4
  <1> QED BY <1>1, <1>2, <1>4, <1>5 DEF Moves, TableMoves

LEMMA LatestInvariance == Spec => []Latest
  <1>1. Init => Latest
    BY Peers DEF Init, Latest, Holds
  <1>2. NInv /\ NInv' /\ Inv /\ Latest /\ [Next]_vars => Latest'
    BY StepMoves, StepTurns, LatestMove DEF NInv, Inv
  <1> QED BY <1>1, <1>2, NInvInvariance, Invariance, PTL DEF Spec

(* Unless both have asked, both hold the same session, or its confirm is   *)
(* still to come or did not establish it (handshake.py:8).                 *)
THEOREM OneSessionTheorem == Spec => []OneSessionUnlessCrossed
  <1>1. Latest => OneSessionUnlessCrossed
    BY DEF Latest, OneSessionUnlessCrossed, Coming, Confirm
  <1> QED BY <1>1, LatestInvariance, PTL
=============================================================================
