--------------------------- MODULE RequestsProofs ---------------------------
(* The proofs of the safety properties of Requests.                        *)
EXTENDS Requests, TLAPS

(* How In and Once follow the operators on sequences the actions use.      *)

LEMMA AppendIn ==
    ASSUME NEW S, NEW s \in Seq(S), NEW x \in S, NEW f
    PROVE  /\ Append(s, x) \in Seq(S)
           /\ In(f, Append(s, x)) <=> In(f, s) \/ x = f
           /\ Once(f, s) /\ (x # f \/ ~In(f, s)) => Once(f, Append(s, x))
  <1> DEFINE a == Append(s, x)
  <1>1. /\ a \in Seq(S) /\ Len(a) = Len(s) + 1 /\ Len(s) \in Nat
        /\ a[Len(s) + 1] = x
        /\ \A i \in 1..Len(s) : a[i] = s[i]
    OBVIOUS
  <1> HIDE DEF a
  <1>2. In(f, a) <=> In(f, s) \/ x = f
    <2>1. ASSUME NEW i \in 1..Len(a), a[i] = f PROVE In(f, s) \/ x = f
      <3>1. i \in 1..Len(s) \/ i = Len(s) + 1 BY <1>1
      <3> QED BY <1>1, <2>1, <3>1 DEF In
    <2>2. ASSUME NEW i \in 1..Len(s), s[i] = f PROVE In(f, a)
      <3>1. i \in 1..Len(a) /\ a[i] = f BY <1>1, <2>2
      <3> QED BY <3>1 DEF In
    <2>3. x = f => In(f, a)
      <3>1. Len(a) \in 1..Len(a) BY <1>1
      <3> QED BY <1>1, <3>1 DEF In
    <2> QED BY <2>1, <2>2, <2>3 DEF In
  <1>3. ASSUME Once(f, s), x # f \/ ~In(f, s) PROVE Once(f, a)
    <2> SUFFICES ASSUME NEW i \in 1..Len(a), NEW j \in 1..Len(a), a[i] = f, a[j] = f
                 PROVE  i = j
      BY DEF Once
    <2>1. i \in 1..Len(s) \/ i = Len(s) + 1 BY <1>1
    <2>2. j \in 1..Len(s) \/ j = Len(s) + 1 BY <1>1
    <2> QED BY <1>1, <1>3, <2>1, <2>2 DEF Once, In
  <1> QED BY <1>1, <1>2, <1>3 DEF a

LEMMA TailIn ==
    ASSUME NEW S, NEW s \in Seq(S), s # <<>>, NEW f
    PROVE  /\ Head(s) \in S /\ Tail(s) \in Seq(S)
           /\ In(f, Tail(s)) => In(f, s)
           /\ In(f, s) => Head(s) = f \/ In(f, Tail(s))
           /\ In(Head(s), s)
           /\ Once(f, s) => Once(f, Tail(s)) /\ (Head(s) = f => ~In(f, Tail(s)))
  <1> DEFINE a == Tail(s)
  <1>1. /\ a \in Seq(S) /\ Len(s) \in Nat /\ Len(s) > 0 /\ Len(a) = Len(s) - 1
        /\ Head(s) = s[1] /\ Head(s) \in S
        /\ \A i \in 1..Len(a) : a[i] = s[i + 1]
    OBVIOUS
  <1> HIDE DEF a
  <1>2. \A i \in 1..Len(a) : i + 1 \in 1..Len(s)
    BY <1>1
  <1>3. In(f, a) => In(f, s)
    BY <1>1, <1>2 DEF In
  <1>4. ASSUME NEW i \in 1..Len(s), s[i] = f PROVE Head(s) = f \/ In(f, a)
    <2>1. CASE i = 1 BY <1>1, <1>4, <2>1
    <2>2. CASE i # 1
      <3>1. i - 1 \in 1..Len(a) /\ a[i - 1] = s[i] BY <1>1, <2>2
      <3> QED BY <1>4, <3>1 DEF In
    <2> QED BY <2>1, <2>2
  <1>5. In(Head(s), s)
    <2>1. 1 \in 1..Len(s) BY <1>1
    <2> QED BY <1>1, <2>1 DEF In
  <1>6. ASSUME Once(f, s) PROVE Once(f, a) /\ (Head(s) = f => ~In(f, a))
    <2>1. 1 \in 1..Len(s) BY <1>1
    <2>2. ASSUME NEW i \in 1..Len(a), NEW j \in 1..Len(a), a[i] = f, a[j] = f
          PROVE  i = j
      <3>1. i + 1 = j + 1 BY <1>1, <1>2, <1>6, <2>2 DEF Once
      <3> QED BY <3>1
    <2>3. ASSUME Head(s) = f, NEW i \in 1..Len(a), a[i] = f PROVE FALSE
      <3>1. i + 1 = 1 BY <1>1, <1>2, <1>6, <2>1, <2>3 DEF Once
      <3> QED BY <3>1
    <2> QED BY <2>2, <2>3 DEF Once, In
  <1> QED BY <1>1, <1>3, <1>4, <1>5, <1>6 DEF a, In

LEMMA PrefixIn ==
    ASSUME NEW S, NEW s \in Seq(S), NEW n \in 0..Len(s), NEW f
    PROVE  /\ SubSeq(s, 1, n) \in Seq(S)
           /\ In(f, SubSeq(s, 1, n)) => In(f, s)
           /\ Once(f, s) => Once(f, SubSeq(s, 1, n))
  <1> DEFINE a == SubSeq(s, 1, n)
  <1>1. /\ a \in Seq(S) /\ Len(s) \in Nat /\ Len(a) = n
        /\ \A i \in 1..n : a[i] = s[i] /\ i \in 1..Len(s)
    OBVIOUS
  <1> HIDE DEF a
  <1>2. In(f, a) => In(f, s) BY <1>1 DEF In
  <1>3. Once(f, s) => Once(f, a) BY <1>1 DEF Once
  <1> QED BY <1>1, <1>2, <1>3 DEF a

LEMMA EmptyIn ==
    ASSUME NEW S, NEW f
    PROVE  <<>> \in Seq(S) /\ ~In(f, <<>>) /\ Once(f, <<>>)
  BY DEF In, Once

(* The same for one user's wire w[u] among all.                             *)
LEMMA AppendAt ==
    ASSUME NEW S, NEW w \in [User -> Seq(S)], NEW u \in User, NEW x \in S,
           NEW v, v = [w EXCEPT ![u] = Append(@, x)], NEW t \in User, NEW f
    PROVE  /\ v \in [User -> Seq(S)]
           /\ In(f, v[t]) <=> In(f, w[t]) \/ (t = u /\ x = f)
           /\ Once(f, w[t]) /\ (t # u \/ x # f \/ ~In(f, w[t])) => Once(f, v[t])
  <1>1. w[u] \in Seq(S) OBVIOUS
  <1>2. Append(w[u], x) \in Seq(S) BY <1>1, AppendIn
  <1>3. v \in [User -> Seq(S)] BY <1>2
  <1>4. CASE t = u
    <2>1. v[t] = Append(w[t], x) BY <1>4
    <2>2. w[t] \in Seq(S) OBVIOUS
    <2>3. /\ In(f, Append(w[t], x)) <=> In(f, w[t]) \/ x = f
          /\ Once(f, w[t]) /\ (x # f \/ ~In(f, w[t])) => Once(f, Append(w[t], x))
      BY <2>2, AppendIn
    <2> QED BY <1>3, <1>4, <2>1, <2>3
  <1>5. CASE t # u
    <2>1. v[t] = w[t] BY <1>5
    <2> QED BY <1>3, <1>5, <2>1
  <1> QED BY <1>4, <1>5

LEMMA TailAt ==
    ASSUME NEW S, NEW w \in [User -> Seq(S)], NEW u \in User, w[u] # <<>>,
           NEW v, v = [w EXCEPT ![u] = Tail(@)], NEW t \in User, NEW f
    PROVE  /\ v \in [User -> Seq(S)]
           /\ Head(w[u]) \in S
           /\ In(f, v[t]) => In(f, w[t])
           /\ In(f, w[t]) => In(f, v[t]) \/ (t = u /\ f = Head(w[u]))
           /\ In(Head(w[u]), w[u])
           /\ Once(f, w[t]) => Once(f, v[t])
           /\ Once(f, w[u]) /\ f = Head(w[u]) => ~In(f, v[u])
  <1>1. w[u] \in Seq(S) OBVIOUS
  <1>2. /\ Head(w[u]) \in S /\ Tail(w[u]) \in Seq(S)
        /\ In(f, Tail(w[u])) => In(f, w[u])
        /\ In(f, w[u]) => Head(w[u]) = f \/ In(f, Tail(w[u]))
        /\ In(Head(w[u]), w[u])
        /\ Once(f, w[u]) => Once(f, Tail(w[u])) /\ (Head(w[u]) = f => ~In(f, Tail(w[u])))
    BY <1>1, TailIn
  <1>3. v \in [User -> Seq(S)] /\ v[u] = Tail(w[u]) BY <1>2
  <1>4. t # u => v[t] = w[t] OBVIOUS
  <1> QED BY <1>2, <1>3, <1>4

LEMMA PrefixAt ==
    ASSUME NEW S, NEW w \in [User -> Seq(S)], NEW u \in User, NEW n \in 0..Len(w[u]),
           NEW v, v = [w EXCEPT ![u] = SubSeq(@, 1, n)], NEW t \in User, NEW f
    PROVE  /\ v \in [User -> Seq(S)]
           /\ In(f, v[t]) => In(f, w[t])
           /\ t # u => v[t] = w[t]
           /\ Once(f, w[t]) => Once(f, v[t])
  <1>1. w[u] \in Seq(S) OBVIOUS
  <1>2. /\ SubSeq(w[u], 1, n) \in Seq(S)
        /\ In(f, SubSeq(w[u], 1, n)) => In(f, w[u])
        /\ Once(f, w[u]) => Once(f, SubSeq(w[u], 1, n))
    BY <1>1, PrefixIn
  <1>3. v \in [User -> Seq(S)] /\ v[u] = SubSeq(w[u], 1, n) BY <1>2
  <1>4. t # u => v[t] = w[t] OBVIOUS
  <1> QED BY <1>2, <1>3, <1>4

(* Frames of different kinds or about different users differ.              *)
LEMMA FramesDiffer ==
    ASSUME NEW r, NEW q
    PROVE  /\ Request(r) = Request(q) <=> r = q
           /\ Answer(r) = Answer(q) <=> r = q
           /\ Request(r) # Answer(q)
           /\ Request(r).kind = "request" /\ Request(r).peer = r
           /\ Answer(r).kind = "answer" /\ Answer(r).peer = r
  BY DEF Request, Answer

LEMMA FrameTypes ==
    /\ \A r \in User : Request(r) \in Sendable /\ Request(r) \in Frames
    /\ \A r \in User : Answer(r) \in Sendable /\ Answer(r) \in Frames
    /\ \A f \in Sendable : f.peer \in User /\ Failed(f) \in Frames
    /\ \A f \in Frames : f.peer \in User
    /\ \A f \in Frames : f.kind = "request" => f = Request(f.peer)
    /\ \A f \in Sendable : f.kind # "request" => f = Answer(f.peer)
    /\ \A f \in Sendable : f.kind = "request" => f = Request(f.peer)
    /\ \A f, r : Failed(f) # Request(r)
    /\ \A f \in Sendable : \A g : Failed(f) # Answer(g)
  BY DEF Request, Answer, Sendable, Frames, Failed
-----------------------------------------------------------------------------
(* What the two invariants say of one pair.                                *)
Good(r, t) ==
    /\ r \in pending[t] /\ link[t] = "up" => Traced(r, t) \/ <<r, t>> \in slipped
    /\ <<r, t>> \notin lapsed \cup repeated =>
        /\ Traced(r, t) => r \in pending[t]
        /\ r \in incoming[t] => ~In(Request(r), down[t])
        /\ Answered(r, t) => r \notin incoming[t] /\ ~In(Request(r), down[t])
        /\ r \in answering[t] => ~In(Answer(r), up[t])
        /\ Once(Request(r), down[t]) /\ Once(Answer(r), up[t])

Inv == TypeOK /\ Shells /\ \A r, t \in User : Good(r, t)

LEMMA InvInit == Init => Inv
  <1> SUFFICES ASSUME Init PROVE Inv
    OBVIOUS
  <1>1. TypeOK
    BY EmptyIn DEF Init, TypeOK, Pairs
  <1>2. ASSUME NEW r \in User, NEW t \in User PROVE Good(r, t)
    <2>1. pending[t] = {} /\ incoming[t] = {} /\ answering[t] = {}
      BY DEF Init
    <2>2. up[t] = <<>> /\ down[t] = <<>>
      BY DEF Init
    <2>3. ~In(Request(r), down[t]) /\ ~In(Answer(r), up[t])
      BY <2>2, EmptyIn
    <2>4. Once(Request(r), down[t]) /\ Once(Answer(r), up[t])
      BY <2>2, EmptyIn
    <2> QED BY <2>1, <2>3, <2>4 DEF Good, Traced, Answered
  <1>3. Shells
    BY DEF Init, Shells
  <1> QED BY <1>1, <1>2, <1>3 DEF Inv

(* What removing or adding a matter, or a pair, leaves well typed.          *)
LEMMA SendAnswerType ==
    ASSUME TypeOK, NEW t \in User, NEW r \in User, SendAnswer(t, r) PROVE TypeOK'
  <1>1. CASE Connected(t)
    <2>1. up' \in [User -> Seq(Sendable)]
      BY <1>1, AppendAt, FrameTypes DEF TypeOK, SendAnswer
    <2>2. open' \in SUBSET Matters
      BY <1>1 DEF TypeOK, SendAnswer, Matters
    <2> QED BY <1>1, <2>1, <2>2 DEF TypeOK, SendAnswer, relay, told
  <1>2. CASE ~Connected(t)
    BY <1>2 DEF TypeOK, SendAnswer, relay, told
  <1> QED BY <1>1, <1>2

LEMMA ReceiveType ==
    ASSUME TypeOK, NEW u \in User, Receive(u) PROVE TypeOK'
  <1> DEFINE f == Head(down[u])
  <1>1. down' \in [User -> Seq(Frames)] /\ f \in Frames
    BY TailAt DEF TypeOK, Receive
  <1>2. f.peer \in User
    BY <1>1, FrameTypes
  <1>3. incoming' \in [User -> SUBSET User] /\ slipped' \in SUBSET Pairs
    <2>1. PushIncoming(u, f.peer) \in [User -> SUBSET User]
      BY <1>2 DEF TypeOK, PushIncoming
    <2>2. slipped \cup {<<f.peer, u>>} \in SUBSET Pairs
      BY <1>2 DEF TypeOK, Pairs
    <2> HIDE DEF f
    <2>3. \/ incoming' = incoming /\ slipped' = slipped
          \/ incoming' = PushIncoming(u, f.peer) /\ slipped' = slipped
          \/ slipped' = slipped \cup {<<f.peer, u>>} /\ incoming' = incoming
      BY DEF Receive, f
    <2> QED BY <2>1, <2>2, <2>3 DEF TypeOK
  <1>4. open' \in SUBSET Matters
    BY DEF TypeOK, Receive
  <1> QED BY <1>1, <1>3, <1>4 DEF TypeOK, Receive, relay

LEMMA BreakType ==
    ASSUME TypeOK, NEW u \in User, NEW i \in 0..Len(up[u]), NEW j \in 0..Len(down[u]),
           Break(u, i, j)
    PROVE  /\ up' \in [User -> Seq(Sendable)]
           /\ down' \in [User -> Seq(Frames)]
           /\ open' \in SUBSET Matters
  <1>1. up' \in [User -> Seq(Sendable)]
    BY PrefixAt DEF TypeOK, Break
  <1>2. down' \in [User -> Seq(Frames)]
    BY PrefixAt DEF TypeOK, Break
  <1> QED BY <1>1, <1>2 DEF TypeOK, Break

LEMMA ReadType ==
    ASSUME TypeOK, NEW u \in User, NEW f, Read(u, f)
    PROVE  f \in Sendable /\ up' \in [User -> Seq(Sendable)]
  BY TailAt DEF TypeOK, Read

LEMMA RefuseType ==
    ASSUME TypeOK, NEW u \in User, NEW f \in Frames, NEW rest \in SUBSET User,
           Refuse(u, f, rest)
    PROVE  active' \in SUBSET User /\ down' \in [User -> Seq(Frames)] /\ open' = open
  <1>1. CASE link[u] = "up"
    BY <1>1, AppendAt DEF TypeOK, Refuse
  <1>2. CASE link[u] # "up"
    BY <1>2 DEF TypeOK, Refuse
  <1> QED BY <1>1, <1>2

LEMMA DeliverType ==
    ASSUME TypeOK, NEW u \in User, NEW f \in Frames, Deliver(u, f)
    PROVE  /\ active' = active
           /\ down' \in [User -> Seq(Frames)]
           /\ open' \in SUBSET Matters
  <1>1. CASE link[u] = "up"
    BY <1>1, AppendAt DEF TypeOK, Deliver
  <1>2. CASE link[u] # "up"
    BY <1>2 DEF TypeOK, Deliver
  <1> QED BY <1>1, <1>2

LEMMA HandleRequestType ==
    ASSUME TypeOK, NEW r \in User, NEW t \in User, HandleRequest(r, t) PROVE TypeOK'
  <1>1. up' \in [User -> Seq(Sendable)]
    BY ReadType DEF HandleRequest
  <1>2. Request(r) \in Frames /\ Failed(Request(t)) \in Frames
    BY FrameTypes
  <1>3. pending' \in [User -> SUBSET User]
    <2>1. AddRequest(r, t) \in [User -> SUBSET User]
      BY DEF AddRequest, TypeOK
    <2>2. PopPending(r, t) \in [User -> SUBSET User]
      BY DEF PopPending, TypeOK
    <2> QED BY <2>1, <2>2 DEF HandleRequest
  <1>4. lapsed' \in SUBSET Pairs /\ repeated' \in SUBSET Pairs /\ slipped' \in SUBSET Pairs
    BY DEF HandleRequest, TypeOK, Pairs
  <1>5. /\ active' \in SUBSET User
        /\ down' \in [User -> Seq(Frames)]
        /\ open' \in SUBSET Matters
    <2>1. CASE Deliver(t, Request(r))
      BY <1>2, <2>1, DeliverType DEF TypeOK
    <2>2. CASE Refuse(r, Failed(Request(t)), active \ {t})
      <3>1. active \ {t} \in SUBSET User BY DEF TypeOK
      <3> QED BY <1>2, <2>2, <3>1, RefuseType DEF TypeOK
    <2> QED BY <2>1, <2>2 DEF HandleRequest
  <1> QED BY <1>1, <1>3, <1>4, <1>5 DEF HandleRequest, TypeOK, client

LEMMA HandleAnswerType ==
    ASSUME TypeOK, NEW t \in User, NEW r \in User, HandleAnswer(t, r) PROVE TypeOK'
  <1>1. up' \in [User -> Seq(Sendable)]
    BY ReadType DEF HandleAnswer
  <1>2. Answer(t) \in Frames /\ Failed(Answer(r)) \in Frames
    BY FrameTypes
  <1>3. pending' \in [User -> SUBSET User]
    <2>1. PopPending(r, t) \in [User -> SUBSET User]
      BY DEF PopPending, TypeOK
    <2> QED BY <2>1 DEF HandleAnswer, NoPending, PopAnswered, TypeOK
  <1>4. /\ active' \in SUBSET User
        /\ down' \in [User -> Seq(Frames)]
        /\ open' \in SUBSET Matters
    <2>1. CASE Deliver(r, Answer(t))
      BY <1>2, <2>1, DeliverType DEF TypeOK
    <2>2. CASE \E rest \in SUBSET User : Refuse(t, Failed(Answer(r)), rest)
      BY <1>2, <2>2, RefuseType DEF TypeOK
    <2>3. active \in SUBSET User /\ active \ {r} \in SUBSET User
      BY DEF TypeOK
    <2> QED BY <2>1, <2>2, <2>3 DEF HandleAnswer, NoPending
  <1> QED BY <1>1, <1>3, <1>4 DEF HandleAnswer, TypeOK, client, told

LEMMA LimitedType ==
    ASSUME TypeOK, NEW u \in User, Limited(u) PROVE TypeOK'
  <1> DEFINE f == Head(up[u])
  <1>1. f \in Sendable /\ up' \in [User -> Seq(Sendable)]
    BY ReadType DEF Limited
  <1>2. Failed(f) \in Frames /\ f.peer \in User
    BY <1>1, FrameTypes
  <1>3. active \in SUBSET User
    BY DEF TypeOK
  <1>4. active' \in SUBSET User /\ down' \in [User -> Seq(Frames)] /\ open' = open
    <2>1. Refuse(u, Failed(f), active) BY DEF Limited
    <2> HIDE DEF f
    <2> QED BY <1>2, <1>3, <2>1, RefuseType
  <1>5. slipped' \in SUBSET Pairs
    BY <1>2 DEF Limited, TypeOK, Pairs
  <1>6. faults' \in Nat
    BY DEF Limited, Fault, TypeOK
  <1> QED BY <1>1, <1>4, <1>5, <1>6 DEF Limited, TypeOK, client

LEMMA EnterType ==
    ASSUME TypeOK, NEW u \in User, NEW shown, Enter(u, shown),
           proc' \in [User -> {"off", "deaf", "on"}]
    PROVE  TypeOK'
  <1>1. up' \in [User -> Seq(Sendable)]
    BY EmptyIn DEF Enter, TypeOK
  <1>2. slipped' \in SUBSET Pairs
    BY DEF Enter, TypeOK, Pairs
  <1> QED BY <1>1, <1>2 DEF Enter, TypeOK

LEMMA TypeStep ==
    ASSUME TypeOK, [Next]_vars PROVE TypeOK'
  <1>1. CASE UNCHANGED vars
    BY <1>1 DEF TypeOK, vars, client, relay, wires, history, told
  <1>2. ASSUME NEW r \in User, NEW t \in User, Connect(r, t) PROVE TypeOK'
    <2>1. up' \in [User -> Seq(Sendable)]
      BY <1>2, AppendAt, FrameTypes DEF TypeOK, Connect
    <2>2. asks' \in [Pairs -> Nat]
      BY <1>2 DEF TypeOK, Connect, Pairs
    <2>3. open' \in SUBSET Matters
      BY <1>2 DEF TypeOK, Connect, Matters
    <2> QED BY <1>2, <2>1, <2>2, <2>3 DEF TypeOK, Connect, client, relay, told
  <1>3. ASSUME NEW t \in User, NEW r \in User, PopIncoming(t, r) PROVE TypeOK'
    BY <1>3 DEF TypeOK, PopIncoming, relay, wires, history, told
  <1>4. ASSUME NEW t \in User, NEW r \in User, SendAnswer(t, r) PROVE TypeOK'
    BY <1>4, SendAnswerType
  <1>5. ASSUME NEW u \in User, Receive(u) PROVE TypeOK'
    BY <1>5, ReceiveType
  <1>6. ASSUME NEW u \in User, Notice(u) PROVE TypeOK'
    BY <1>6 DEF TypeOK, Notice, relay, wires, history, told
  <1>7. ASSUME NEW u \in User, Reconnect(u) PROVE TypeOK'
    BY <1>7, EnterType DEF Reconnect, TypeOK
  <1>8. ASSUME NEW u \in User, Login(u) PROVE TypeOK'
    <2>1. proc' \in [User -> {"off", "deaf", "on"}]
      BY <1>8 DEF Login, TypeOK
    <2> QED BY <1>8, <2>1, EnterType DEF Login
  <1>9. ASSUME NEW u \in User, Install(u) PROVE TypeOK'
    BY <1>9 DEF TypeOK, Install, relay, wires, history, told
  <1>10. ASSUME NEW u \in User, NEW i \in 0..Len(up[u]), Exit(u, i) PROVE TypeOK'
    <2>1. 0 \in 0..Len(down[u])
      BY DEF TypeOK
    <2>2. /\ up' \in [User -> Seq(Sendable)]
          /\ down' \in [User -> Seq(Frames)]
          /\ open' \in SUBSET Matters
      BY <1>10, <2>1, BreakType DEF Exit
    <2>3. faults' \in Nat
      BY <1>10 DEF TypeOK, Exit, Fault
    <2>4. /\ proc' \in [User -> {"off", "deaf", "on"}]
          /\ link' \in [User -> {"up", "cut", "broken", "down"}]
      BY <1>10 DEF TypeOK, Exit
    <2>5. incoming' \in [User -> SUBSET User] /\ answering' \in [User -> SUBSET User]
      BY <1>10 DEF TypeOK, Exit
    <2> QED BY <1>10, <2>2, <2>3, <2>4, <2>5 DEF TypeOK, Exit, relay, told
  <1>11. ASSUME NEW r \in User, NEW t \in User, HandleRequest(r, t) PROVE TypeOK'
    BY <1>11, HandleRequestType
  <1>12. ASSUME NEW t \in User, NEW r \in User, HandleAnswer(t, r) PROVE TypeOK'
    BY <1>12, HandleAnswerType
  <1>13. ASSUME NEW u \in User, Cleanup(u) PROVE TypeOK'
    <2>1. lapsed' \in SUBSET Pairs
      BY <1>13 DEF TypeOK, Cleanup, Held
    <2> QED BY <1>13, <2>1 DEF TypeOK, Cleanup, ClearForUser, client, wires
  <1>14. ASSUME NEW u \in User, NEW i \in 0..Len(up[u]), NEW j \in 0..Len(down[u]),
                Lose(u, i, j)
         PROVE  TypeOK'
    <2>1. /\ up' \in [User -> Seq(Sendable)]
          /\ down' \in [User -> Seq(Frames)]
          /\ open' \in SUBSET Matters
      BY <1>14, BreakType DEF Lose
    <2>2. faults' \in Nat
      BY <1>14 DEF TypeOK, Lose, Fault
    <2>3. link' \in [User -> {"up", "cut", "broken", "down"}]
      BY <1>14 DEF TypeOK, Lose
    <2> QED BY <1>14, <2>1, <2>2, <2>3 DEF TypeOK, Lose, relay, told
  <1>15. ASSUME NEW u \in User, Limited(u) PROVE TypeOK'
    BY <1>15, LimitedType
  <1>16. CASE Restart
    <2>1. up' \in [User -> Seq(Sendable)]
      BY <1>16, EmptyIn DEF Restart
    <2>2. lapsed' \in SUBSET Pairs
      BY <1>16 DEF TypeOK, Restart, Held
    <2>3. link' \in [User -> {"up", "cut", "broken", "down"}]
      BY <1>16 DEF TypeOK, Restart
    <2> QED BY <1>16, <2>1, <2>2, <2>3 DEF TypeOK, Restart, Fault
  <1>17. ASSUME NEW u \in User, Displace(u) PROVE TypeOK'
    BY <1>17 DEF TypeOK, Displace, Fault, wires, told
  <1> QED
    BY <1>1, <1>2, <1>3, <1>4, <1>5, <1>6, <1>7, <1>8, <1>9, <1>10, <1>11, <1>12,
       <1>13, <1>14, <1>15, <1>16, <1>17
    DEF Next, Shell, Loop, Process, Handle, Environment
-----------------------------------------------------------------------------
(* A pair stays good: what each action does to the traces of one request.   *)

LEMMA UpAppend ==
    ASSUME TypeOK, NEW u \in User, NEW x \in Sendable,
           up' = [up EXCEPT ![u] = Append(@, x)], NEW t \in User, NEW f
    PROVE  /\ In(f, up'[t]) <=> In(f, up[t]) \/ (t = u /\ x = f)
           /\ Once(f, up[t]) /\ (t # u \/ x # f \/ ~In(f, up[t])) => Once(f, up'[t])
  <1>1. up[u] \in Seq(Sendable)
    BY DEF TypeOK
  <1>2. CASE t = u
    <2>1. up'[t] = Append(up[t], x)
      BY <1>2 DEF TypeOK
    <2>2. /\ In(f, Append(up[u], x)) <=> In(f, up[u]) \/ x = f
          /\ Once(f, up[u]) /\ (x # f \/ ~In(f, up[u])) => Once(f, Append(up[u], x))
      BY <1>1, AppendIn
    <2> QED BY <1>2, <2>1, <2>2
  <1>3. CASE t # u
    <2>1. up'[t] = up[t]
      BY <1>3 DEF TypeOK
    <2> QED BY <1>3, <2>1
  <1> QED BY <1>2, <1>3

LEMMA DownAppend ==
    ASSUME TypeOK, NEW u \in User, NEW x \in Frames,
           down' = [down EXCEPT ![u] = Append(@, x)], NEW t \in User, NEW f
    PROVE  /\ In(f, down'[t]) <=> In(f, down[t]) \/ (t = u /\ x = f)
           /\ Once(f, down[t]) /\ (t # u \/ x # f \/ ~In(f, down[t])) => Once(f, down'[t])
  <1>1. down[u] \in Seq(Frames)
    BY DEF TypeOK
  <1>2. CASE t = u
    <2>1. down'[t] = Append(down[t], x)
      BY <1>2 DEF TypeOK
    <2>2. /\ In(f, Append(down[u], x)) <=> In(f, down[u]) \/ x = f
          /\ Once(f, down[u]) /\ (x # f \/ ~In(f, down[u])) => Once(f, Append(down[u], x))
      BY <1>1, AppendIn
    <2> QED BY <1>2, <2>1, <2>2
  <1>3. CASE t # u
    <2>1. down'[t] = down[t]
      BY <1>3 DEF TypeOK
    <2> QED BY <1>3, <2>1
  <1> QED BY <1>2, <1>3

LEMMA UpTail ==
    ASSUME TypeOK, NEW u \in User, NEW x, Read(u, x), NEW t \in User, NEW f
    PROVE  /\ In(x, up[u])
           /\ In(f, up'[t]) => In(f, up[t])
           /\ In(f, up[t]) => In(f, up'[t]) \/ (t = u /\ f = x)
           /\ Once(f, up[t]) => Once(f, up'[t])
           /\ Once(f, up[t]) /\ t = u /\ f = x => ~In(f, up'[t])
  <1>1. up[u] \in Seq(Sendable) /\ up[u] # <<>> /\ x = Head(up[u])
    BY DEF TypeOK, Read
  <1>2. /\ In(x, up[u])
        /\ In(f, Tail(up[u])) => In(f, up[u])
        /\ In(f, up[u]) => x = f \/ In(f, Tail(up[u]))
        /\ Once(f, up[u]) => Once(f, Tail(up[u])) /\ (x = f => ~In(f, Tail(up[u])))
    BY <1>1, TailIn
  <1>3. CASE t = u
    <2>1. up'[t] = Tail(up[t])
      BY <1>3 DEF TypeOK, Read
    <2> QED BY <1>2, <1>3, <2>1
  <1>4. CASE t # u
    <2>1. up'[t] = up[t]
      BY <1>4 DEF TypeOK, Read
    <2> QED BY <1>2, <1>4, <2>1
  <1> QED BY <1>3, <1>4

LEMMA DownTail ==
    ASSUME TypeOK, NEW u \in User, Receive(u), NEW t \in User, NEW f
    PROVE  /\ In(Head(down[u]), down[u])
           /\ In(f, down'[t]) => In(f, down[t])
           /\ In(f, down[t]) => In(f, down'[t]) \/ (t = u /\ f = Head(down[u]))
           /\ Once(f, down[t]) => Once(f, down'[t])
           /\ Once(f, down[t]) /\ t = u /\ f = Head(down[u]) => ~In(f, down'[t])
  <1> DEFINE x == Head(down[u])
  <1>1. down[u] \in Seq(Frames) /\ down[u] # <<>>
    BY DEF TypeOK, Receive
  <1>2. /\ In(x, down[u])
        /\ In(f, Tail(down[u])) => In(f, down[u])
        /\ In(f, down[u]) => x = f \/ In(f, Tail(down[u]))
        /\ Once(f, down[u]) => Once(f, Tail(down[u])) /\ (x = f => ~In(f, Tail(down[u])))
    BY <1>1, TailIn
  <1>3. CASE t = u
    <2>1. down'[t] = Tail(down[t])
      BY <1>3 DEF TypeOK, Receive
    <2> QED BY <1>2, <1>3, <2>1
  <1>4. CASE t # u
    <2>1. down'[t] = down[t]
      BY <1>4 DEF TypeOK, Receive
    <2> QED BY <1>2, <1>4, <2>1
  <1> QED BY <1>3, <1>4

LEMMA BreakTraces ==
    ASSUME TypeOK, NEW u \in User, NEW i \in 0..Len(up[u]), NEW j \in 0..Len(down[u]),
           Break(u, i, j), NEW t \in User, NEW f
    PROVE  /\ t # u => up'[t] = up[t] /\ down'[t] = down[t]
           /\ In(f, up'[t]) => In(f, up[t])
           /\ In(f, down'[t]) => In(f, down[t])
           /\ Once(f, up[t]) => Once(f, up'[t])
           /\ Once(f, down[t]) => Once(f, down'[t])
  <1>1. up[u] \in Seq(Sendable) /\ down[u] \in Seq(Frames)
    BY DEF TypeOK
  <1>2. /\ In(f, SubSeq(up[u], 1, i)) => In(f, up[u])
        /\ Once(f, up[u]) => Once(f, SubSeq(up[u], 1, i))
    BY <1>1, PrefixIn
  <1>3. /\ In(f, SubSeq(down[u], 1, j)) => In(f, down[u])
        /\ Once(f, down[u]) => Once(f, SubSeq(down[u], 1, j))
    BY <1>1, PrefixIn
  <1>4. CASE t = u
    <2>1. up'[t] = SubSeq(up[u], 1, i) /\ down'[t] = SubSeq(down[u], 1, j)
      BY <1>4 DEF TypeOK, Break
    <2> QED BY <1>2, <1>3, <1>4, <2>1
  <1>5. CASE t # u
    <2>1. up'[t] = up[t] /\ down'[t] = down[t]
      BY <1>5 DEF TypeOK, Break
    <2> QED BY <1>5, <2>1
  <1> QED BY <1>4, <1>5

(* Traces may only vanish with the connection.                             *)
LEMMA GoodLost ==
    ASSUME NEW r \in User, NEW t \in User, Good(r, t),
           link'[t] # "up",
           pending'[t] = pending[t], lapsed' = lapsed, repeated' = repeated,
           r \in incoming'[t] => r \in incoming[t],
           r \in answering'[t] => r \in answering[t],
           In(Request(r), down'[t]) => In(Request(r), down[t]),
           In(Answer(r), up'[t]) => In(Answer(r), up[t]),
           Once(Request(r), down[t]) => Once(Request(r), down'[t]),
           Once(Answer(r), up[t]) => Once(Answer(r), up'[t])
    PROVE  Good(r, t)'
  BY DEF Good, Traced, Answered

(* Nothing of the pair changes, but that it may become exempt.             *)
LEMMA GoodKept ==
    ASSUME NEW r \in User, NEW t \in User, Good(r, t),
           link'[t] = "up" => link[t] = "up",
           r \in pending'[t] <=> r \in pending[t],
           incoming'[t] = incoming[t], answering'[t] = answering[t],
           <<r, t>> \in slipped => <<r, t>> \in slipped',
           <<r, t>> \in lapsed \cup repeated => <<r, t>> \in lapsed' \cup repeated',
           In(Request(r), down'[t]) <=> In(Request(r), down[t]),
           In(Answer(r), up'[t]) <=> In(Answer(r), up[t]),
           Once(Request(r), down[t]) => Once(Request(r), down'[t]),
           Once(Answer(r), up[t]) => Once(Answer(r), up'[t])
    PROVE  Good(r, t)'
  BY DEF Good, Traced, Answered

LEMMA GoodEnter ==
    ASSUME TypeOK, NEW r \in User, NEW t \in User, Good(r, t), NEW u \in User,
           Login(u) \/ Reconnect(u), proc[u] = "off" => incoming[u] = {} /\ answering[u] = {}
    PROVE  Good(r, t)'
  <1>1. CASE u = t
    <2>1. ~In(Answer(r), up'[t]) /\ Once(Answer(r), up'[t])
      <3>1. up'[t] = <<>>
        BY <1>1 DEF Login, Reconnect, Enter, TypeOK
      <3> QED BY <3>1, EmptyIn
    <2>2. /\ slipped' = slipped \cup {<<q, t>> : q \in pending[t] \ (incoming[t] \cup answering[t])}
          /\ UNCHANGED <<incoming, answering, pending, down, lapsed, repeated>>
      BY <1>1 DEF Login, Reconnect, Enter
    <2>3. r \in pending[t] => \/ r \in incoming[t] \/ r \in answering[t]
                              \/ <<r, t>> \in slipped'
      BY <2>2
    <2> QED BY <2>1, <2>2, <2>3 DEF Good, Traced, Answered
  <1>2. CASE u # t
    <2>1. /\ up'[t] = up[t] /\ link'[t] = link[t]
          /\ slipped \subseteq slipped'
          /\ UNCHANGED <<incoming, answering, pending, down, lapsed, repeated>>
      BY <1>2 DEF Login, Reconnect, Enter, TypeOK
    <2> QED BY <2>1, GoodKept
  <1> QED BY <1>1, <1>2

LEMMA GoodConnect ==
    ASSUME TypeOK, NEW r \in User, NEW t \in User, Good(r, t),
           NEW a \in User, NEW b \in User, Connect(a, b)
    PROVE  Good(r, t)'
  <1>1. Request(b) \in Sendable /\ Request(b) # Answer(r)
    BY FrameTypes, FramesDiffer
  <1>2. up \in [User -> Seq(Sendable)] /\ up' = [up EXCEPT ![a] = Append(@, Request(b))]
    BY DEF TypeOK, Connect
  <1>3. /\ In(Answer(r), up'[t]) <=> In(Answer(r), up[t])
        /\ Once(Answer(r), up[t]) => Once(Answer(r), up'[t])
    BY <1>1, <1>2, UpAppend
  <1>4. UNCHANGED <<link, incoming, answering, pending, down, slipped, lapsed, repeated>>
    BY DEF Connect, client, relay, told
  <1> QED BY <1>3, <1>4, GoodKept

LEMMA GoodPop ==
    ASSUME TypeOK, NEW r \in User, NEW t \in User, Good(r, t),
           NEW a \in User, NEW b \in User, PopIncoming(a, b)
    PROVE  Good(r, t)'
  <1>1. /\ b \in incoming[a] /\ answering[a] = {}
        /\ incoming' = [incoming EXCEPT ![a] = @ \ {b}]
        /\ answering' = [answering EXCEPT ![a] = {b}]
        /\ UNCHANGED <<link, pending, up, down, slipped, lapsed, repeated>>
    BY DEF PopIncoming, relay, wires, history, told
  <1>2. CASE a = t
    <2>1. /\ r \in incoming'[t] <=> r \in incoming[t] /\ r # b
          /\ r \in answering'[t] <=> r = b
          /\ r \notin answering[t]
      BY <1>1, <1>2 DEF TypeOK
    <2> QED BY <1>1, <1>2, <2>1 DEF Good, Traced, Answered
  <1>3. CASE a # t
    <2>1. incoming'[t] = incoming[t] /\ answering'[t] = answering[t]
      BY <1>1, <1>3 DEF TypeOK
    <2> QED BY <1>1, <2>1, GoodKept
  <1> QED BY <1>2, <1>3

LEMMA GoodSendAnswer ==
    ASSUME TypeOK, NEW r \in User, NEW t \in User, Good(r, t),
           NEW a \in User, NEW b \in User, SendAnswer(a, b),
           \A x, y \in answering[a] : x = y
    PROVE  Good(r, t)'
  <1>1. /\ b \in answering[a]
        /\ answering' = [answering EXCEPT ![a] = {}]
        /\ UNCHANGED <<link, incoming, pending, down, slipped, lapsed, repeated>>
    BY DEF SendAnswer, relay, told
  <1>2. Answer(b) \in Sendable
    BY FrameTypes
  <1>3. CASE Connected(a)
    <2>1. up \in [User -> Seq(Sendable)] /\ up' = [up EXCEPT ![a] = Append(@, Answer(b))]
      BY <1>3 DEF TypeOK, SendAnswer
    <2>2. /\ In(Answer(r), up'[t]) <=> In(Answer(r), up[t]) \/ (t = a /\ Answer(b) = Answer(r))
          /\ Once(Answer(r), up[t]) /\ (t # a \/ Answer(b) # Answer(r) \/ ~In(Answer(r), up[t]))
                => Once(Answer(r), up'[t])
      BY <1>2, <2>1, UpAppend
    <2>3. Answer(b) = Answer(r) <=> b = r
      BY FramesDiffer
    <2>4. CASE a = t
      <3>1. r \notin answering'[t] /\ (r \in answering[t] <=> r = b)
        BY <1>1, <2>4 DEF TypeOK
      <3> QED BY <1>1, <2>2, <2>3, <2>4, <3>1 DEF Good, Traced, Answered
    <2>5. CASE a # t
      <3>1. answering'[t] = answering[t]
        BY <1>1, <2>5 DEF TypeOK
      <3> QED BY <1>1, <2>2, <2>5, <3>1, GoodKept
    <2> QED BY <2>4, <2>5
  <1>4. CASE ~Connected(a)
    <2>1. up' = up /\ link[a] # "up"
      BY <1>4 DEF SendAnswer, Connected
    <2>2. CASE a = t
      <3>1. r \notin answering'[t]
        BY <1>1, <2>2 DEF TypeOK
      <3> QED BY <1>1, <1>4, <2>1, <2>2, <3>1, GoodLost
    <2>3. CASE a # t
      <3>1. answering'[t] = answering[t]
        BY <1>1, <2>3 DEF TypeOK
      <3> QED BY <1>1, <2>1, <3>1, GoodKept
    <2> QED BY <2>2, <2>3
  <1> QED BY <1>3, <1>4

LEMMA GoodReceive ==
    ASSUME TypeOK, NEW r \in User, NEW t \in User, Good(r, t),
           NEW u \in User, Receive(u)
    PROVE  Good(r, t)'
  <1> DEFINE f == Head(down[u])
             q == Request(r)
  <1>1. f \in Frames /\ f.peer \in User
    <2>1. f \in Frames
      BY TailAt DEF TypeOK, Receive
    <2> QED BY <2>1, FrameTypes
  <1>2. /\ In(f, down[u])
        /\ In(q, down'[t]) => In(q, down[t])
        /\ In(q, down[t]) => In(q, down'[t]) \/ (t = u /\ q = f)
        /\ Once(q, down[t]) => Once(q, down'[t])
        /\ Once(q, down[t]) /\ t = u /\ q = f => ~In(q, down'[t])
    BY DownTail
  <1>3. q = f <=> f.kind = "request" /\ f.peer = r
    BY <1>1, FrameTypes, FramesDiffer
  <1>4. /\ UNCHANGED <<link, answering, pending, up, lapsed, repeated>>
        /\ \/ f.kind # "request" /\ UNCHANGED <<incoming, slipped>>
           \/ /\ f.kind = "request"
              /\ incoming' = [incoming EXCEPT ![u] = @ \cup {f.peer}]
              /\ UNCHANGED slipped
           \/ /\ f.kind = "request"
              /\ slipped' = slipped \cup {<<f.peer, u>>} /\ UNCHANGED incoming
    BY DEF Receive, PushIncoming, relay
  <1> HIDE DEF f, q
  <1>5. CASE t = u /\ q = f
    <2>1. /\ In(q, down[t])
          /\ \/ incoming'[t] = incoming[t] \cup {r} /\ UNCHANGED slipped
             \/ UNCHANGED incoming /\ slipped' = slipped \cup {<<r, t>>}
      BY <1>2, <1>3, <1>4, <1>5 DEF TypeOK
    <2>2. <<r, t>> \notin lapsed \cup repeated =>
            /\ r \in pending[t] /\ r \notin incoming[t] /\ ~Answered(r, t)
            /\ ~In(q, down'[t])
            /\ Once(q, down[t]) /\ Once(Answer(r), up[t])
      BY <1>2, <1>5, <2>1 DEF Good, Traced, q
    <2>3. Answered(r, t)' <=> Answered(r, t)
      BY <1>4 DEF Answered
    <2>4. r \in incoming'[t] \/ <<r, t>> \in slipped'
      BY <2>1
    <2>5. /\ r \in pending'[t] /\ link'[t] = "up" => Traced(r, t)' \/ <<r, t>> \in slipped'
      BY <2>4 DEF Traced
    <2>6. <<r, t>> \notin lapsed' \cup repeated' =>
            /\ r \in pending'[t] /\ ~Answered(r, t)'
            /\ ~In(Request(r), down'[t])
            /\ Once(Request(r), down'[t]) /\ Once(Answer(r), up'[t])
      BY <1>2, <1>4, <2>2, <2>3 DEF q
    <2> QED BY <2>5, <2>6 DEF Good, Answered
  <1>6. CASE t = u /\ q # f
    <2>1. In(q, down'[t]) <=> In(q, down[t])
      BY <1>2, <1>6
    <2>2. r \in incoming'[t] <=> r \in incoming[t]
      BY <1>1, <1>3, <1>4, <1>6 DEF TypeOK
    <2>3. slipped \subseteq slipped'
      BY <1>4
    <2> QED BY <1>2, <1>4, <2>1, <2>2, <2>3 DEF Good, Traced, Answered, q
  <1>7. CASE t # u
    <2>1. In(q, down'[t]) <=> In(q, down[t])
      BY <1>2, <1>7
    <2>2. incoming'[t] = incoming[t] /\ slipped \subseteq slipped'
      BY <1>1, <1>4, <1>7 DEF TypeOK
    <2> QED BY <1>2, <1>4, <2>1, <2>2, GoodKept DEF q
  <1> QED BY <1>5, <1>6, <1>7

LEMMA GoodBreak ==
    ASSUME TypeOK, NEW r \in User, NEW t \in User, Good(r, t),
           NEW u \in User, NEW i \in 0..Len(up[u]), NEW j \in 0..Len(down[u]),
           Lose(u, i, j) \/ (j = 0 /\ Exit(u, i))
    PROVE  Good(r, t)'
  <1>1. /\ Break(u, i, j)
        /\ UNCHANGED <<pending, slipped, lapsed, repeated>>
        /\ \A x \in User \ {u} : /\ link'[x] = link[x]
                                 /\ incoming'[x] = incoming[x]
                                 /\ answering'[x] = answering[x]
        /\ link'[u] # "up"
        /\ incoming'[u] \subseteq incoming[u] /\ answering'[u] \subseteq answering[u]
    BY DEF Lose, Exit, relay, told, TypeOK
  <1>2. /\ t # u => up'[t] = up[t] /\ down'[t] = down[t]
        /\ In(Request(r), down'[t]) => In(Request(r), down[t])
        /\ Once(Request(r), down[t]) => Once(Request(r), down'[t])
    BY <1>1, BreakTraces
  <1>3. /\ In(Answer(r), up'[t]) => In(Answer(r), up[t])
        /\ Once(Answer(r), up[t]) => Once(Answer(r), up'[t])
    BY <1>1, BreakTraces
  <1>4. CASE t = u
    <2>1. /\ r \in incoming'[t] => r \in incoming[t]
          /\ r \in answering'[t] => r \in answering[t]
          /\ link'[t] # "up"
      BY <1>1, <1>4
    <2>2. pending'[t] = pending[t] /\ lapsed' = lapsed /\ repeated' = repeated
      BY <1>1
    <2> QED BY <1>2, <1>3, <2>1, <2>2, GoodLost
  <1>5. CASE t # u
    <2>1. link'[t] = link[t] /\ incoming'[t] = incoming[t] /\ answering'[t] = answering[t]
      BY <1>1, <1>5
    <2>2. UNCHANGED <<pending, slipped, lapsed, repeated>> /\ up'[t] = up[t] /\ down'[t] = down[t]
      BY <1>1, <1>2, <1>5
    <2> QED BY <2>1, <2>2, GoodKept
  <1> QED BY <1>4, <1>5

(* A frame that is no request leaves the traces in down as they were.       *)
LEMMA OtherFrame ==
    ASSUME TypeOK, NEW u \in User, NEW x \in Frames,
           \/ down' = down
           \/ down' = [down EXCEPT ![u] = Append(@, x)],
           NEW r \in User, NEW t \in User, x # Request(r)
    PROVE  /\ In(Request(r), down'[t]) <=> In(Request(r), down[t])
           /\ Once(Request(r), down[t]) => Once(Request(r), down'[t])
  BY DownAppend

LEMMA GoodHandleRequest ==
    ASSUME TypeOK, NEW r \in User, NEW t \in User, Good(r, t),
           NEW a \in User, NEW b \in User, HandleRequest(a, b)
    PROVE  Good(r, t)'
  <1> DEFINE again == {p \in {<<a, b>>} : a \in pending[b]}
  <1>1. Read(a, Request(b)) /\ UNCHANGED <<link, incoming, answering>>
    BY DEF HandleRequest, client
  <1>2. /\ In(Answer(r), up'[t]) <=> In(Answer(r), up[t])
        /\ Once(Answer(r), up[t]) => Once(Answer(r), up'[t])
    BY <1>1, UpTail, FramesDiffer
  <1>3. Request(a) \in Frames /\ Failed(Request(b)) \in Frames /\ Failed(Request(b)) # Request(r)
    BY FrameTypes
  <1>4. CASE /\ pending' = AddRequest(a, b)
             /\ Deliver(b, Request(a))
             /\ slipped' = slipped \ {<<a, b>>}
             /\ repeated' = repeated \cup again
             /\ UNCHANGED lapsed
    <2>1. \/ link[b] = "up" /\ down' = [down EXCEPT ![b] = Append(@, Request(a))]
          \/ link[b] # "up" /\ UNCHANGED down
      BY <1>4 DEF Deliver
    <2>2. CASE r = a /\ t = b
      <3>1. /\ link'[t] = "up" => In(Request(r), down'[t])
            /\ In(Request(r), down'[t]) =>
                   In(Request(r), down[t]) \/ down' = [down EXCEPT ![b] = Append(@, Request(a))]
            /\ Once(Request(r), down[t]) /\ ~In(Request(r), down[t]) => Once(Request(r), down'[t])
        BY <1>1, <1>3, <2>1, <2>2, DownAppend
      <3>2. r \in pending'[t]
        BY <1>4, <2>2 DEF AddRequest, TypeOK
      <3>3. ASSUME <<r, t>> \notin lapsed' \cup repeated'
            PROVE  /\ ~Traced(r, t)
                   /\ Once(Request(r), down[t]) /\ Once(Answer(r), up[t])
        <4>1. <<r, t>> \notin lapsed \cup repeated /\ r \notin pending[t]
          BY <1>4, <2>2, <3>3
        <4> QED BY <4>1 DEF Good
      <3>4. ASSUME <<r, t>> \notin lapsed' \cup repeated'
            PROVE  /\ r \notin incoming'[t] /\ ~Answered(r, t)' /\ r \notin answering'[t]
                   /\ Once(Request(r), down'[t]) /\ Once(Answer(r), up'[t])
        BY <1>1, <1>2, <3>1, <3>3, <3>4 DEF Traced, Answered
      <3> QED BY <3>1, <3>2, <3>4 DEF Good, Traced
    <2>3. CASE ~(r = a /\ t = b)
      <3>1. /\ In(Request(r), down'[t]) <=> In(Request(r), down[t])
            /\ Once(Request(r), down[t]) => Once(Request(r), down'[t])
        BY <1>3, <2>1, <2>3, DownAppend, FramesDiffer
      <3>2. r \in pending'[t] <=> r \in pending[t]
        BY <1>4, <2>3 DEF AddRequest, TypeOK
      <3>3. <<r, t>> \in slipped => <<r, t>> \in slipped'
        BY <1>4, <2>3
      <3>4. <<r, t>> \in lapsed \cup repeated => <<r, t>> \in lapsed' \cup repeated'
        BY <1>4
      <3> QED BY <1>1, <1>2, <3>1, <3>2, <3>3, <3>4, GoodKept
    <2> QED BY <2>2, <2>3
  <1>5. CASE /\ pending' = PopPending(a, b)
             /\ Refuse(a, Failed(Request(b)), active \ {b})
             /\ lapsed' = lapsed \cup again
             /\ UNCHANGED <<slipped, repeated>>
    <2>1. /\ In(Request(r), down'[t]) <=> In(Request(r), down[t])
          /\ Once(Request(r), down[t]) => Once(Request(r), down'[t])
      BY <1>3, <1>5, OtherFrame DEF Refuse
    <2>2. CASE r = a /\ t = b
      <3>1. r \notin pending'[t]
        BY <1>5, <2>2 DEF PopPending, TypeOK
      <3>2. ASSUME <<r, t>> \notin lapsed' \cup repeated'
            PROVE  ~Traced(r, t) /\ Once(Request(r), down[t]) /\ Once(Answer(r), up[t])
        <4>1. <<r, t>> \notin lapsed \cup repeated /\ r \notin pending[t]
          BY <1>5, <2>2, <3>2
        <4> QED BY <4>1 DEF Good
      <3>3. Traced(r, t)' <=> Traced(r, t)
        BY <1>1, <1>2, <2>1 DEF Traced, Answered
      <3> QED BY <1>2, <2>1, <3>1, <3>2, <3>3 DEF Good, Traced, Answered
    <2>3. CASE ~(r = a /\ t = b)
      <3>1. r \in pending'[t] <=> r \in pending[t]
        BY <1>5, <2>3 DEF PopPending, TypeOK
      <3>2. <<r, t>> \in lapsed \cup repeated => <<r, t>> \in lapsed' \cup repeated'
        BY <1>5
      <3> QED BY <1>1, <1>2, <1>5, <2>1, <3>1, <3>2, GoodKept
    <2> QED BY <2>2, <2>3
  <1> QED BY <1>4, <1>5 DEF HandleRequest

LEMMA GoodHandleAnswer ==
    ASSUME TypeOK, NEW r \in User, NEW t \in User, Good(r, t),
           NEW a \in User, NEW b \in User, HandleAnswer(a, b)
    PROVE  Good(r, t)'
  <1>1. /\ Read(a, Answer(b))
        /\ UNCHANGED <<link, incoming, answering, slipped, lapsed, repeated>>
    BY DEF HandleAnswer, client, told
  <1>2. /\ In(Answer(b), up[a])
        /\ In(Answer(r), up'[t]) => In(Answer(r), up[t])
        /\ In(Answer(r), up[t]) => In(Answer(r), up'[t]) \/ (t = a /\ r = b)
        /\ Once(Answer(r), up[t]) => Once(Answer(r), up'[t])
        /\ Once(Answer(r), up[t]) /\ t = a /\ r = b => ~In(Answer(r), up'[t])
    BY <1>1, UpTail, FramesDiffer
  <1>3. /\ In(Request(r), down'[t]) <=> In(Request(r), down[t])
        /\ Once(Request(r), down[t]) => Once(Request(r), down'[t])
    <2>1. /\ Answer(a) \in Frames /\ Answer(a) # Request(r)
          /\ Failed(Answer(b)) \in Frames /\ Failed(Answer(b)) # Request(r)
      BY FrameTypes, FramesDiffer
    <2>2. \/ down' = down
          \/ down' = [down EXCEPT ![a] = Append(@, Failed(Answer(b)))]
          \/ down' = [down EXCEPT ![b] = Append(@, Answer(a))]
      BY DEF HandleAnswer, NoPending, Refuse, Deliver
    <2> QED BY <2>1, <2>2, OtherFrame
  <1>4. \/ b \notin pending[a] /\ pending' = pending
        \/ b \in pending[a] /\ pending' = [pending EXCEPT ![a] = @ \ {b}]
    BY DEF HandleAnswer, NoPending, PopAnswered, PopPending
  <1>5. CASE t = a /\ r = b
    <2>1. r \notin pending'[t]
      BY <1>4, <1>5 DEF TypeOK
    <2>2. Answered(r, t)
      BY <1>2, <1>5 DEF Answered
    <2>3. <<r, t>> \notin lapsed \cup repeated =>
             /\ ~Traced(r, t)'
             /\ Once(Request(r), down'[t]) /\ Once(Answer(r), up'[t])
      BY <1>1, <1>2, <1>3, <1>5, <2>2 DEF Good, Traced, Answered
    <2> QED BY <1>1, <2>1, <2>3 DEF Good, Traced, Answered
  <1>6. CASE ~(t = a /\ r = b)
    <2>1. r \in pending'[t] <=> r \in pending[t]
      BY <1>4, <1>6 DEF TypeOK
    <2> QED BY <1>1, <1>2, <1>3, <1>6, <2>1, GoodKept
  <1> QED BY <1>5, <1>6

LEMMA GoodLimited ==
    ASSUME TypeOK, NEW r \in User, NEW t \in User, Good(r, t),
           NEW u \in User, Limited(u)
    PROVE  Good(r, t)'
  <1> DEFINE f == Head(up[u])
  <1>1. /\ Read(u, f) /\ Refuse(u, Failed(f), active)
        /\ UNCHANGED <<link, incoming, answering, pending, lapsed, repeated>>
        /\ slipped' = IF f.kind = "request" THEN slipped ELSE slipped \cup {<<f.peer, u>>}
    BY DEF Limited, client
  <1>2. f \in Sendable
    BY <1>1, ReadType
  <1>3. /\ In(Answer(r), up'[t]) => In(Answer(r), up[t])
        /\ In(Answer(r), up[t]) => In(Answer(r), up'[t]) \/ (t = u /\ Answer(r) = f)
        /\ Once(Answer(r), up[t]) => Once(Answer(r), up'[t])
    BY <1>1, UpTail
  <1>4. Answer(r) = f => <<r, u>> \in slipped'
    BY <1>1, FramesDiffer
  <1> HIDE DEF f
  <1>5. /\ In(Request(r), down'[t]) <=> In(Request(r), down[t])
        /\ Once(Request(r), down[t]) => Once(Request(r), down'[t])
    <2>1. Failed(f) \in Frames /\ Failed(f) # Request(r)
      BY <1>2, FrameTypes
    <2> QED BY <1>1, <2>1, OtherFrame DEF Refuse
  <1>6. slipped \subseteq slipped'
    BY <1>1
  <1>7. CASE t = u /\ Answer(r) = f
    <2>1. <<r, t>> \in slipped'
      BY <1>4, <1>7
    <2>2. /\ Traced(r, t)' => Traced(r, t)
          /\ Answered(r, t)' => Answered(r, t)
      BY <1>1, <1>3, <1>5 DEF Traced, Answered
    <2> QED BY <1>1, <1>3, <1>5, <2>1, <2>2 DEF Good
  <1>8. CASE ~(t = u /\ Answer(r) = f)
    BY <1>1, <1>3, <1>5, <1>6, <1>8, GoodKept
  <1> QED BY <1>7, <1>8

(* The relay forgets the request, and notes it if it was held.              *)
LEMMA GoodForgotten ==
    ASSUME NEW r \in User, NEW t \in User, Good(r, t),
           r \notin pending'[t],
           r \in pending[t] => <<r, t>> \in lapsed',
           lapsed \subseteq lapsed', repeated' = repeated,
           incoming'[t] = incoming[t], answering'[t] = answering[t],
           down'[t] = down[t],
           In(Answer(r), up'[t]) => In(Answer(r), up[t]),
           Once(Answer(r), up[t]) => Once(Answer(r), up'[t])
    PROVE  Good(r, t)'
  <1> SUFFICES ASSUME <<r, t>> \notin lapsed' \cup repeated'
               PROVE  ~Traced(r, t)' /\ Once(Request(r), down'[t]) /\ Once(Answer(r), up'[t])
    BY DEF Good, Traced, Answered
  <1>1. r \notin pending[t] /\ <<r, t>> \notin lapsed \cup repeated
    OBVIOUS
  <1>2. ~Traced(r, t) /\ Once(Request(r), down[t]) /\ Once(Answer(r), up[t])
    BY <1>1 DEF Good
  <1> QED BY <1>2 DEF Traced, Answered

LEMMA GoodCleanup ==
    ASSUME TypeOK, NEW r \in User, NEW t \in User, Good(r, t),
           NEW u \in User, Cleanup(u)
    PROVE  Good(r, t)'
  <1>1. /\ UNCHANGED <<link, incoming, answering, up, down, slipped, repeated>>
        /\ pending' = ClearForUser(u)
        /\ lapsed' = lapsed \cup (Held(pending) \ Held(pending'))
    BY DEF Cleanup, client, wires
  <1>2. r \in pending'[t] <=> r \in pending[t] /\ t # u /\ r # u
    BY <1>1 DEF ClearForUser, TypeOK
  <1>3. CASE r \in pending'[t] <=> r \in pending[t]
    BY <1>1, <1>3, GoodKept
  <1>4. CASE r \in pending[t] /\ r \notin pending'[t]
    <2>1. <<r, t>> \in lapsed'
      BY <1>1, <1>4 DEF Held, Pairs
    <2> QED BY <1>1, <1>4, <2>1, GoodForgotten
  <1> QED BY <1>2, <1>3, <1>4

LEMMA GoodRestart ==
    ASSUME TypeOK, NEW r \in User, NEW t \in User, Good(r, t), Restart
    PROVE  Good(r, t)'
  <1>1. /\ UNCHANGED <<incoming, answering, down, slipped, repeated>>
        /\ pending'[t] = {} /\ up'[t] = <<>>
        /\ lapsed' = lapsed \cup Held(pending)
    BY DEF Restart
  <1>2. ~In(Answer(r), up'[t]) /\ Once(Answer(r), up'[t])
    BY <1>1, EmptyIn
  <1>3. r \in pending[t] => <<r, t>> \in lapsed'
    BY <1>1 DEF Held, Pairs
  <1> QED BY <1>1, <1>2, <1>3, GoodForgotten

LEMMA ShellsStep ==
    ASSUME TypeOK, Shells, [Next]_vars PROVE Shells'
  <1>1. CASE UNCHANGED vars
    BY <1>1 DEF Shells, vars, client
  <1>2. ASSUME NEW t \in User, NEW r \in User, PopIncoming(t, r) PROVE Shells'
    BY <1>2 DEF Shells, PopIncoming, TypeOK
  <1>3. ASSUME NEW t \in User, NEW r \in User, SendAnswer(t, r) PROVE Shells'
    BY <1>3 DEF Shells, SendAnswer, TypeOK
  <1>4. ASSUME NEW u \in User, Receive(u) PROVE Shells'
    <2>1. proc' = proc /\ answering' = answering
      BY <1>4 DEF Receive
    <2>2. \A x \in User : proc[x] = "off" => incoming'[x] = incoming[x]
      BY <1>4 DEF Receive, PushIncoming, TypeOK
    <2> QED BY <2>1, <2>2 DEF Shells
  <1>5. ASSUME NEW u \in User, NEW i \in 0..Len(up[u]), Exit(u, i) PROVE Shells'
    BY <1>5 DEF Shells, Exit, TypeOK
  <1>6. ASSUME NEW u \in User, Login(u) \/ Install(u) PROVE Shells'
    <2>1. incoming' = incoming /\ answering' = answering
      BY <1>6 DEF Login, Install, Enter
    <2>2. \A x \in User : proc'[x] = "off" => proc[x] = "off"
      BY <1>6 DEF Login, Install, TypeOK
    <2> QED BY <2>1, <2>2 DEF Shells
  <1>7. CASE UNCHANGED <<proc, incoming, answering>>
    BY <1>7 DEF Shells
  <1> QED
    BY <1>1, <1>2, <1>3, <1>4, <1>5, <1>6, <1>7
    DEF Next, Shell, Loop, Process, Handle, Environment, Connect, Notice, Reconnect, Enter,
        HandleRequest, HandleAnswer, Cleanup, Lose, Limited, Displace, Restart, client

LEMMA Invariance == Spec => []Inv
  <1>1. Init => Inv
    BY InvInit
  <1>2. ASSUME Inv, [Next]_vars PROVE Inv'
    <2>1. TypeOK' /\ Shells'
      BY <1>2, TypeStep, ShellsStep DEF Inv
    <2>2. ASSUME NEW r \in User, NEW t \in User PROVE Good(r, t)'
      <3>1. TypeOK /\ Good(r, t)
        BY <1>2 DEF Inv
      <3>2. Shells
        BY <1>2 DEF Inv
      <3>3. CASE UNCHANGED vars
        <4>1. UNCHANGED <<link, incoming, answering, pending, up, down, slipped, lapsed, repeated>>
          BY <3>3 DEF vars, client, relay, wires, history, told
        <4> QED BY <3>1, <4>1, GoodKept
      <3>4. ASSUME NEW a \in User, Shell(a) PROVE Good(r, t)'
        <4>1. \A x, y \in answering[a] : x = y
          BY <3>2 DEF Shells
        <4> QED BY <3>1, <3>4, <4>1, GoodConnect, GoodPop, GoodSendAnswer DEF Shell
      <3>5. ASSUME NEW u \in User, Login(u) \/ Reconnect(u) PROVE Good(r, t)'
        BY <3>1, <3>2, <3>5, GoodEnter DEF Shells
      <3>6. ASSUME NEW u \in User, Install(u) \/ Notice(u) PROVE Good(r, t)'
        <4>1. /\ UNCHANGED <<incoming, answering, pending, up, down, slipped, lapsed, repeated>>
              /\ link'[t] = "up" => link[t] = "up"
          BY <3>1, <3>6 DEF Install, Notice, relay, wires, history, told, TypeOK
        <4> QED BY <3>1, <4>1, GoodKept
      <3>7. ASSUME NEW u \in User, NEW i \in 0..Len(up[u]), Exit(u, i) PROVE Good(r, t)'
        <4>1. 0 \in 0..Len(down[u])
          BY <3>1 DEF TypeOK
        <4> QED BY <3>1, <3>7, <4>1, GoodBreak
      <3>8. ASSUME NEW a \in User, Handle(a) PROVE Good(r, t)'
        BY <3>1, <3>8, GoodHandleRequest, GoodHandleAnswer DEF Handle
      <3>9. ASSUME NEW u \in User, Displace(u) PROVE Good(r, t)'
        <4>1. /\ UNCHANGED <<incoming, answering, pending, up, down, slipped, lapsed, repeated>>
              /\ link'[t] = "up" => link[t] = "up"
          BY <3>1, <3>9 DEF Displace, wires, told, TypeOK
        <4> QED BY <3>1, <4>1, GoodKept
      <3>10. ASSUME NEW u \in User, Environment(u) PROVE Good(r, t)'
        BY <3>1, <3>9, <3>10, GoodBreak, GoodLimited DEF Environment
      <3> QED
        BY <1>2, <3>1, <3>3, <3>4, <3>5, <3>6, <3>7, <3>8, <3>10,
           GoodReceive, GoodCleanup, GoodRestart
        DEF Next, Loop, Process
    <2> QED BY <2>1, <2>2 DEF Inv
  <1> QED BY <1>1, <1>2, PTL DEF Spec

(* The variables always have their types.                                  *)
THEOREM RequestsTypeCorrect == Spec => []TypeOK
  BY Invariance, PTL DEF Inv

(* A request the relay holds for a connected user is in front of it.       *)
THEOREM HeldIsShownTheorem == Spec => []HeldIsShown
  <1>1. Inv => HeldIsShown
    BY DEF Inv, Good, HeldIsShown, Traced
  <1> QED BY <1>1, Invariance, PTL

(* A request in front of a user can be answered.                           *)
THEOREM ShownIsHeldTheorem == Spec => []ShownIsHeld
  <1>1. Inv => ShownIsHeld
    BY DEF Inv, Good, ShownIsHeld, Traced
  <1> QED BY <1>1, Invariance, PTL
=============================================================================
