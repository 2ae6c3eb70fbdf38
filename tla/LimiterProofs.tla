---------------------------- MODULE LimiterProofs ----------------------------
(* The proofs of the invariants of Limiter, for any number of threads, any *)
(* limit and any window.                                                   *)
EXTENDS Limiter, FiniteSetTheorems, TLAPS

LEMMA TailFacts ==
    ASSUME NEW S, NEW s \in Seq(S), s # <<>>
    PROVE  /\ Tail(s) \in Seq(S)
           /\ Len(s) \in Nat /\ Len(s) > 0
           /\ Len(Tail(s)) = Len(s) - 1
           /\ Head(s) \in S /\ Head(s) = s[1]
           /\ \A j \in 1..(Len(s) - 1) : Tail(s)[j] = s[j + 1]
  OBVIOUS

LEMMA AppendFacts ==
    ASSUME NEW S, NEW s \in Seq(S), NEW e \in S
    PROVE  /\ Append(s, e) \in Seq(S)
           /\ Len(s) \in Nat
           /\ Len(Append(s, e)) = Len(s) + 1
           /\ DOMAIN Append(s, e) = DOMAIN s \cup {Len(s) + 1}
           /\ DOMAIN s = 1..Len(s)
           /\ \A j \in DOMAIN s : Append(s, e)[j] = s[j]
           /\ Append(s, e)[Len(s) + 1] = e
  OBVIOUS

LEMMA ElementFacts ==
    ASSUME NEW S, NEW s \in Seq(S)
    PROVE  /\ Len(s) \in Nat /\ DOMAIN s = 1..Len(s)
           /\ \A n \in DOMAIN s : s[n] \in S
           /\ s # <<>> => 1 \in DOMAIN s /\ Head(s) = s[1] /\ s[1] \in S
  OBVIOUS

LEMMA Types ==
    ASSUME TypeOK
    PROVE  /\ clock \in Nat /\ now \in [Thread -> Nat] /\ forgotten \in Nat
           /\ q \in Seq(Nat)
           /\ log \in Seq([made : Nat, entered : Nat])
           /\ \A n \in DOMAIN log : log[n].made \in Nat /\ log[n].entered \in Nat
  <1>1. log \in Seq([made : Nat, entered : Nat]) /\ q \in Seq(Nat)
    BY Zenon DEF TypeOK
  <1>2. \A n \in DOMAIN log : log[n] \in [made : Nat, entered : Nat]
    BY <1>1, ElementFacts
  <1> QED BY <1>1, <1>2 DEF TypeOK

(* What a step does to q and to the log: nothing, unless it is the one of  *)
(* the two that write.                                                     *)
Step(t) == Call(t) \/ While(t) \/ PeekHead(t) \/ PopLeft(t) \/ CheckLen(t) \/ Admit(t) \/ Return(t)

LEMMA StepOfThread ==
    ASSUME TypeOK, NEW t \in Thread, Step(t)
    PROVE  /\ \A r \in Thread : r # t => pc'[r] = pc[r] /\ now'[r] = now[r]
           /\ clock' = clock
  BY DEF Step, Call, While, PeekHead, PopLeft, CheckLen, Admit, Return, Goes, TypeOK
-----------------------------------------------------------------------------
LEMMA TypeStep == ASSUME TypeOK, [Next]_vars PROVE TypeOK'
  <1>0. /\ q # <<>> => Tail(q) \in Seq(Nat)
        /\ \A t \in Thread : PopLeft(t) /\ q # <<>> =>
              /\ pc' = [pc EXCEPT ![t] = "while"]
              /\ forgotten' = forgotten + 1
              /\ q' = Tail(q)
              /\ taken' \subseteq taken \cup {forgotten + 1}
              /\ UNCHANGED <<clock, now, log, overlapped>>
    BY Types, TailFacts DEF PopLeft, Goes
  <1> USE DEF TypeOK, Goes, Places
  <1>1. CASE Tick
    BY <1>1 DEF Tick
  <1>2. ASSUME NEW t \in Thread, Call(t) PROVE TypeOK'
    BY <1>2 DEF Call
  <1>3. ASSUME NEW t \in Thread, While(t) PROVE TypeOK'
    BY <1>3 DEF While
  <1>4. ASSUME NEW t \in Thread, PeekHead(t) PROVE TypeOK'
    BY <1>4 DEF PeekHead
  <1>5. ASSUME NEW t \in Thread, PopLeft(t) PROVE TypeOK'
    <2>1. CASE q = <<>>
      BY <1>5, <2>1 DEF PopLeft
    <2>2. CASE q # <<>>
      <3>1. q' \in Seq(Nat) /\ UNCHANGED <<clock, now, log, overlapped>>
        BY ONLY <1>0, <1>5, <2>2
      <3>2. /\ pc' = [pc EXCEPT ![t] = "while"] /\ forgotten' = forgotten + 1
            /\ taken' \subseteq taken \cup {forgotten + 1}
        BY ONLY <1>0, <1>5, <2>2
      <3>3. pc' \in [Thread -> Places] /\ forgotten' \in Nat
        BY <3>2
      <3>4. taken' \subseteq 1..forgotten'
        BY <3>2
      <3> QED BY <3>1, <3>3, <3>4
    <2> QED BY <2>1, <2>2
  <1>6. ASSUME NEW t \in Thread, CheckLen(t) PROVE TypeOK'
    BY <1>6 DEF CheckLen
  <1>7. ASSUME NEW t \in Thread, Admit(t) PROVE TypeOK'
    <2>1. now[t] \in Nat /\ [made |-> now[t], entered |-> clock] \in [made : Nat, entered : Nat]
      OBVIOUS
    <2>2. q' \in Seq(Nat) /\ log' \in Seq([made : Nat, entered : Nat])
      BY <1>7, <2>1, AppendFacts DEF Admit
    <2> QED BY <1>7, <2>2 DEF Admit
  <1>8. ASSUME NEW t \in Thread, Return(t) PROVE TypeOK'
    BY <1>8 DEF Return
  <1>9. CASE UNCHANGED vars
    BY <1>9 DEF vars
  <1> QED BY <1>1, <1>2, <1>3, <1>4, <1>5, <1>6, <1>7, <1>8, <1>9 DEF Next
-----------------------------------------------------------------------------
(* However calls overlap.                                                  *)

LEMMA ClockedStep == ASSUME TypeOK, Clocked, [Next]_vars PROVE Clocked'
  <1> USE DEF Clocked
  <1>0. /\ clock \in Nat /\ now \in [Thread -> Nat]
        /\ \A n \in DOMAIN log : log[n].made \in Nat /\ log[n].entered \in Nat
    BY Types
  <1>1. CASE UNCHANGED vars \/ Tick
    <2>1. UNCHANGED <<q, now, log>> /\ (clock' = clock \/ clock' = clock + 1)
      BY <1>1 DEF vars, Tick
    <2>2. \A t \in Thread : now'[t] <= clock'
      BY <1>0, <2>1
    <2>3. \A n \in DOMAIN log' : log'[n].made <= log'[n].entered /\ log'[n].entered <= clock'
      BY <1>0, <2>1
    <2> QED BY <2>1, <2>2, <2>3
  <1>2. ASSUME NEW t \in Thread, Call(t) \/ Return(t) PROVE Clocked'
    <2>1. UNCHANGED <<q, log, clock>>
      BY <1>2 DEF Call, Return
    <2>2. \A r \in Thread : now'[r] <= clock'
      BY <1>0, <1>2 DEF Call, Return
    <2> QED BY <2>1, <2>2
  <1>3. ASSUME NEW t \in Thread, While(t) \/ CheckLen(t) \/ PeekHead(t) PROVE Clocked'
    BY <1>3 DEF While, CheckLen, PeekHead
  <1>4. ASSUME NEW t \in Thread, PopLeft(t) PROVE Clocked'
    <2>1. CASE q = <<>>
      BY <1>4, <2>1 DEF PopLeft
    <2>2. CASE q # <<>>
      <3>1. \A j \in DOMAIN q' : j + 1 \in DOMAIN q /\ q'[j] = q[j + 1]
        <4>1. q' = Tail(q) /\ q \in Seq(Nat)
          BY <1>4, <2>2, Types DEF PopLeft
        <4> QED BY <2>2, <4>1, TailFacts, ElementFacts
      <3> QED BY <1>4, <2>2, <3>1 DEF PopLeft
    <2> QED BY <2>1, <2>2
  <1>5. ASSUME NEW t \in Thread, Admit(t) PROVE Clocked'
    <2> DEFINE e == [made |-> now[t], entered |-> clock]
    <2>1. now[t] \in Nat /\ clock \in Nat /\ e \in [made : Nat, entered : Nat]
      BY DEF TypeOK
    <2>2. /\ DOMAIN log' = DOMAIN log \cup {Len(log) + 1}
          /\ \A n \in DOMAIN log : log'[n] = log[n]
          /\ log'[Len(log) + 1] = e
      BY <1>5, <2>1, AppendFacts DEF Admit, TypeOK
    <2>3. /\ DOMAIN q' = DOMAIN q \cup {Len(q) + 1}
          /\ \A n \in DOMAIN q : q'[n] = q[n]
          /\ q'[Len(q) + 1] = now[t]
      BY <1>5, <2>1, AppendFacts DEF Admit, TypeOK
    <2>4. \A r \in Thread : now'[r] <= clock'
      BY <1>5, <2>1 DEF Admit, TypeOK
    <2>5. \A n \in DOMAIN log' : log'[n].made <= log'[n].entered /\ log'[n].entered <= clock'
      BY <1>5, <2>1, <2>2 DEF Admit
    <2>6. \A j \in DOMAIN q' : \E n \in DOMAIN log' : log'[n].made = q'[j]
      BY <2>2, <2>3
    <2> QED BY <2>4, <2>5, <2>6
  <1> QED BY <1>1, <1>2, <1>3, <1>4, <1>5 DEF Next

(* What is recent for a call stays so until it is over.                    *)
LEMMA RecentStays ==
    ASSUME TypeOK, [Next]_vars, NEW t \in Thread, Recent(t), now'[t] = now[t]
    PROVE  Recent(t)'
  <1>1. PICK n \in DOMAIN log : now[t] - log[n].entered <= window_seconds
    BY DEF Recent
  <1>2. n \in DOMAIN log' /\ log'[n] = log[n]
    <2>1. ASSUME NEW r \in Thread, Admit(r) PROVE n \in DOMAIN log' /\ log'[n] = log[n]
      <3>1. [made |-> now[r], entered |-> clock] \in [made : Nat, entered : Nat]
        BY DEF TypeOK
      <3> QED BY <2>1, <3>1, AppendFacts DEF Admit, TypeOK
    <2>2. CASE UNCHANGED log
      BY <2>2
    <2> QED BY <2>1, <2>2 DEF Next, vars, Tick, Call, While, PeekHead, PopLeft, CheckLen, Return
  <1> QED BY <1>1, <1>2 DEF Recent

LEMMA CauseStep ==
    ASSUME TypeOK, Clocked, LooksForCause, RefusedForCause, [Next]_vars
    PROVE  LooksForCause' /\ RefusedForCause'
  <1>1. SUFFICES ASSUME NEW t \in Thread
                 PROVE  /\ pc'[t] = "len" => q' = <<>> \/ Recent(t)'
                        /\ pc'[t] = "refused" => Recent(t)'
    BY DEF LooksForCause, RefusedForCause
  <1>2. CASE UNCHANGED vars \/ Tick
    BY <1>2, RecentStays DEF vars, Tick, LooksForCause, RefusedForCause
  <1>3. ASSUME Step(t) PROVE /\ pc'[t] = "len" => q' = <<>> \/ Recent(t)'
                             /\ pc'[t] = "refused" => Recent(t)'
    <2>1. CASE Call(t) \/ PopLeft(t) \/ Admit(t) \/ Return(t)
      BY <2>1 DEF Call, PopLeft, Admit, Return, Goes, TypeOK
    <2>2. CASE While(t)
      BY <2>2 DEF While, Goes, TypeOK
    <2>3. CASE PeekHead(t)
      <3>1. SUFFICES ASSUME pc'[t] = "len" PROVE Recent(t)'
        BY <2>3 DEF PeekHead, Goes, TypeOK
      <3>2. q # <<>> /\ ~Expired(t)
        BY <2>3, <3>1 DEF PeekHead, Goes, TypeOK
      <3>3. 1 \in DOMAIN q /\ Head(q) = q[1] /\ q[1] \in Nat /\ now[t] \in Nat
        <4>1. q \in Seq(Nat) /\ now[t] \in Nat
          BY Types
        <4> QED BY <3>2, <4>1, ElementFacts
      <3>4. PICK n \in DOMAIN log : log[n].made = q[1]
        BY <3>3 DEF Clocked
      <3>5. log[n].entered \in Nat /\ log[n].made <= log[n].entered
        BY Types DEF Clocked
      <3>6. Recent(t)
        BY <3>2, <3>3, <3>4, <3>5, LimiterAssumption DEF Expired, Recent
      <3> QED BY <2>3, <3>6, RecentStays DEF PeekHead
    <2>4. CASE CheckLen(t)
      <3>1. SUFFICES ASSUME pc'[t] = "refused" PROVE Recent(t)'
        BY <2>4 DEF CheckLen, Goes, TypeOK
      <3>2. pc[t] = "len" /\ Len(q) >= max_events
        BY <2>4, <3>1 DEF CheckLen, Goes, Full, TypeOK
      <3>3. q # <<>>
        BY <3>2, LimiterAssumption
      <3>4. Recent(t)
        BY <3>2, <3>3 DEF LooksForCause
      <3> QED BY <2>4, <3>4, RecentStays DEF CheckLen
    <2> QED BY <1>3, <2>1, <2>2, <2>3, <2>4 DEF Step
  <1>4. ASSUME NEW r \in Thread, r # t, Step(r)
        PROVE  /\ pc'[t] = "len" => q' = <<>> \/ Recent(t)'
               /\ pc'[t] = "refused" => Recent(t)'
    <2>1. pc'[t] = pc[t] /\ now'[t] = now[t]
      BY <1>4, StepOfThread
    <2>2. Recent(t) => Recent(t)'
      BY <2>1, RecentStays
    <2>3. ASSUME pc[t] = "len", q = <<>> PROVE q' = <<>> \/ Recent(t)'
      <3>1. CASE Admit(r)
        <4>1. /\ [made |-> now[r], entered |-> clock] \in [made : Nat, entered : Nat]
              /\ now[t] \in Nat /\ clock \in Nat /\ now[t] <= clock
          BY DEF TypeOK, Clocked
        <4>2. /\ Len(log) + 1 \in DOMAIN log'
              /\ log'[Len(log) + 1].entered = clock
          BY <3>1, <4>1, AppendFacts DEF Admit, TypeOK
        <4>3. now'[t] - log'[Len(log) + 1].entered <= window_seconds
          BY <2>1, <4>1, <4>2, LimiterAssumption
        <4> QED BY <4>2, <4>3 DEF Recent
      <3>2. CASE ~Admit(r)
        BY <1>4, <2>3, <3>2 DEF Step, Call, While, PeekHead, PopLeft, CheckLen, Return
      <3> QED BY <3>1, <3>2
    <2> QED BY <2>1, <2>2, <2>3 DEF LooksForCause, RefusedForCause
  <1> QED BY <1>2, <1>3, <1>4 DEF Next, Step

LEMMA RoomStep == ASSUME TypeOK, RoomForAll, [Next]_vars PROVE RoomForAll'
  <1> DEFINE N == Cardinality(Thread)
             E == Cardinality(Entering)
  <1>1. /\ N \in Nat /\ E \in Nat /\ IsFiniteSet(Entering)
        /\ Len(q) \in Nat /\ max_events \in Nat
    <2>1. Entering \subseteq Thread
      BY DEF Entering
    <2> QED BY <2>1, LimiterAssumption, FS_Subset, FS_CardinalityType DEF TypeOK
  <1>2. CASE UNCHANGED vars \/ Tick
    BY <1>2 DEF vars, Tick, RoomForAll, Entering
  <1>3. ASSUME NEW t \in Thread, Call(t) \/ While(t) \/ PeekHead(t) \/ Return(t)
        PROVE  RoomForAll'
    <2>1. pc'[t] # "append" /\ pc[t] # "append" /\ q' = q
      BY <1>3 DEF PeekHead, Call, While, Return, Goes, TypeOK
    <2>2. Entering' = Entering
      BY <1>3, <2>1, StepOfThread DEF Entering, Step
    <2> QED BY <2>1, <2>2 DEF RoomForAll
  <1>4. ASSUME NEW t \in Thread, PopLeft(t) PROVE RoomForAll'
    <2>1. pc'[t] # "append" /\ pc[t] # "append"
      BY <1>4 DEF PopLeft, Goes, TypeOK
    <2>2. Entering' = Entering
      BY <1>4, <2>1, StepOfThread DEF Entering, Step
    <2>3. Len(q') \in Nat /\ Len(q') <= Len(q)
      BY <1>1, <1>4, TailFacts DEF PopLeft, TypeOK
    <2> QED BY <1>1, <2>2, <2>3 DEF RoomForAll
  <1>5. ASSUME NEW t \in Thread, CheckLen(t) PROVE RoomForAll'
    <2>1. CASE Full
      <3>1. Entering' = Entering
        BY <1>5, <2>1, StepOfThread DEF Entering, Step, CheckLen, Goes, TypeOK
      <3> QED BY <1>5, <3>1 DEF CheckLen, RoomForAll
    <2>2. CASE ~Full
      <3>1. Entering' \subseteq Thread
        BY DEF Entering
      <3>2. Cardinality(Entering') \in Nat /\ Cardinality(Entering') <= N
        BY <3>1, LimiterAssumption, FS_Subset, FS_CardinalityType
      <3>3. Len(q') < max_events /\ Len(q') \in Nat
        BY <1>1, <1>5, <2>2 DEF CheckLen, Full
      <3> QED BY <1>1, <3>2, <3>3 DEF RoomForAll
    <2> QED BY <2>1, <2>2
  <1>6. ASSUME NEW t \in Thread, Admit(t) PROVE RoomForAll'
    <2>1. t \in Entering /\ Entering' = Entering \ {t}
      BY <1>6, StepOfThread DEF Entering, Step, Admit, Goes, TypeOK
    <2>2. Cardinality(Entering') = E - 1
      BY <1>1, <2>1, FS_RemoveElement
    <2>3. Len(q') = Len(q) + 1
      BY <1>6, AppendFacts DEF Admit, TypeOK
    <2> QED BY <1>1, <2>2, <2>3 DEF RoomForAll
  <1> QED BY <1>2, <1>3, <1>4, <1>5, <1>6 DEF Next

LEMMA LeftStep ==
    ASSUME TypeOK, Left, [Next]_vars
    PROVE  Left'
  <1>1. Left
    OBVIOUS
  <1>2. /\ Len(q) \in Nat /\ DOMAIN q = 1..Len(q)
        /\ Len(log) \in Nat /\ DOMAIN log = 1..Len(log)
        /\ forgotten \in Nat
    BY Types, ElementFacts
  <1>3. CASE UNCHANGED <<q, log, forgotten>>
    BY <1>1, <1>3 DEF Left
  <1>4. ASSUME NEW t \in Thread, PopLeft(t), q # <<>> PROVE Left'
    <2>1. /\ q' = Tail(q) /\ log' = log /\ forgotten' = forgotten + 1
      BY <1>4 DEF PopLeft
    <2>2. /\ Len(q') = Len(q) - 1 /\ Len(q) > 0 /\ q' \in Seq(Nat)
          /\ \A j \in 1..(Len(q) - 1) : q'[j] = q[j + 1]
      BY <1>4, <2>1, TailFacts, Types
    <2>3. DOMAIN q' = 1..(Len(q) - 1)
      BY <2>2, ElementFacts
    <2>4. \A j \in DOMAIN q' : q'[j] = log'[forgotten' + j].made
      <3>1. TAKE j \in DOMAIN q'
      <3>2. j \in Nat /\ j + 1 \in DOMAIN q /\ q'[j] = q[j + 1]
        BY <1>2, <2>2, <2>3
      <3>3. q[j + 1] = log[forgotten + (j + 1)].made
        BY <1>1, <3>2 DEF Left
      <3>4. forgotten + (j + 1) = forgotten' + j
        BY <1>2, <2>1, <3>2
      <3> QED BY <2>1, <3>2, <3>3, <3>4
    <2> QED BY <1>1, <1>2, <2>1, <2>2, <2>4 DEF Left
  <1>5. ASSUME NEW t \in Thread, Admit(t) PROVE Left'
    <2>1. /\ DOMAIN q' = DOMAIN q \cup {Len(q) + 1} /\ Len(q') = Len(q) + 1
          /\ \A j \in DOMAIN q : q'[j] = q[j]
          /\ q'[Len(q) + 1] = now[t]
      BY <1>5, AppendFacts, Types DEF Admit
    <2>2. /\ Len(log') = Len(log) + 1
          /\ \A n \in DOMAIN log : log'[n] = log[n]
          /\ log'[Len(log) + 1].made = now[t]
      <3>1. [made |-> now[t], entered |-> clock] \in [made : Nat, entered : Nat]
        BY Types
      <3> QED BY <1>5, <3>1, AppendFacts, Types DEF Admit
    <2>3. Len(q) + forgotten = Len(log) /\ forgotten' = forgotten
      BY <1>1, <1>5 DEF Left, Admit
    <2>4. \A j \in DOMAIN q' : q'[j] = log'[forgotten' + j].made
      <3>1. TAKE j \in DOMAIN q'
      <3>2. CASE j \in DOMAIN q
        <4>1. forgotten + j \in DOMAIN log
          BY <1>2, <2>3, <3>2
        <4> QED BY <1>1, <2>1, <2>2, <2>3, <3>2, <4>1 DEF Left
      <3>3. CASE j = Len(q) + 1
        <4>1. forgotten' + j = Len(log) + 1
          BY <1>2, <2>3, <3>3
        <4> QED BY <2>1, <2>2, <3>3, <4>1
      <3> QED BY <2>1, <3>1, <3>2, <3>3
    <2> QED BY <1>2, <2>1, <2>2, <2>3, <2>4 DEF Left
  <1>6. ASSUME NEW t \in Thread, PopLeft(t), q = <<>> PROVE UNCHANGED <<q, log, forgotten>>
    BY <1>6 DEF PopLeft
  <1> QED BY <1>3, <1>4, <1>5, <1>6
          DEF Next, vars, Tick, Call, While, PeekHead, CheckLen, Return

LEMMA ExpiryStep == ASSUME TypeOK, Left, Expiry, [Next]_vars PROVE Expiry'
  <1>1. /\ clock \in Nat /\ forgotten \in Nat /\ window_seconds \in Nat
        /\ Len(log) \in Nat /\ DOMAIN log = 1..Len(log)
        /\ \A n \in DOMAIN log : log[n].made \in Nat
    BY Types, ElementFacts, LimiterAssumption
  <1>2. CASE UNCHANGED <<log, forgotten, taken>> /\ (clock' = clock \/ clock' = clock + 1)
    BY <1>1, <1>2 DEF Expiry, Current
  <1>3. ASSUME NEW t \in Thread, Admit(t) PROVE Expiry'
    <2>1. /\ DOMAIN log' = DOMAIN log \cup {Len(log) + 1}
          /\ \A n \in DOMAIN log : log'[n] = log[n]
      <3>1. [made |-> now[t], entered |-> clock] \in [made : Nat, entered : Nat]
        BY Types
      <3> QED BY <1>3, <3>1, AppendFacts, Types DEF Admit
    <2>2. forgotten < Len(log) + 1
      BY <1>1, Types, ElementFacts DEF Left
    <2>3. UNCHANGED <<clock, forgotten, taken>>
      BY <1>3 DEF Admit
    <2> QED BY <1>1, <2>1, <2>2, <2>3 DEF Expiry, Current
  <1>4. ASSUME NEW t \in Thread, PopLeft(t), q # <<>> PROVE Expiry'
    <2>1. /\ UNCHANGED <<clock, log>> /\ forgotten' = forgotten + 1
          /\ taken' = taken \cup {n \in {forgotten + 1} : Current(Head(q))}
      BY <1>4 DEF PopLeft
    <2>2. Head(q) = log[forgotten + 1].made
      <3>1. 1 \in DOMAIN q /\ Head(q) = q[1]
        BY <1>4, Types, ElementFacts
      <3> QED BY <3>1 DEF Left
    <2>3. SUFFICES ASSUME NEW n \in DOMAIN log, n <= forgotten + 1, n \notin taken'
                   PROVE  ~Current(log[n].made)
      BY <2>1 DEF Expiry, Current
    <2>4. CASE n <= forgotten
      BY <2>1, <2>3, <2>4 DEF Expiry
    <2>5. CASE n = forgotten + 1
      BY <2>1, <2>2, <2>3, <2>5
    <2> QED BY <1>1, <2>3, <2>4, <2>5
  <1>5. ASSUME NEW t \in Thread, PopLeft(t), q = <<>>
        PROVE  UNCHANGED <<clock, log, forgotten, taken>>
    BY <1>5 DEF PopLeft
  <1> QED BY <1>2, <1>3, <1>4, <1>5
          DEF Next, vars, Tick, Call, While, PeekHead, CheckLen, Return

(* Sets of threads and of positions in the log are finite.                 *)
LEMMA Finite ==
    ASSUME TypeOK
    PROVE  /\ IsFiniteSet(taken) /\ Cardinality(taken) \in Nat
           /\ Cardinality(taken) <= forgotten
           /\ IsFiniteSet(Astray) /\ Cardinality(Astray) \in Nat
           /\ Cardinality(Thread) \in Nat
  <1>1. taken \subseteq 1..forgotten /\ forgotten \in Nat
    BY DEF TypeOK
  <1>2. Astray \subseteq Thread
    BY DEF Astray
  <1>3. IsFiniteSet(1..forgotten) /\ Cardinality(1..forgotten) = forgotten
    BY <1>1, FS_Interval
  <1> QED BY <1>1, <1>2, <1>3, LimiterAssumption, FS_Subset, FS_CardinalityType

(* A thread that sees an expired head leaves none astray; it is the one    *)
(* that removes it that leaves astray those who saw it too.                *)
LEMMA OwedStep == ASSUME TypeOK, TypeOK', Clocked, Owed, [Next]_vars PROVE Owed'
  <1> DEFINE N == Cardinality(Thread)
             T == Cardinality(taken)
             A == Cardinality(Astray)
  <1>0. /\ Cardinality(Astray') \in Nat /\ IsFiniteSet(Astray')
        /\ Cardinality(taken') <= forgotten'
    <2>1. taken' \subseteq 1..forgotten' /\ forgotten' \in Nat
      BY DEF TypeOK
    <2>2. Astray' \subseteq Thread
      BY DEF Astray
    <2>3. IsFiniteSet(1..forgotten') /\ Cardinality(1..forgotten') = forgotten'
      BY <2>1, FS_Interval
    <2> QED BY <2>1, <2>2, <2>3, LimiterAssumption, FS_Subset, FS_CardinalityType
  <1>1. /\ N \in Nat /\ T \in Nat /\ A \in Nat /\ forgotten \in Nat /\ T <= forgotten
        /\ IsFiniteSet(taken) /\ IsFiniteSet(Astray)
        /\ Cardinality(Astray') \in Nat /\ IsFiniteSet(Astray')
        /\ Cardinality(taken') <= forgotten'
        /\ clock \in Nat /\ window_seconds \in Nat /\ now \in [Thread -> Nat]
        /\ q # <<>> => Head(q) \in Nat
    BY <1>0, Finite, Types, ElementFacts, LimiterAssumption
  <1>2. ASSUME UNCHANGED <<forgotten, taken>>, Astray' \subseteq Astray
        PROVE  Owed'
    <2>1. Cardinality(Astray') <= A
      BY <1>1, <1>2, FS_Subset
    <2>2. T + A <= (N - 1) * (forgotten - T)
      BY DEF Owed
    <2>3. (N - 1) * (forgotten - T) \in Int
      BY <1>1
    <2>4. T + Cardinality(Astray') <= (N - 1) * (forgotten - T)
      <3> HIDE DEF N, T, A
      <3> DEFINE P == (N - 1) * (forgotten - T)
      <3>1. P \in Int /\ T + A <= P
        BY <2>2, <2>3
      <3> HIDE DEF P
      <3>2. T + Cardinality(Astray') <= P
        BY <1>1, <2>1, <3>1
      <3> QED BY <3>2 DEF P
    <2> QED BY <1>1, <1>2, <2>4 DEF Owed
  <1>3. CASE UNCHANGED vars \/ Tick
    <2>1. UNCHANGED <<q, pc, forgotten, taken>> /\ (clock' = clock \/ clock' = clock + 1)
      BY <1>3 DEF vars, Tick
    <2>2. Astray' \subseteq Astray
      BY <1>1, <2>1 DEF Astray, Current
    <2> QED BY <1>2, <2>1, <2>2
  <1>4. ASSUME NEW t \in Thread, Call(t) \/ While(t) \/ CheckLen(t) \/ Return(t)
        PROVE  Owed'
    <2>1. UNCHANGED <<q, clock, forgotten, taken>> /\ pc'[t] # "popleft"
      BY <1>4 DEF Call, While, CheckLen, Return, Goes, TypeOK
    <2>2. Astray' \subseteq Astray
      BY <1>4, <2>1, StepOfThread DEF Astray, Current, Step
    <2> QED BY <1>2, <2>1, <2>2
  <1>5. ASSUME NEW t \in Thread, PeekHead(t) PROVE Owed'
    <2>1. UNCHANGED <<q, clock, forgotten, taken, now>>
      BY <1>5 DEF PeekHead
    <2>2. pc'[t] = "popleft" => q # <<>> /\ ~Current(Head(q))
      <3>1. pc'[t] = "popleft" => q # <<>> /\ Expired(t)
        BY <1>5 DEF PeekHead, Goes, TypeOK
      <3>2. now[t] <= clock
        BY DEF Clocked
      <3> QED BY <1>1, <3>1, <3>2 DEF Expired, Current
    <2>3. Astray' \subseteq Astray
      BY <1>5, <2>1, <2>2, StepOfThread DEF Astray, Current, Step
    <2> QED BY <1>2, <2>1, <2>3
  <1>6. ASSUME NEW t \in Thread, Admit(t) PROVE Owed'
    <2>1. UNCHANGED <<clock, forgotten, taken>> /\ pc'[t] # "popleft"
      BY <1>6 DEF Admit, Goes, TypeOK
    <2>2. q # <<>> => q' # <<>> /\ Head(q') = Head(q)
      BY <1>6, Types DEF Admit
    <2>3. Astray' \subseteq Astray
      BY <1>6, <2>1, <2>2, StepOfThread DEF Astray, Current, Step
    <2> QED BY <1>2, <2>1, <2>3
  <1>7. ASSUME NEW t \in Thread, PopLeft(t), q = <<>> PROVE Owed'
    <2>1. UNCHANGED <<q, clock, forgotten, taken>> /\ pc'[t] # "popleft"
      BY <1>7 DEF PopLeft, Goes, TypeOK
    <2>2. Astray' \subseteq Astray
      BY <1>7, <2>1, StepOfThread DEF Astray, Current, Step
    <2> QED BY <1>2, <2>1, <2>2
  <1>8. ASSUME NEW t \in Thread, PopLeft(t), q # <<>>, Current(Head(q)) PROVE Owed'
    <2>1. /\ clock' = clock /\ forgotten' = forgotten + 1 /\ taken' = taken \cup {forgotten + 1}
          /\ pc[t] = "popleft" /\ pc'[t] # "popleft"
      BY <1>8 DEF PopLeft, Goes, TypeOK
    <2>2. t \in Astray /\ t \notin Astray'
      BY <1>8, <2>1 DEF Astray
    <2>3. Astray' \subseteq Astray \ {t}
      BY <1>8, <2>1, <2>2, StepOfThread DEF Astray, Step
    <2>4. Cardinality(Astray') <= A - 1
      <3>1. IsFiniteSet(Astray \ {t}) /\ Cardinality(Astray \ {t}) = A - 1
        BY <1>1, <2>2, FS_RemoveElement
      <3> QED BY <2>3, <3>1, FS_Subset
    <2>5. Cardinality(taken') = T + 1
      <3>1. forgotten + 1 \notin taken
        BY <1>1 DEF TypeOK
      <3> QED BY <1>1, <2>1, <3>1, FS_AddElement
    <2>6. forgotten' - Cardinality(taken') = forgotten - T
      BY <1>1, <2>1, <2>5
    <2>7. Cardinality(taken') + Cardinality(Astray') <= (N - 1) * (forgotten - T)
      <3>1. T + A <= (N - 1) * (forgotten - T) /\ (N - 1) * (forgotten - T) \in Int
        BY <1>1 DEF Owed
      <3> DEFINE P == (N - 1) * (forgotten - T)
      <3>2. T + A <= P /\ P \in Int
        BY <3>1
      <3> HIDE DEF N, T, A, P
      <3>3. Cardinality(taken') + Cardinality(Astray') <= P
        BY <1>1, <2>4, <2>5, <3>2
      <3> QED BY <3>3 DEF P
    <2> QED BY <1>1, <2>6, <2>7 DEF Owed
  <1>9. ASSUME NEW t \in Thread, PopLeft(t), q # <<>>, ~Current(Head(q)) PROVE Owed'
    <2>1. /\ clock' = clock /\ forgotten' = forgotten + 1 /\ taken' = taken
          /\ pc[t] = "popleft" /\ pc'[t] # "popleft"
      BY <1>9 DEF PopLeft, Goes, TypeOK
    <2>2. A = 0
      <3>1. Astray = {}
        BY <1>9 DEF Astray
      <3> QED BY <3>1, FS_EmptySet
    <2>3. Cardinality(Astray') <= N - 1
      <3>1. Astray' \subseteq Thread \ {t}
        BY <2>1 DEF Astray
      <3>2. IsFiniteSet(Thread \ {t}) /\ Cardinality(Thread \ {t}) = N - 1
        BY <1>9, LimiterAssumption, FS_RemoveElement
      <3> QED BY <3>1, <3>2, FS_Subset
    <2>4. T <= (N - 1) * (forgotten - T)
      <3>1. T + A <= (N - 1) * (forgotten - T)
        BY DEF Owed
      <3> QED BY <1>1, <2>2, <3>1
    <2>5. (N - 1) * ((forgotten + 1) - T) = (N - 1) * (forgotten - T) + (N - 1)
      <3> HIDE DEF N, T
      <3>1. N - 1 \in Int /\ forgotten - T \in Int /\ (forgotten + 1) - T = (forgotten - T) + 1
        BY <1>1
      <3>2. \A a, b \in Int : a * (b + 1) = a * b + a
        OBVIOUS
      <3> QED BY <3>1, <3>2
    <2>6. T + Cardinality(Astray') <= (N - 1) * ((forgotten + 1) - T)
      <3> DEFINE P == (N - 1) * (forgotten - T)
      <3>1. P \in Int /\ T <= P /\ (N - 1) * ((forgotten + 1) - T) = P + (N - 1)
        BY <1>1, <2>4, <2>5
      <3> HIDE DEF N, T, P
      <3> QED BY <1>1, <2>3, <3>1
    <2> QED BY <1>1, <2>1, <2>6 DEF Owed
  <1> QED BY <1>3, <1>4, <1>5, <1>6, <1>7, <1>8, <1>9 DEF Next

(* What was made in the window and was not taken is still in q.            *)
LEMMA OverFollows ==
    ASSUME TypeOK, Left, Expiry, RoomForAll
    PROVE  OverByThreads
  <1> DEFINE Kept == (forgotten + 1)..Len(log)
  <1>1. /\ Len(q) \in Nat /\ Len(log) \in Nat /\ DOMAIN log = 1..Len(log)
        /\ forgotten \in Nat /\ Len(q) + forgotten = Len(log) /\ max_events \in Nat
    BY Types, ElementFacts, LimiterAssumption DEF Left
  <1>2. InWindow \ taken \subseteq Kept
    BY <1>1 DEF InWindow, Expiry
  <1>3. IsFiniteSet(Kept) /\ Cardinality(Kept) = Len(q)
    <2>1. forgotten + 1 \in Int /\ Len(log) \in Int
      BY <1>1
    <2>2. IsFiniteSet(Kept)
          /\ Cardinality(Kept) =
                 IF forgotten + 1 > Len(log) THEN 0 ELSE Len(log) - (forgotten + 1) + 1
      BY <2>1, FS_Interval
    <2> QED BY <1>1, <2>2
  <1>4. Cardinality(InWindow \ taken) <= Len(q) /\ Cardinality(InWindow \ taken) \in Nat
    BY <1>2, <1>3, FS_Subset, FS_CardinalityType
  <1>5. Cardinality(Entering) \in Nat /\ Cardinality(Thread) \in Nat
    <2>1. Entering \subseteq Thread
      BY DEF Entering
    <2> QED BY <2>1, LimiterAssumption, FS_Subset, FS_CardinalityType
  <1>6. Len(q) + Cardinality(Entering) < max_events + Cardinality(Thread)
    BY DEF RoomForAll
  <1> QED BY <1>1, <1>4, <1>5, <1>6 DEF OverByThreads
-----------------------------------------------------------------------------
(* Without overlap.                                                        *)

(* Nobody is in allow() when a call begins, and nobody else takes a step   *)
(* before it ends.                                                         *)
LEMMA AloneStep ==
    ASSUME TypeOK, [Next]_vars, ~overlapped', Serial
    PROVE  /\ ~overlapped /\ Alone'
           /\ \A t \in Thread : Call(t) => \A r \in Thread : pc[r] = "idle"
           /\ \A t \in Thread : pc[t] # "idle" =>
                 \A r \in Thread : r # t => pc[r] = "idle" /\ pc'[r] = "idle"
  <1>1. \A t \in Thread : Call(t) => \A r \in Thread : pc[r] = "idle"
    BY DEF Call
  <1>2. ~overlapped
    BY DEF Next, vars, Tick, Call, While, PeekHead, PopLeft, CheckLen, Admit, Return, TypeOK
  <1>3. Alone
    BY <1>2 DEF Serial
  <1>4. CASE UNCHANGED vars \/ Tick
    BY <1>1, <1>2, <1>3, <1>4 DEF vars, Tick, Alone
  <1>5. ASSUME NEW t \in Thread, Step(t)
        PROVE  /\ Alone'
               /\ \A r \in Thread : r # t => pc[r] = "idle" /\ pc'[r] = "idle"
    <2>1. CASE Call(t)
      BY <1>1, <1>5, <2>1, StepOfThread DEF Alone
    <2>2. CASE ~Call(t)
      <3>1. pc[t] # "idle"
        BY <1>5, <2>2 DEF Step, While, PeekHead, PopLeft, CheckLen, Admit, Return, Goes
      <3> QED BY <1>3, <1>5, <3>1, StepOfThread DEF Alone
    <2> QED BY <2>1, <2>2
  <1>6. ASSUME NEW t \in Thread, Step(t), NEW r \in Thread, pc[r] # "idle"
        PROVE  r = t
    BY <1>5, <1>6
  <1> QED BY <1>1, <1>2, <1>3, <1>4, <1>5, <1>6 DEF Next, Step

LEMMA SortedStep ==
    ASSUME TypeOK, Clocked, Serial, [Next]_vars, ~overlapped'
    PROVE  Sorted'
  <1>1. ~overlapped /\ Alone /\ Sorted
    BY AloneStep DEF Serial
  <1> USE DEF Sorted
  <1>2. /\ clock \in Nat /\ now \in [Thread -> Nat]
        /\ \A n \in DOMAIN log : /\ log[n].made \in Nat /\ log[n].entered \in Nat
                                 /\ log[n].made <= clock
    BY Types DEF Clocked
  <1>3. CASE UNCHANGED vars \/ Tick
    BY <1>1, <1>3 DEF vars, Tick
  <1>4. ASSUME NEW t \in Thread, Call(t) PROVE Sorted'
    <2>1. log' = log /\ now' = [now EXCEPT ![t] = clock]
      BY <1>4 DEF Call
    <2>2. \A r \in Thread : r # t => pc'[r] = "idle"
      BY <1>4, AloneStep, StepOfThread DEF Step
    <2> QED BY <1>1, <1>2, <2>1, <2>2
  <1>5. ASSUME NEW t \in Thread, While(t) \/ PeekHead(t) \/ PopLeft(t) \/ CheckLen(t)
        PROVE  Sorted'
    <2>1. log' = log /\ now' = now
      BY <1>5 DEF While, PeekHead, PopLeft, CheckLen
    <2>2. pc[t] # "idle" /\ \A r \in Thread : r # t => pc'[r] = "idle"
      BY <1>5, AloneStep DEF While, PeekHead, PopLeft, CheckLen, Goes
    <2> QED BY <1>1, <2>1, <2>2
  <1>6. ASSUME NEW t \in Thread, Return(t) \/ Admit(t)
        PROVE  \A r \in Thread : pc'[r] = "idle"
    <2>1. pc[t] # "idle" /\ pc'[t] = "idle"
      BY <1>6 DEF Return, Admit, Goes, TypeOK
    <2> QED BY <2>1, AloneStep
  <1>7. ASSUME NEW t \in Thread, Return(t) PROVE Sorted'
    BY <1>1, <1>6, <1>7 DEF Return
  <1>8. ASSUME NEW t \in Thread, Admit(t) PROVE Sorted'
    <2>1. /\ DOMAIN log' = DOMAIN log \cup {Len(log) + 1}
          /\ DOMAIN log = 1..Len(log) /\ Len(log) \in Nat
          /\ \A n \in DOMAIN log : log'[n] = log[n]
          /\ log'[Len(log) + 1].made = now[t]
      <3>1. [made |-> now[t], entered |-> clock] \in [made : Nat, entered : Nat]
        BY <1>2
      <3> QED BY <1>8, <3>1, AppendFacts, Types DEF Admit
    <2>2. \A n \in DOMAIN log : log[n].made <= now[t]
      BY <1>1, <1>8 DEF Admit, Goes
    <2>3. \A m, n \in DOMAIN log' : m <= n => log'[m].made <= log'[n].made
      BY <1>1, <1>2, <2>1, <2>2
    <2> QED BY <1>6, <1>8, <2>3
  <1> QED BY <1>3, <1>4, <1>5, <1>7, <1>8 DEF Next

LEMMA GoneStep ==
    ASSUME TypeOK, Clocked, Left, Serial, [Next]_vars, ~overlapped'
    PROVE  Gone'
  <1>1. ~overlapped /\ Alone /\ Left /\ Gone /\ StillSo
    BY AloneStep DEF Serial
  <1>2. /\ clock \in Nat /\ now \in [Thread -> Nat] /\ forgotten \in Nat
        /\ window_seconds \in Nat
        /\ Len(log) \in Nat /\ DOMAIN log = 1..Len(log)
        /\ Len(q) \in Nat /\ DOMAIN q = 1..Len(q)
        /\ \A n \in DOMAIN log : log[n].made \in Nat
    BY Types, ElementFacts, LimiterAssumption
  <1> USE DEF Gone
  <1>3. CASE UNCHANGED vars \/ Tick
    <2>1. UNCHANGED <<log, forgotten, now, pc>> /\ (clock' = clock \/ clock' = clock + 1)
      BY <1>3 DEF vars, Tick
    <2> QED BY <1>1, <1>2, <2>1
  <1>4. ASSUME NEW t \in Thread, Call(t) PROVE Gone'
    <2>1. UNCHANGED <<log, forgotten, clock>> /\ now' = [now EXCEPT ![t] = clock]
      BY <1>4 DEF Call
    <2>2. \A r \in Thread : r # t => pc'[r] = "idle"
      BY <1>4, AloneStep, StepOfThread DEF Step
    <2> QED BY <1>1, <1>2, <2>1, <2>2
  <1>5. ASSUME NEW t \in Thread, While(t) \/ PeekHead(t) \/ CheckLen(t) PROVE Gone'
    <2>1. UNCHANGED <<log, forgotten, clock, now>> /\ pc[t] # "idle"
      BY <1>5 DEF While, PeekHead, CheckLen, Goes
    <2>2. \A r \in Thread : r # t => pc'[r] = "idle"
      BY <2>1, AloneStep
    <2> QED BY <1>1, <2>1, <2>2
  <1>6. ASSUME NEW t \in Thread, PopLeft(t) PROVE Gone'
    <2>1. /\ pc[t] # "idle" /\ q # <<>> /\ now[t] - q[1] > window_seconds
          /\ 1 \in DOMAIN q
      <3>1. pc[t] = "popleft"
        BY <1>6 DEF PopLeft, Goes
      <3>2. q # <<>> /\ Expired(t)
        BY <1>1, <3>1 DEF StillSo
      <3> QED BY <3>1, <3>2, ElementFacts, Types DEF Expired
    <2>2. UNCHANGED <<log, clock, now>> /\ forgotten' = forgotten + 1
      BY <1>6, <2>1 DEF PopLeft
    <2>3. q[1] = log[forgotten + 1].made /\ forgotten + 1 \in DOMAIN log
      BY <1>1, <1>2, <2>1 DEF Left
    <2>4. now[t] <= clock
      BY DEF Clocked
    <2>5. \A r \in Thread : r # t => pc'[r] = "idle"
      BY <2>1, AloneStep
    <2>6. ASSUME NEW n \in DOMAIN log, n <= forgotten + 1
          PROVE  clock - log[n].made > window_seconds /\ now[t] - log[n].made > window_seconds
      <3>1. CASE n <= forgotten
        BY <1>1, <2>1, <3>1
      <3>2. CASE n = forgotten + 1
        <4>1. now[t] - log[n].made > window_seconds
          BY <2>1, <2>3, <3>2
        <4>2. now[t] \in Nat /\ log[n].made \in Nat
          BY <1>2
        <4> QED BY <1>2, <2>4, <4>1, <4>2
      <3> QED BY <1>2, <2>6, <3>1, <3>2
    <2> QED BY <2>2, <2>5, <2>6
  <1>7. ASSUME NEW t \in Thread, Return(t) \/ Admit(t) PROVE Gone'
    <2>1. /\ pc[t] # "idle" /\ pc'[t] = "idle"
          /\ UNCHANGED <<forgotten, clock>>
      BY <1>7 DEF Return, Admit, Goes, TypeOK
    <2>2. \A r \in Thread : pc'[r] = "idle"
      BY <2>1, AloneStep
    <2>3. \A n \in DOMAIN log' : n <= forgotten => n \in DOMAIN log /\ log'[n] = log[n]
      <3>1. CASE Return(t)
        BY <3>1 DEF Return
      <3>2. CASE Admit(t)
        <4>1. [made |-> now[t], entered |-> clock] \in [made : Nat, entered : Nat]
          BY <1>2
        <4>2. /\ DOMAIN log' = DOMAIN log \cup {Len(log) + 1}
              /\ \A n \in DOMAIN log : log'[n] = log[n]
          BY <3>2, <4>1, AppendFacts, Types DEF Admit
        <4>3. forgotten <= Len(log)
          BY <1>1, <1>2 DEF Left
        <4> QED BY <1>2, <4>2, <4>3
      <3> QED BY <1>7, <3>1, <3>2
    <2> QED BY <1>1, <2>1, <2>2, <2>3
  <1> QED BY <1>3, <1>4, <1>5, <1>6, <1>7 DEF Next

LEMMA StillSoStep ==
    ASSUME TypeOK, Serial, [Next]_vars, ~overlapped'
    PROVE  StillSo'
  <1>1. ~overlapped /\ StillSo
    BY AloneStep DEF Serial
  <1>2. CASE UNCHANGED vars \/ Tick
    BY <1>1, <1>2 DEF vars, Tick, StillSo, Expired, Full
  <1>3. ASSUME NEW t \in Thread, Step(t) PROVE StillSo'
    <2>1. \A r \in Thread : r # t => pc'[r] = "idle"
      <3>1. CASE Call(t)
        BY <1>3, <3>1, AloneStep, StepOfThread
      <3>2. CASE ~Call(t)
        <4>1. pc[t] # "idle"
          BY <1>3, <3>2 DEF Step, While, PeekHead, PopLeft, CheckLen, Admit, Return, Goes
        <4> QED BY <4>1, AloneStep
      <3> QED BY <3>1, <3>2
    <2>2. CASE Call(t) \/ Admit(t) \/ Return(t) \/ PopLeft(t)
      <3>1. pc'[t] \in {"while", "idle"}
        <4>1. PopLeft(t) => q # <<>>
          BY <1>1 DEF StillSo, PopLeft, Goes
        <4> QED BY <2>2, <4>1 DEF Call, Admit, Return, PopLeft, Goes, TypeOK
      <3> QED BY <2>1, <3>1 DEF StillSo
    <2>3. CASE While(t)
      <3>1. /\ UNCHANGED <<q, now>>
            /\ pc'[t] = IF q = <<>> THEN "len" ELSE "head"
        BY <2>3 DEF While, Goes, TypeOK
      <3> QED BY <2>1, <3>1 DEF StillSo
    <2>4. CASE PeekHead(t)
      <3>1. pc[t] = "head" /\ q # <<>>
        BY <1>1, <2>4 DEF PeekHead, Goes, StillSo
      <3>2. /\ UNCHANGED <<q, now>>
            /\ \/ Expired(t) /\ pc'[t] = "popleft"
               \/ ~Expired(t) /\ pc'[t] = "len"
        BY <2>4, <3>1 DEF PeekHead, Goes, TypeOK
      <3>3. Expired(t)' <=> Expired(t)
        BY <3>2 DEF Expired
      <3> QED BY <2>1, <3>1, <3>2, <3>3 DEF StillSo
    <2>5. CASE CheckLen(t)
      <3>1. pc[t] = "len" /\ (q = <<>> \/ ~Expired(t))
        BY <1>1, <2>5 DEF CheckLen, Goes, StillSo
      <3>2. /\ UNCHANGED <<q, now>>
            /\ pc'[t] = IF Full THEN "refused" ELSE "append"
        BY <2>5 DEF CheckLen, Goes, TypeOK
      <3>3. (Expired(t)' <=> Expired(t)) /\ (Full' <=> Full)
        BY <3>2 DEF Expired, Full
      <3> QED BY <2>1, <3>1, <3>2, <3>3 DEF StillSo
    <2> QED BY <1>3, <2>2, <2>3, <2>4, <2>5 DEF Step
  <1> QED BY <1>2, <1>3 DEF Next, Step
-----------------------------------------------------------------------------
(* The limit: an admitted call finds fewer than max_events entries left,   *)
(* so the one max_events before it is gone, and has expired; a refused one *)
(* finds as many, of which the first, and so every later one, has not.     *)
Spaced == \A n \in DOMAIN log : n > max_events =>
              log[n].made - log[n - max_events].made > window_seconds

LEMMA SpacedStep ==
    ASSUME TypeOK, Left, Serial, Spaced, [Next]_vars, ~overlapped'
    PROVE  Spaced'
  <1>1. ~overlapped /\ Left /\ Gone /\ StillSo
    BY AloneStep DEF Serial
  <1>2. CASE UNCHANGED log
    BY <1>2 DEF Spaced
  <1>3. ASSUME NEW t \in Thread, Admit(t) PROVE Spaced'
    <2>1. /\ Len(log) \in Nat /\ DOMAIN log = 1..Len(log)
          /\ max_events \in Nat \ {0} /\ Len(q) \in Nat /\ forgotten \in Nat
      BY Types, ElementFacts, LimiterAssumption
    <2>2. /\ DOMAIN log' = DOMAIN log \cup {Len(log) + 1}
          /\ \A n \in DOMAIN log : log'[n] = log[n]
          /\ log'[Len(log) + 1].made = now[t]
      <3>1. [made |-> now[t], entered |-> clock] \in [made : Nat, entered : Nat]
        BY Types
      <3> QED BY <1>3, <3>1, AppendFacts, Types DEF Admit
    <2>3. pc[t] = "append" /\ Len(q) < max_events
      BY <1>1, <1>3, <2>1 DEF Admit, Goes, StillSo, Full
    <2>4. SUFFICES ASSUME NEW n \in DOMAIN log', n > max_events
                   PROVE  log'[n].made - log'[n - max_events].made > window_seconds
      BY DEF Spaced
    <2>5. n \in Nat /\ n - max_events \in DOMAIN log
      BY <2>1, <2>2, <2>4
    <2>6. CASE n \in DOMAIN log
      BY <2>2, <2>4, <2>5, <2>6 DEF Spaced
    <2>7. CASE n = Len(log) + 1
      <3>1. n - max_events <= forgotten
        BY <1>1, <2>1, <2>3, <2>7 DEF Left
      <3>2. now[t] - log[n - max_events].made > window_seconds
        BY <1>1, <2>3, <2>5, <3>1 DEF Gone
      <3> QED BY <2>2, <2>5, <2>7, <3>2
    <2> QED BY <2>2, <2>4, <2>6, <2>7
  <1> QED BY <1>2, <1>3
          DEF Next, vars, Tick, Call, While, PeekHead, PopLeft, CheckLen, Return

LEMMA LimitFollows ==
    ASSUME TypeOK, Left, Serial, ~overlapped => Spaced
    PROVE  LimitKept
  <1>1. SUFFICES ASSUME ~overlapped
                 PROVE  /\ \A t \in Thread : pc[t] = "refused" =>
                              /\ Len(log) >= max_events
                              /\ now[t] - log[Len(log) - max_events + 1].made <= window_seconds
                        /\ \A t \in Thread : pc[t] # "IndexError"
    BY DEF LimitKept, Spaced
  <1>2. Left /\ Sorted /\ StillSo
    BY <1>1 DEF Serial
  <1>3. /\ Len(log) \in Nat /\ DOMAIN log = 1..Len(log)
        /\ Len(q) \in Nat /\ DOMAIN q = 1..Len(q) /\ forgotten \in Nat
        /\ max_events \in Nat \ {0} /\ window_seconds \in Nat
        /\ now \in [Thread -> Nat]
        /\ \A n \in DOMAIN log : log[n].made \in Nat
        /\ q # <<>> => Head(q) = q[1]
    BY Types, ElementFacts, LimiterAssumption
  <1>4. ASSUME NEW t \in Thread, pc[t] = "refused"
        PROVE  /\ Len(log) >= max_events
               /\ now[t] - log[Len(log) - max_events + 1].made <= window_seconds
    <2>1. Len(q) >= max_events /\ q # <<>> /\ ~Expired(t)
      BY <1>2, <1>3, <1>4 DEF StillSo, Full
    <2>2. ~(now[t] - q[1] > window_seconds) /\ q[1] = log[forgotten + 1].made
      BY <1>2, <1>3, <2>1 DEF Expired, Left
    <2> DEFINE n == Len(log) - max_events + 1
    <2>3. /\ forgotten + 1 \in DOMAIN log /\ n \in DOMAIN log /\ forgotten + 1 <= n
          /\ Len(log) >= max_events
      BY <1>2, <1>3, <2>1 DEF Left
    <2>4. log[forgotten + 1].made <= log[n].made
      BY <1>2, <2>3 DEF Sorted
    <2>5. /\ log[n].made \in Nat /\ log[forgotten + 1].made \in Nat
          /\ now[t] \in Nat
      BY <1>3, <2>3
    <2>6. now[t] - log[n].made <= window_seconds
      <3> HIDE DEF n
      <3> QED BY <1>3, <2>2, <2>4, <2>5
    <2> QED BY <2>3, <2>6
  <1> QED BY <1>1, <1>2, <1>4 DEF StillSo
-----------------------------------------------------------------------------
(* The inductive invariant.                                                *)
Inv == /\ TypeOK /\ Clocked /\ LooksForCause /\ RefusedForCause
       /\ Left /\ RoomForAll /\ Expiry /\ Owed
       /\ Serial /\ (~overlapped => Spaced)

LEMMA InvInit == Init => Inv
  <1> SUFFICES ASSUME Init PROVE Inv
    OBVIOUS
  <1> USE DEF Init
  <1>1. TypeOK
    <2>1. q \in Seq(Nat) /\ log \in Seq([made : Nat, entered : Nat])
      <3>1. \A S : <<>> \in Seq(S)
        OBVIOUS
      <3> QED BY <3>1, Zenon
    <2>2. pc \in [Thread -> Places] /\ now \in [Thread -> Nat]
      BY DEF Places
    <2> QED BY <2>1, <2>2, Zenon DEF TypeOK
  <1>2. Clocked /\ LooksForCause /\ RefusedForCause
    BY DEF Clocked, LooksForCause, RefusedForCause
  <1>3. RoomForAll
    <2>1. Entering = {}
      BY DEF Entering
    <2>2. /\ Cardinality(Entering) = 0 /\ Cardinality(Thread) \in Nat
          /\ max_events \in Nat \ {0}
      BY <2>1, FS_EmptySet, FS_CardinalityType, LimiterAssumption
    <2>3. Len(q) = 0
      OBVIOUS
    <2>4. 0 + 0 < max_events + Cardinality(Thread)
      BY <2>2
    <2> QED BY ONLY <2>2, <2>3, <2>4 DEF RoomForAll
  <1>4. Serial
    BY DEF Serial, Alone, Sorted, Gone, StillSo
  <1>5. Spaced
    BY DEF Spaced
  <1>6. Left /\ Expiry /\ Owed
    <2>1. Left /\ Expiry
      BY DEF Left, Expiry
    <2>2. Astray = {} /\ taken = {} /\ forgotten = 0
      BY DEF Astray
    <2>3. Cardinality(taken) = 0 /\ Cardinality(Astray) = 0
      BY <2>2, FS_EmptySet
    <2>4. Cardinality(Thread) - 1 \in Int
      BY LimiterAssumption, FS_CardinalityType
    <2>5. (Cardinality(Thread) - 1) * (forgotten - Cardinality(taken)) = 0
      BY <2>2, <2>3, <2>4
    <2> QED BY <2>1, <2>2, <2>3, <2>5 DEF Owed
  <1> QED BY <1>1, <1>2, <1>3, <1>4, <1>5, <1>6 DEF Inv

LEMMA InvStep == Inv /\ [Next]_vars => Inv'
  <1> SUFFICES ASSUME Inv, [Next]_vars PROVE Inv'
    OBVIOUS
  <1>0. /\ TypeOK /\ Clocked /\ LooksForCause /\ RefusedForCause
        /\ Left /\ RoomForAll /\ Expiry /\ Owed
        /\ Serial /\ (~overlapped => Spaced)
    BY DEF Inv
  <1>1. TypeOK' /\ Clocked' /\ LooksForCause' /\ RefusedForCause'
    BY <1>0, TypeStep, ClockedStep, CauseStep
  <1>4. Left' /\ RoomForAll' /\ Expiry' /\ Owed'
    BY <1>0, <1>1, LeftStep, RoomStep, ExpiryStep, OwedStep
  <1>2. Serial'
    BY <1>0, AloneStep, SortedStep, GoneStep, StillSoStep DEF Serial
  <1>3. ~overlapped' => Spaced'
    BY <1>0, AloneStep, SpacedStep
  <1> QED BY <1>1, <1>2, <1>3, <1>4 DEF Inv

LEMMA Invariance == Spec => []Inv
  BY InvInit, InvStep, PTL DEF Spec

(* The variables keep their types.                                         *)
THEOREM LimiterTypeCorrect == Spec => []TypeOK
  BY Invariance, PTL DEF Inv

(* While calls do not overlap, as in the websocket tasks, allow() admits   *)
(* exactly the calls the limit leaves room for, in every window.           *)
THEOREM LimitKeptTheorem == Spec => []LimitKept
  <1>1. Inv => LimitKept
    BY LimitFollows DEF Inv
  <1> QED BY <1>1, Invariance, PTL

(* However many threads race in allow(), the calls admitted in a window    *)
(* are fewer than the limit and one for each thread, those apart whose     *)
(* entries another's popleft() took before they expired, of which there    *)
(* are no more than one for each other thread and entry that expired; and  *)
(* nobody is refused unless somebody was admitted during the window.       *)
THEOREM RacesTheorem == Spec => []Races
  <1>1. Inv => OverByThreads
    BY OverFollows DEF Inv
  <1>2. Inv => TakenForExpired
    <2> SUFFICES ASSUME Inv PROVE TakenForExpired
      OBVIOUS
    <2>1. /\ Cardinality(taken) \in Nat /\ Cardinality(Astray) \in Nat /\ forgotten \in Nat
          /\ Cardinality(Thread) \in Nat
      BY Finite DEF Inv, TypeOK
    <2> DEFINE P == (Cardinality(Thread) - 1) * (forgotten - Cardinality(taken))
    <2>2. P \in Int /\ Cardinality(taken) + Cardinality(Astray) <= P
      BY <2>1 DEF Inv, Owed
    <2> HIDE DEF P
    <2>3. Cardinality(taken) <= P
      BY <2>1, <2>2
    <2> QED BY <2>3 DEF P, TakenForExpired
  <1>3. Inv => RefusedForCause
    BY DEF Inv
  <1>4. Inv => Races
    BY <1>1, <1>2, <1>3 DEF Races
  <1> QED BY <1>4, Invariance, PTL
=============================================================================
