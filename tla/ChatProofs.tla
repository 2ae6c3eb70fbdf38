----------------------------- MODULE ChatProofs -----------------------------
(* Proofs about Chat, for any sessions and any counter width.              *)
EXTENDS Chat, SequenceTheorems, TLAPS

(* A client starts with an empty table and fresh counters.                 *)
LEMMA InitType == Init => TypeOK
  BY DEF Init, TypeOK

(* Every step of the shell and of the event loop keeps the types.          *)
LEMMA TypeStep == TypeOK /\ [Next]_vars => TypeOK'
  <1> SUFFICES ASSUME TypeOK, [Next]_vars PROVE TypeOK'
    OBVIOUS
  <1> USE DEF TypeOK, registry
  <1>1. ASSUME NEW u \in User, NEW s \in Session, Store(u, s) PROVE TypeOK'
    BY <1>1 DEF Store
  <1>2. ASSUME NEW u \in User, Drop(u) PROVE TypeOK'
    BY <1>2 DEF Drop
  <1>3. ASSUME NEW u \in User, TakeSession(u) PROVE TypeOK'
    BY <1>3 DEF TakeSession
  <1>4. ASSUME NEW u \in User, EncryptOutgoing(u) PROVE TypeOK'
    <2> DEFINE s == drafting[u]
               n == sendCounter[u][s] + 1
    <2>1. s \in Session /\ n \in Nat
      BY <1>4 DEF EncryptOutgoing
    <2>2. /\ sendCounter' \in [User -> [Session -> Nat]]
          /\ written' \in [User -> [Session -> Nat]]
      BY <1>4, <2>1 DEF EncryptOutgoing
    <2>3. frames' \in SUBSET Frame
      BY <1>4, <2>1, <2>2 DEF EncryptOutgoing, Emit, Frame
    <2> QED
      BY <1>4, <2>2, <2>3 DEF EncryptOutgoing
  <1>5. ASSUME NEW u \in User, EncryptFails(u) PROVE TypeOK'
    BY <1>5 DEF EncryptFails
  <1>6. ASSUME NEW u \in User, NEW f \in frames, DecryptIncoming(u, f) PROVE TypeOK'
    <2>1. f \in Frame
      OBVIOUS
    <2>2. Append(shown[u][f.session], f.line) \in Seq(Nat)
      BY <2>1, AppendProperties DEF Frame
    <2> QED
      BY <1>6, <2>1, <2>2 DEF DecryptIncoming, Frame
  <1>7. CASE UNCHANGED vars
    BY <1>7 DEF vars
  <1> QED
    BY <1>1, <1>2, <1>3, <1>4, <1>5, <1>6, <1>7 DEF Next

(* Nothing was sent, written or shown in the beginning.                    *)
LEMMA InitInStep == Init => InStep
  BY CounterAssumption DEF Init, InStep
-----------------------------------------------------------------------------
(* InStep taken apart: the counters of the sender, ...                     *)
SendersInStep ==
    \A u \in User, s \in Session :
        /\ written[u][s] <= sendCounter[u][s]
        /\ sendCounter[u][s] <= CounterLimit + 1

(* ... each frame, ...                                                     *)
FramesInStep ==
    \A f \in frames : /\ f.line \in 1..written[f.from][f.session]
                      /\ f.counter \in 1..sendCounter[f.from][f.session]

(* ... two frames, ...                                                     *)
OrderInStep ==
    \A f, g \in frames :
        f.from = g.from /\ f.session = g.session =>
            (f.counter < g.counter <=> f.line < g.line)

(* ... and the reader.                                                     *)
ReadersInStep ==
    \A u \in User, s \in Session :
        \A i \in DOMAIN shown[u][s] :
            \E f \in frames : /\ f.from # u /\ f.session = s
                              /\ f.line = shown[u][s][i]
                              /\ f.counter <= recvCounter[u][s]

(* A sender's counter counts its lines, and may run ahead of them.         *)
LEMMA SendersStep == TypeOK /\ SendersInStep /\ [Next]_vars => SendersInStep'
  <1> SUFFICES ASSUME TypeOK, SendersInStep, [Next]_vars PROVE SendersInStep'
    OBVIOUS
  <1> USE DEF TypeOK, SendersInStep
  <1>1. ASSUME NEW u \in User, EncryptOutgoing(u) PROVE SendersInStep'
    BY <1>1, CounterAssumption DEF EncryptOutgoing
  <1>2. ASSUME NEW u \in User, EncryptFails(u) PROVE SendersInStep'
    BY <1>2, CounterAssumption DEF EncryptFails
  <1>3. CASE UNCHANGED <<sendCounter, written>>
    BY <1>3
  <1> QED
    BY <1>1, <1>2, <1>3
    DEF Next, Store, Drop, TakeSession, DecryptIncoming, vars, registry

(* Counters and lines only grow.                                           *)
LEMMA NothingTakenBack ==
  ASSUME TypeOK, [Next]_vars, NEW u \in User, NEW s \in Session
  PROVE  written[u][s] <= written'[u][s] /\ sendCounter[u][s] <= sendCounter'[u][s]
  <1> USE DEF TypeOK
  <1>1. ASSUME NEW v \in User, EncryptOutgoing(v)
        PROVE  written[u][s] <= written'[u][s] /\ sendCounter[u][s] <= sendCounter'[u][s]
    BY <1>1 DEF EncryptOutgoing
  <1>2. ASSUME NEW v \in User, EncryptFails(v)
        PROVE  written[u][s] <= written'[u][s] /\ sendCounter[u][s] <= sendCounter'[u][s]
    BY <1>2 DEF EncryptFails
  <1>3. CASE UNCHANGED <<sendCounter, written>>
    BY <1>3
  <1> QED
    BY <1>1, <1>2, <1>3
    DEF Next, Store, Drop, TakeSession, DecryptIncoming, vars, registry

(* A frame has the next counter of its sender and the next line.           *)
LEMMA NewFrame ==
  ASSUME TypeOK, NEW u \in User, EncryptOutgoing(u)
  PROVE  \E new \in Frame :
            /\ frames' = frames \cup {new} /\ new.from = u
            /\ new.counter = sendCounter[u][new.session] + 1
            /\ new.counter = sendCounter'[u][new.session]
            /\ new.line = written[u][new.session] + 1
            /\ new.line = written'[u][new.session]
  <1> DEFINE s == drafting[u]
             n == sendCounter[u][s] + 1
             new == [from |-> u, session |-> s, counter |-> n, line |-> written'[u][s]]
  <1>1. /\ s \in Session /\ n \in Nat
        /\ sendCounter' = [sendCounter EXCEPT ![u][s] = n]
        /\ written' = [written EXCEPT ![u][s] = @ + 1]
        /\ frames' = frames \cup {new}
    BY DEF EncryptOutgoing, Emit, TypeOK
  <1>2. written'[u][s] = written[u][s] + 1 /\ sendCounter'[u][s] = n /\ written[u][s] \in Nat
    BY <1>1 DEF TypeOK
  <1>3. /\ new \in Frame /\ new.from = u /\ new.session = s
        /\ new.counter = n /\ new.line = written'[u][s]
    BY <1>1, <1>2 DEF Frame
  <1> HIDE DEF new, s, n
  <1>4. n = sendCounter[u][s] + 1
    BY DEF n
  <1> QED BY <1>1, <1>2, <1>3, <1>4

(* No frame is ahead of its sender.                                        *)
LEMMA FramesStep == TypeOK /\ FramesInStep /\ [Next]_vars => FramesInStep'
  <1> SUFFICES ASSUME TypeOK, FramesInStep, [Next]_vars PROVE FramesInStep'
    OBVIOUS
  <1>1. TypeOK'
    BY TypeStep
  <1>2. ASSUME NEW f \in frames
        PROVE  /\ f.line \in 1..written'[f.from][f.session]
               /\ f.counter \in 1..sendCounter'[f.from][f.session]
    <2>1. f.from \in User /\ f.session \in Session
      BY DEF TypeOK, Frame
    <2>2. /\ written[f.from][f.session] <= written'[f.from][f.session]
          /\ sendCounter[f.from][f.session] <= sendCounter'[f.from][f.session]
      BY <2>1, NothingTakenBack
    <2>3. /\ written[f.from][f.session] \in Nat /\ written'[f.from][f.session] \in Nat
          /\ sendCounter[f.from][f.session] \in Nat /\ sendCounter'[f.from][f.session] \in Nat
      BY <1>1, <2>1 DEF TypeOK
    <2> QED BY <2>2, <2>3 DEF FramesInStep
  <1>3. ASSUME NEW u \in User, EncryptOutgoing(u) PROVE FramesInStep'
    <2>1. PICK new \in Frame :
            /\ frames' = frames \cup {new} /\ new.from = u
            /\ new.counter = sendCounter[u][new.session] + 1
            /\ new.counter = sendCounter'[u][new.session]
            /\ new.line = written[u][new.session] + 1
            /\ new.line = written'[u][new.session]
      BY <1>3, NewFrame
    <2>2. written[u][new.session] \in Nat /\ sendCounter[u][new.session] \in Nat
      BY DEF TypeOK, Frame
    <2> QED BY <1>2, <2>1, <2>2 DEF FramesInStep
  <1>4. CASE UNCHANGED frames
    BY <1>2, <1>4 DEF FramesInStep
  <1> QED
    BY <1>3, <1>4
    DEF Next, Store, Drop, TakeSession, EncryptFails, DecryptIncoming, vars, registry

(* A new frame comes after every other of its sender, by counter and line. *)
LEMMA OrderStep ==
  TypeOK /\ FramesInStep /\ OrderInStep /\ [Next]_vars => OrderInStep'
  <1> SUFFICES ASSUME TypeOK, FramesInStep, OrderInStep, [Next]_vars PROVE OrderInStep'
    OBVIOUS
  <1>1. ASSUME NEW u \in User, EncryptOutgoing(u) PROVE OrderInStep'
    <2>1. PICK new \in Frame :
            /\ frames' = frames \cup {new} /\ new.from = u
            /\ new.counter = sendCounter[u][new.session] + 1
            /\ new.line = written[u][new.session] + 1
      BY <1>1, NewFrame
    <2>2. ASSUME NEW f \in frames, f.from = new.from, f.session = new.session
          PROVE  f.counter < new.counter /\ f.line < new.line
      <3>1. /\ f.line \in 1..written[u][f.session] /\ f.counter \in 1..sendCounter[u][f.session]
            /\ written[u][f.session] \in Nat /\ sendCounter[u][f.session] \in Nat
        BY <2>1, <2>2 DEF FramesInStep, TypeOK, Frame
      <3> QED BY <2>1, <2>2, <3>1
    <2>3. \A f \in frames \cup {new} : f.counter \in Nat /\ f.line \in Nat
      BY DEF TypeOK, Frame
    <2>4. ASSUME NEW f \in frames \cup {new}, NEW g \in frames \cup {new},
                 f.from = g.from, f.session = g.session
          PROVE  f.counter < g.counter <=> f.line < g.line
      <3>1. CASE f \in frames /\ g \in frames
        BY <2>4, <3>1 DEF OrderInStep
      <3>2. CASE f = new \/ g = new
        BY <2>2, <2>3, <2>4, <3>2
      <3> QED BY <3>1, <3>2
    <2> QED BY <2>1, <2>4 DEF OrderInStep
  <1>2. CASE UNCHANGED frames
    BY <1>2 DEF OrderInStep
  <1> QED
    BY <1>1, <1>2
    DEF Next, Store, Drop, TakeSession, EncryptFails, DecryptIncoming, vars, registry

(* What was shown had come in a frame not above the counter of the reader. *)
LEMMA ReadersStep == TypeOK /\ ReadersInStep /\ [Next]_vars => ReadersInStep'
  <1> SUFFICES ASSUME TypeOK, ReadersInStep, [Next]_vars PROVE ReadersInStep'
    OBVIOUS
  <1>1. ASSUME NEW u \in User, NEW f \in frames, DecryptIncoming(u, f)
        PROVE  ReadersInStep'
    <2> DEFINE old == shown[u][f.session]
    <2>1. f.from \in User /\ f.session \in Session /\ f.line \in Nat /\ f.counter \in Nat
      BY DEF TypeOK, Frame
    <2>2. old \in Seq(Nat) /\ recvCounter[u][f.session] \in Int
      BY <2>1 DEF TypeOK
    <2>3. /\ shown' = [shown EXCEPT ![u][f.session] = Append(old, f.line)]
          /\ recvCounter' = [recvCounter EXCEPT ![u][f.session] = f.counter]
          /\ f.counter > recvCounter[u][f.session]
          /\ f.from # u /\ frames' = frames
      BY <1>1 DEF DecryptIncoming
    <2>4. ASSUME NEW i \in DOMAIN Append(old, f.line)
          PROVE  \E g \in frames : /\ g.from # u /\ g.session = f.session
                                   /\ g.line = Append(old, f.line)[i]
                                   /\ g.counter <= f.counter
      <3>1. i \in 1..Len(old) + 1 /\ Len(old) \in Nat
        BY <2>1, <2>2, AppendProperties
      <3>2. CASE i = Len(old) + 1
        BY <2>1, <2>2, <2>3, <3>2, AppendProperties
      <3>3. CASE i \in 1..Len(old)
        <4>1. i \in DOMAIN old /\ Append(old, f.line)[i] = old[i]
          BY <2>1, <2>2, <3>3, AppendProperties
        <4>2. PICK g \in frames : /\ g.from # u /\ g.session = f.session
                                  /\ g.line = old[i]
                                  /\ g.counter <= recvCounter[u][f.session]
          BY <2>1, <4>1 DEF ReadersInStep
        <4>3. g.counter \in Nat
          BY DEF TypeOK, Frame
        <4> QED
          BY <2>1, <2>2, <2>3, <4>1, <4>2, <4>3
      <3> QED
        BY <3>1, <3>2, <3>3
    <2> HIDE DEF old
    <2>5. ASSUME NEW v \in User, NEW s \in Session, NEW i \in DOMAIN shown'[v][s]
          PROVE  \E g \in frames : /\ g.from # v /\ g.session = s
                                   /\ g.line = shown'[v][s][i]
                                   /\ g.counter <= recvCounter'[v][s]
      <3>1. CASE v = u /\ s = f.session
        <4>1. shown'[v][s] = Append(old, f.line) /\ recvCounter'[v][s] = f.counter
          BY <2>1, <2>3, <3>1 DEF TypeOK
        <4> QED BY <2>4, <3>1, <4>1
      <3>2. CASE ~(v = u /\ s = f.session)
        <4>1. shown'[v][s] = shown[v][s] /\ recvCounter'[v][s] = recvCounter[v][s]
          BY <2>1, <2>3, <3>2 DEF TypeOK
        <4> QED
          BY <4>1 DEF ReadersInStep
      <3> QED
        BY <3>1, <3>2
    <2> QED
      BY <2>3, <2>5 DEF ReadersInStep
  <1>2. CASE frames \subseteq frames' /\ UNCHANGED <<recvCounter, shown>>
    BY <1>2 DEF ReadersInStep
  <1> QED
    BY <1>1, <1>2
    DEF Next, Store, Drop, TakeSession, EncryptOutgoing, Emit, EncryptFails, vars, registry

(* The four together.                                                      *)
LEMMA InStepStep == TypeOK /\ InStep /\ [Next]_vars => InStep'
  <1>1. InStep <=> SendersInStep /\ FramesInStep /\ OrderInStep /\ ReadersInStep
    BY DEF InStep, SendersInStep, FramesInStep, OrderInStep, ReadersInStep
  <1>2. InStep' <=> SendersInStep' /\ FramesInStep' /\ OrderInStep' /\ ReadersInStep'
    BY DEF InStep, SendersInStep, FramesInStep, OrderInStep, ReadersInStep
  <1> QED
    BY <1>1, <1>2, SendersStep, FramesStep, OrderStep, ReadersStep
-----------------------------------------------------------------------------
(* The empty tables are an idle channel.                                   *)
LEMMA InitMaps == Init => C!AInit
  BY DEF Init, C!AInit

(* Every step of a client is one of the channel, or changes nothing there. *)
LEMMA StepMaps == TypeOK /\ InStep /\ [Next]_vars => [C!ANext]_(C!avars)
  <1> SUFFICES ASSUME TypeOK, InStep, [Next]_vars PROVE [C!ANext]_(C!avars)
    OBVIOUS
  <1>1. ASSUME NEW u \in User, EncryptOutgoing(u) PROVE C!ANext
    <2>1. drafting[u] \in Session
      BY <1>1 DEF EncryptOutgoing, TypeOK
    <2>2. C!Write(u, drafting[u])
      BY <1>1 DEF EncryptOutgoing, C!Write
    <2> QED
      BY <2>1, <2>2 DEF C!ANext
  <1>2. ASSUME NEW u \in User, NEW f \in frames, DecryptIncoming(u, f) PROVE C!ANext
    <2>1. /\ f.from \in User /\ f.session \in Session
          /\ f.from # u
          /\ f.line \in 1..written[f.from][f.session]
          /\ f.counter > recvCounter[u][f.session]
      BY <1>2 DEF TypeOK, Frame, InStep, DecryptIncoming
    <2>2. ASSUME NEW i \in DOMAIN shown[u][f.session]
          PROVE  shown[u][f.session][i] < f.line
      <3>1. PICK g \in frames : /\ g.from # u /\ g.session = f.session
                                /\ g.line = shown[u][f.session][i]
                                /\ g.counter <= recvCounter[u][f.session]
        BY <2>1 DEF InStep
      <3>2. g.from = f.from
        BY <2>1, <3>1, EndsAssumption DEF TypeOK, Frame
      <3>3. /\ g.counter \in Nat /\ f.counter \in Nat
            /\ recvCounter[u][f.session] \in Int
        BY <2>1, <3>1 DEF TypeOK, Frame
      <3>4. g.counter < f.counter
        BY <2>1, <3>1, <3>3
      <3> QED
        BY <3>1, <3>2, <3>4 DEF InStep
    <2>3. /\ shown' = [shown EXCEPT ![u][f.session] = Append(@, f.line)]
          /\ UNCHANGED written
      BY <1>2 DEF DecryptIncoming
    <2>4. C!Show(u, f.from, f.session, f.line)
      BY <2>1, <2>2, <2>3 DEF C!Show
    <2> QED
      BY <2>1, <2>4 DEF C!ANext
  <1>3. CASE UNCHANGED <<written, shown>>
    BY <1>3 DEF C!avars
  <1> QED
    BY <1>1, <1>2, <1>3
    DEF Next, Store, Drop, TakeSession, EncryptFails, vars, registry
-----------------------------------------------------------------------------
(* Tables, counters and frames always have their types.                    *)
THEOREM ChatTypeCorrect == Spec => []TypeOK
  BY InitType, TypeStep, PTL DEF Spec

(* Counters, frames and lines run in step, for any counter width.          *)
THEOREM InStepCorrect == Spec => []InStep
  BY InitInStep, InStepStep, ChatTypeCorrect, PTL DEF Spec

(* No key and nonce ever protect two different plaintexts.                 *)
THEOREM NonceTheorem == Spec => []NonceUsedOnce
  <1>1. TypeOK /\ InStep => NonceUsedOnce
    <2> SUFFICES ASSUME TypeOK, InStep, NEW f \in frames, NEW g \in frames,
                        f.from = g.from, f.session = g.session, f.counter = g.counter
                 PROVE  f.line = g.line
      BY DEF NonceUsedOnce
    <2>1. f.counter \in Nat /\ f.line \in Nat /\ g.line \in Nat
      BY DEF TypeOK, Frame
    <2>2. ~(f.line < g.line) /\ ~(g.line < f.line)
      BY <2>1 DEF InStep
    <2> QED BY <2>1, <2>2
  <1> QED
    BY <1>1, ChatTypeCorrect, InStepCorrect, PTL

(* Either end sees a part of what the other wrote, in order, nothing twice. *)
THEOREM ChannelTheorem == Spec => ImplementsChannel
  <1>1. Init => C!AInit
    BY InitMaps
  <1>2. TypeOK /\ InStep /\ [Next]_vars => [C!ANext]_(C!avars)
    BY StepMaps
  <1> QED
    BY <1>1, <1>2, ChatTypeCorrect, InStepCorrect, PTL
    DEF Spec, ImplementsChannel, C!ASpec
=============================================================================
