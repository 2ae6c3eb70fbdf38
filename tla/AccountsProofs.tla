--------------------------- MODULE AccountsProofs ---------------------------
(***************************************************************************)
(* Proofs about Accounts, for any users, machines, passwords and clients.  *)
(***************************************************************************)
EXTENDS Accounts, TLAPS

Inv == TypeOK /\ Entitled /\ KeysOfOwner /\ ReadyIsFindable /\ NotLockedOut /\ InPlace

(* Whoever runs a client, the file of its key bears a name of its user.    *)
LEMMA Names ==
    /\ user \in [Client -> User]
    /\ machine \in [Client -> Machine]
    /\ password \in [Client -> Password]
    /\ User \subseteq Name
    /\ \A u \in User : normalized[u] = u
    /\ \A c \in Client : KeyFile(c) \in Name /\ normalized[KeyFile(c)] = user[c]
    /\ \A c \in Client : typed[c] = user[c] => KeyFile(c) = user[c]
    /\ \A c \in Client : machine[c] \notin Caseless => KeyFile(c) = typed[c]
  BY ClientAssumption, NameAssumption DEF user, KeyFile

LEMMA InvInit == Init => Inv
BY Names, NoneAssumption
   DEF Init, Inv, TypeOK, Entitled, KeysOfOwner, ReadyIsFindable, NotLockedOut, InPlace,
       InByPassword, PastLogin, PastLoad

(* Types, action by action.                                                *)
LEMMA TypeStep == TypeOK /\ [Next]_vars => TypeOK'
<1> SUFFICES ASSUME TypeOK, [Next]_vars
             PROVE  TypeOK'
  OBVIOUS
<1> USE Names DEF TypeOK, Goes, server, disk, history
<1>1. ASSUME NEW c \in Client, Exists(c) PROVE TypeOK'
  BY <1>1 DEF Exists
<1>2. ASSUME NEW c \in Client, RegisterCheck(c) \/ RegisterCommit(c) \/ LoadNothing(c)
      PROVE  TypeOK'
  <2>1. pc' \in [Client -> {"start", "register", "insert", "login", "load", "save",
                            "verify", "publish", "ready", "refused"}]
    BY <1>2 DEF RegisterCheck, RegisterCommit, LoadNothing
  <2>2. account' \in [User -> Password \cup {NoPassword}]
    BY <1>2 DEF RegisterCheck, RegisterCommit, LoadNothing
  <2> QED BY <1>2, <2>1, <2>2 DEF RegisterCheck, RegisterCommit, LoadNothing
<1>3. ASSUME NEW c \in Client, Login(c) PROVE TypeOK'
  BY <1>3 DEF Login
<1>4. ASSUME NEW c \in Client, Refused(c) PROVE TypeOK'
  BY <1>4 DEF Refused
<1>5. ASSUME NEW c \in Client, Load(c) PROVE TypeOK'
  BY <1>5 DEF Load
<1>6. ASSUME NEW c \in Client, Save(c) PROVE TypeOK'
  <2>1. PICK k \in Key \cup {NoKey} :
            file' = [file EXCEPT ![machine[c]][KeyFile(c)] = k]
    BY <1>6 DEF Save
  <2>2. file' \in [Machine -> [Name -> Key \cup {NoKey}]]
    BY <2>1
  <2>3. /\ pc' \in [Client -> {"start", "register", "insert", "login", "load", "save",
                               "verify", "publish", "ready", "refused"}]
        /\ clobbered' \in SUBSET Name
    BY <1>6 DEF Save
  <2>4. emptied' \in SUBSET (Machine \X Name)
    <3>1. \/ emptied' = emptied \ {<<machine[c], KeyFile(c)>>}
          \/ emptied' = emptied \cup {<<machine[c], KeyFile(c)>>}
      BY <1>6 DEF Save
    <3> QED BY <3>1
  <2> QED
    BY <1>6, <2>2, <2>3, <2>4 DEF Save
<1>7. ASSUME NEW c \in Client, Verify(c) PROVE TypeOK'
  BY <1>7 DEF Verify, get_public_key
<1>8. ASSUME NEW c \in Client, Publish(c) PROVE TypeOK'
  BY <1>8 DEF Publish
<1>9. ASSUME NEW c \in Client, NEW k \in Key, Generate(c, k) PROVE TypeOK'
  BY <1>9 DEF Generate
<1>10. ASSUME NEW m \in Machine, Uninstall(m) PROVE TypeOK'
  <2>1. PICK names \in SUBSET Name :
            /\ file' = [file EXCEPT ![m] = [n \in Name |-> IF n \in names THEN NoKey ELSE @[n]]]
            /\ emptied' = emptied \ ({m} \X names)
            /\ clobbered' = clobbered \cup {n \in names : file[m][n] # NoKey}
    BY <1>10 DEF Uninstall
  <2>2. file' \in [Machine -> [Name -> Key \cup {NoKey}]]
    BY <2>1
  <2>3. emptied' \in SUBSET (Machine \X Name) /\ clobbered' \in SUBSET Name
    BY <2>1
  <2> QED BY <1>10, <2>2, <2>3 DEF Uninstall
<1>11. CASE UNCHANGED vars
  BY <1>11 DEF vars
<1> QED
  BY <1>1, <1>2, <1>3, <1>4, <1>5, <1>6, <1>7, <1>8, <1>9, <1>10, <1>11
     DEF Next

(* The rest of the invariant, action by action.                            *)
LEMMA OwnerStep ==
    Inv /\ [Next]_vars
        => Entitled' /\ KeysOfOwner' /\ ReadyIsFindable' /\ NotLockedOut'
<1> SUFFICES ASSUME Inv, [Next]_vars
             PROVE  Entitled' /\ KeysOfOwner' /\ ReadyIsFindable' /\ NotLockedOut'
  OBVIOUS
<1> USE Names, NoneAssumption
    DEF Inv, TypeOK, Entitled, KeysOfOwner, ReadyIsFindable, NotLockedOut, Owns,
        InByPassword, PastLogin, PastLoad, Goes, server, disk, history
<1>1. ASSUME NEW c \in Client, Exists(c)
      PROVE  Entitled' /\ KeysOfOwner' /\ ReadyIsFindable' /\ NotLockedOut'
  <2>1. Entitled'
    BY <1>1 DEF Exists
  <2>2. KeysOfOwner'
    BY <1>1 DEF Exists
  <2>3. ReadyIsFindable'
    BY <1>1 DEF Exists
  <2>4. NotLockedOut'
    BY <1>1 DEF Exists
  <2> QED
    BY <2>1, <2>2, <2>3, <2>4
<1>2. ASSUME NEW c \in Client, RegisterCheck(c) \/ RegisterCommit(c) \/ LoadNothing(c)
      PROVE  Entitled' /\ KeysOfOwner' /\ ReadyIsFindable' /\ NotLockedOut'
  <2>0. UNCHANGED <<publicKey, file, key, maker, raced, clobbered>>
    BY <1>2 DEF RegisterCheck, RegisterCommit, LoadNothing
  <2>1. /\ \A u \in User : account[u] # NoPassword => account'[u] = account[u]
        /\ \A d \in Client : d # c => pc'[d] = pc[d]
        /\ pc'[c] \in PastLogin => pc'[c] = "load" /\ account'[user[c]] = password[c]
    BY <1>2 DEF RegisterCheck, RegisterCommit, LoadNothing
  <2>2. \A d \in Client : pc'[d] \in PastLoad => pc[d] \in PastLoad /\ pc'[d] = pc[d]
    BY <2>1
  <2>3. \A d \in Client : password[d] # NoPassword
    OBVIOUS
  <2>4. \A d, u : Owns(d, u) /\ d \in Client => Owns(d, u)'
    BY <2>1, <2>3
  <2>5. Entitled'
    BY <2>0, <2>1, <2>2, <2>3, <2>4
  <2>6. KeysOfOwner'
    BY <2>0, <2>4
  <2>7. ReadyIsFindable' /\ NotLockedOut'
    BY <2>0, <2>2
  <2> QED
    BY <2>5, <2>6, <2>7
<1>3. ASSUME NEW c \in Client, Login(c)
      PROVE  Entitled' /\ KeysOfOwner' /\ ReadyIsFindable' /\ NotLockedOut'
  <2>1. Entitled'
    BY <1>3 DEF Login
  <2>2. KeysOfOwner'
    BY <1>3 DEF Login
  <2>3. ReadyIsFindable'
    BY <1>3 DEF Login
  <2>4. NotLockedOut'
    BY <1>3 DEF Login
  <2> QED
    BY <2>1, <2>2, <2>3, <2>4
<1>4. ASSUME NEW c \in Client, Refused(c)
      PROVE  Entitled' /\ KeysOfOwner' /\ ReadyIsFindable' /\ NotLockedOut'
  <2>1. Entitled'
    BY <1>4 DEF Refused
  <2>2. KeysOfOwner'
    BY <1>4 DEF Refused
  <2>3. ReadyIsFindable'
    BY <1>4 DEF Refused
  <2>4. NotLockedOut'
    BY <1>4 DEF Refused
  <2> QED
    BY <2>1, <2>2, <2>3, <2>4
<1>5. ASSUME NEW c \in Client, Load(c)
      PROVE  Entitled' /\ KeysOfOwner' /\ ReadyIsFindable' /\ NotLockedOut'
  <2>1. Entitled'
    <3>1. /\ pc' = [pc EXCEPT ![c] = "verify"]
          /\ key' = [key EXCEPT ![c] = file[machine[c]][KeyFile(c)]]
          /\ pc[c] = "load" /\ file[machine[c]][KeyFile(c)] # NoKey
          /\ account' = account /\ file' = file
          /\ maker' = maker /\ clobbered' = clobbered
      BY <1>5 DEF Load
    <3>2. ASSUME NEW d \in Client, pc'[d] \in PastLogin
          PROVE  password[d] = account'[user[d]]
      BY <3>1, <3>2
    <3>3. ASSUME NEW d \in Client, pc'[d] \in PastLoad
          PROVE  (key[d] # NoKey /\ Owns(maker[key[d]], user[d]))'
      <4>1. CASE d = c
        <5>1. key'[d] = file[machine[c]][KeyFile(c)]
          BY <3>1, <4>1
        <5>2. Owns(maker[file[machine[c]][KeyFile(c)]], user[c])
          BY <3>1
        <5> QED
          BY <3>1, <4>1, <5>1, <5>2
      <4>2. CASE d # c
        <5>1. key'[d] = key[d] /\ pc'[d] = pc[d]
          BY <3>1, <4>2
        <5> QED
          BY <3>1, <3>3, <5>1
      <4> QED
        BY <4>1, <4>2
    <3>4. ASSUME NEW d \in Client, pc'[d] \in {"verify", "publish"},
                 KeyFile(d) \notin clobbered'
          PROVE  (file[machine[d]][KeyFile(d)] = key[d])'
      BY <3>1, <3>4
    <3> QED
      BY <3>2, <3>3, <3>4, Zenon
  <2>2. KeysOfOwner'
    BY <1>5 DEF Load
  <2>3. ReadyIsFindable'
    BY <1>5 DEF Load
  <2>4. NotLockedOut'
    BY <1>5 DEF Load
  <2> QED
    BY <2>1, <2>2, <2>3, <2>4
<1>6. ASSUME NEW c \in Client, Save(c)
      PROVE  Entitled' /\ KeysOfOwner' /\ ReadyIsFindable' /\ NotLockedOut'
  <2>1. Entitled'
    <3>1. /\ pc[c] = "save" /\ \A d \in Client : d # c => pc'[d] = pc[d]
          /\ UNCHANGED <<account, key, maker>>
      BY <1>6 DEF Save
    <3>2. ASSUME NEW d \in Client
          PROVE  /\ pc'[d] \in PastLogin => pc[d] \in PastLogin
                 /\ pc'[d] \in PastLoad => pc[d] \in PastLoad
      BY <1>6, <3>1 DEF Save
    <3>3. ASSUME NEW d \in Client, pc'[d] \in {"verify", "publish"},
                 KeyFile(d) \notin clobbered'
          PROVE  (file[machine[d]][KeyFile(d)] = key[d])'
      <4>1. CASE d = c
        <5>1. pc'[c] = "verify"
          BY <1>6, <3>3, <4>1 DEF Save
        <5>2. file' = [file EXCEPT ![machine[c]][KeyFile(c)] = key[c]]
          BY <1>6, <5>1 DEF Save
        <5> QED
          BY <3>1, <4>1, <5>2
      <4>2. CASE d # c
        <5>1. /\ pc[d] \in {"verify", "publish"} /\ KeyFile(d) \notin clobbered
              /\ KeyFile(d) = KeyFile(c) => file[machine[c]][KeyFile(c)] = NoKey
          BY <1>6, <3>1, <3>3, <4>2 DEF Save
        <5>2. file[machine[d]][KeyFile(d)] = key[d] /\ key[d] # NoKey
          BY <5>1
        <5>3. ~ (machine[d] = machine[c] /\ KeyFile(d) = KeyFile(c))
          BY <5>1, <5>2
        <5>4. file'[machine[d]][KeyFile(d)] = file[machine[d]][KeyFile(d)]
          BY <1>6, <5>3 DEF Save
        <5> QED
          BY <3>1, <5>2, <5>4
      <4> QED
        BY <4>1, <4>2
    <3> QED
      BY <3>1, <3>2, <3>3
  <2> DEFINE m0 == machine[c]
             u0 == KeyFile(c)
  <2>5. /\ key[c] # NoKey => Owns(maker[key[c]], user[c])
        /\ publicKey' = publicKey /\ account' = account /\ maker' = maker
    BY <1>6 DEF Save
  <2>6. ASSUME NEW m \in Machine, NEW u \in Name
        PROVE  /\ m = m0 /\ u = u0 => file'[m][u] \in {key[c], NoKey}
               /\ ~ (m = m0 /\ u = u0) => file'[m][u] = file[m][u]
    BY <1>6 DEF Save
  <2>2. KeysOfOwner'
    BY <2>5, <2>6
  <2>3. ReadyIsFindable'
    BY <1>6 DEF Save
  <2>4. NotLockedOut'
    <3> SUFFICES ASSUME NEW u \in User, publicKey[u] # NoKey, u \notin clobbered'
                 PROVE  \E m \in Machine : file'[m][u] = publicKey[u]
      BY <2>5
    <3>1. u \notin clobbered /\ (u = u0 => file[m0][u0] = NoKey)
      BY <1>6 DEF Save
    <3>2. PICK m \in Machine : file[m][u] = publicKey[u]
      BY <3>1
    <3>3. ~ (m = m0 /\ u = u0)
      BY <3>1, <3>2
    <3>4. u \in Name
      OBVIOUS
    <3>5. file'[m][u] = file[m][u]
      BY <2>6, <3>3, <3>4, Zenon
    <3> QED
      BY <3>2, <3>5
  <2> QED
    BY <2>1, <2>2, <2>3, <2>4
<1>7. ASSUME NEW c \in Client, Verify(c)
      PROVE  Entitled' /\ KeysOfOwner' /\ ReadyIsFindable' /\ NotLockedOut'
  <2>1. Entitled'
    BY <1>7 DEF Verify, get_public_key
  <2>2. KeysOfOwner'
    BY <1>7 DEF Verify, get_public_key
  <2>3. ReadyIsFindable'
    <3>1. UNCHANGED <<publicKey, key, raced>> /\ pc[c] = "verify"
      BY <1>7 DEF Verify
    <3>2. pc'[c] = "ready" => publicKey[user[c]] = key[c]
      BY <1>7 DEF Verify, get_public_key
    <3>3. pc'[c] = "ready" => KeyFile(c) = user[c]
      BY <3>1, <3>2 DEF InPlace, From
    <3>4. \A d \in Client : d # c => pc'[d] = pc[d]
      BY <1>7 DEF Verify
    <3> QED
      BY <3>1, <3>2, <3>3, <3>4
  <2>4. NotLockedOut'
    BY <1>7 DEF Verify, get_public_key
  <2> QED
    BY <2>1, <2>2, <2>3, <2>4
<1>8. ASSUME NEW c \in Client, Publish(c)
      PROVE  Entitled' /\ KeysOfOwner' /\ ReadyIsFindable' /\ NotLockedOut'
  <2>1. Entitled'
    BY <1>8 DEF Publish
  <2>2. KeysOfOwner'
    BY <1>8 DEF Publish
  <2>3. ReadyIsFindable'
    BY <1>8 DEF Publish
  <2>4. NotLockedOut'
    BY <1>8 DEF Publish
  <2> QED
    BY <2>1, <2>2, <2>3, <2>4
<1>9. ASSUME NEW c \in Client, NEW k \in Key, Generate(c, k)
      PROVE  Entitled' /\ KeysOfOwner' /\ ReadyIsFindable' /\ NotLockedOut'
  <2>1. Entitled'
    BY <1>9 DEF Generate
  <2>2. KeysOfOwner'
    BY <1>9 DEF Generate
  <2>3. ReadyIsFindable'
    BY <1>9 DEF Generate
  <2>4. NotLockedOut'
    BY <1>9 DEF Generate
  <2> QED
    BY <2>1, <2>2, <2>3, <2>4
<1>10. ASSUME NEW m \in Machine, Uninstall(m)
       PROVE  Entitled' /\ KeysOfOwner' /\ ReadyIsFindable' /\ NotLockedOut'
  <2>1. PICK names \in SUBSET {n \in Name : file[m][n] # NoKey \/ <<m, n>> \in emptied} :
            /\ file' = [file EXCEPT ![m] = [n \in Name |-> IF n \in names THEN NoKey ELSE @[n]]]
            /\ clobbered' = clobbered \cup {n \in names : file[m][n] # NoKey}
    BY <1>10 DEF Uninstall
  <2>2. UNCHANGED <<account, publicKey, pc, key, maker, raced>>
    BY <1>10 DEF Uninstall
  <2>3. \A l \in Machine, n \in Name :
           /\ file'[l][n] # file[l][n] => n \in clobbered' /\ file'[l][n] = NoKey
           /\ n \in clobbered => n \in clobbered'
    BY <2>1
  <2>4. Entitled'
    BY <2>2, <2>3
  <2>5. KeysOfOwner'
    BY <2>2, <2>3
  <2>6. ReadyIsFindable'
    BY <2>2
  <2>7. NotLockedOut'
    <3> SUFFICES ASSUME NEW u \in User, publicKey[u] # NoKey, u \notin clobbered'
                 PROVE  \E l \in Machine : file'[l][u] = publicKey[u]
      BY <2>2
    <3>1. u \in Name /\ u \notin clobbered
      BY <2>3
    <3>2. PICK l \in Machine : file[l][u] = publicKey[u]
      BY <3>1
    <3>3. file'[l][u] = file[l][u]
      BY <2>3, <3>1
    <3> QED
      BY <3>2, <3>3
  <2> QED
    BY <2>4, <2>5, <2>6, <2>7
<1>11. CASE UNCHANGED vars
  BY <1>11 DEF vars
<1> QED
  BY <1>1, <1>2, <1>3, <1>4, <1>5, <1>6, <1>7, <1>8, <1>9, <1>10, <1>11
     DEF Next

(* A key stays with the machine and the file name it was generated for.    *)
LEMMA InPlaceStep == Inv /\ [Next]_vars => InPlace'
<1> SUFFICES ASSUME Inv, [Next]_vars PROVE InPlace'
  OBVIOUS
<1> USE Names, NoneAssumption
    DEF Inv, TypeOK, InPlace, From, PastLogin, PastLoad, Goes, server, disk, history
<1>1. ASSUME NEW c \in Client,
             \/ Exists(c) \/ RegisterCheck(c) \/ RegisterCommit(c) \/ Login(c) \/ Refused(c)
             \/ LoadNothing(c)
      PROVE  InPlace'
  <2>1. UNCHANGED <<publicKey, file, key, maker>>
    BY <1>1 DEF Exists, RegisterCheck, RegisterCommit, Login, Refused, LoadNothing
  <2>2. \A d \in Client : pc'[d] \in PastLoad => pc[d] \in PastLoad
    BY <1>1 DEF Exists, RegisterCheck, RegisterCommit, Login, Refused, LoadNothing
  <2> QED BY <2>1, <2>2
<1>2. ASSUME NEW c \in Client, Load(c) PROVE InPlace'
  <2>1. /\ UNCHANGED <<publicKey, file, maker>>
        /\ key' = [key EXCEPT ![c] = file[machine[c]][KeyFile(c)]]
        /\ file[machine[c]][KeyFile(c)] # NoKey
    BY <1>2 DEF Load
  <2>2. \A d \in Client : d # c => pc'[d] = pc[d]
    BY <1>2 DEF Load
  <2>3. From(key'[c], machine[c], KeyFile(c))
    BY <2>1
  <2>4. \A d \in Client : d # c => key'[d] = key[d]
    BY <2>1
  <2>5. \A d \in Client : pc'[d] \in PastLoad => From(key[d], machine[d], KeyFile(d))'
    <3>1. TAKE d \in Client
    <3>2. CASE d = c
      BY <2>1, <2>3, <3>2
    <3>3. CASE d # c
      BY <2>1, <2>2, <2>4, <3>3
    <3> QED BY <3>2, <3>3
  <2>6. \A m \in Machine, n \in Name : file'[m][n] # NoKey => From(file[m][n], m, n)'
    BY <2>1
  <2>7. \A u \in User : publicKey'[u] # NoKey => \E m \in Machine : From(publicKey[u], m, u)'
    BY <2>1
  <2> QED BY <2>5, <2>6, <2>7
<1>3. ASSUME NEW c \in Client, Save(c) PROVE InPlace'
  <2>1. UNCHANGED <<publicKey, key, maker>> /\ pc[c] = "save"
    BY <1>3 DEF Save
  <2>2. \A d \in Client : pc'[d] \in PastLoad => pc[d] \in PastLoad
    BY <1>3 DEF Save
  <2>3. ASSUME NEW m \in Machine, NEW n \in Name
        PROVE  \/ file'[m][n] \in {file[m][n], NoKey}
               \/ m = machine[c] /\ n = KeyFile(c) /\ file'[m][n] = key[c]
    BY <1>3 DEF Save
  <2> QED BY <2>1, <2>2, <2>3
<1>4. ASSUME NEW c \in Client, Verify(c) PROVE InPlace'
  <2>1. UNCHANGED <<publicKey, file, key, maker>>
    BY <1>4 DEF Verify
  <2>2. \A d \in Client : pc'[d] \in PastLoad => pc[d] \in PastLoad
    BY <1>4 DEF Verify
  <2> QED BY <2>1, <2>2
<1>5. ASSUME NEW c \in Client, Publish(c) PROVE InPlace'
  <2>1. UNCHANGED <<file, key, maker>>
    BY <1>5 DEF Publish
  <2>2. \A d \in Client : pc'[d] \in PastLoad => pc[d] \in PastLoad
    BY <1>5 DEF Publish
  <2>3. From(key[c], machine[c], user[c])
    BY <1>5 DEF Publish
  <2>4. ASSUME NEW u \in User, u # user[c] PROVE publicKey'[u] = publicKey[u]
    BY <1>5, <2>4 DEF Publish
  <2>5. publicKey'[user[c]] = key[c]
    BY <1>5 DEF Publish
  <2>6. \A u \in User : publicKey'[u] # NoKey => \E m \in Machine : From(publicKey[u], m, u)'
    <3>1. TAKE u \in User
    <3>2. CASE u = user[c]
      BY <2>1, <2>3, <2>5, <3>2
    <3>3. CASE u # user[c]
      BY <2>1, <2>4, <3>3
    <3> QED BY <3>2, <3>3
  <2> QED BY <2>1, <2>2, <2>6
<1>6. ASSUME NEW c \in Client, NEW k \in Key, Generate(c, k) PROVE InPlace'
  BY <1>6 DEF Generate
<1>7. ASSUME NEW m \in Machine, Uninstall(m) PROVE InPlace'
  <2>1. UNCHANGED <<publicKey, pc, key, maker>>
    BY <1>7 DEF Uninstall
  <2>2. \A l \in Machine, n \in Name : file'[l][n] \in {file[l][n], NoKey}
    BY <1>7 DEF Uninstall
  <2> QED BY <2>1, <2>2
<1>8. CASE UNCHANGED vars
  BY <1>8 DEF vars
<1> QED BY <1>1, <1>2, <1>3, <1>4, <1>5, <1>6, <1>7, <1>8 DEF Next

LEMMA Invariance == Spec => []Inv
<1>1. Inv /\ [Next]_vars => Inv'
  BY TypeStep, OwnerStep, InPlaceStep DEF Inv
<1> QED
  BY InvInit, <1>1, PTL DEF Spec

(* Every reachable state of relay, machines and clients is well typed.     *)
THEOREM AccountsTypeCorrect == Spec => []TypeOK
BY Invariance, PTL DEF Inv

(* A client past the password check is entitled to act for its user, with  *)
(* a key of that user (login, load_or_create).                             *)
THEOREM EntitledCorrect == Spec => []Entitled
BY Invariance, PTL DEF Inv

(* Published and stored keys come from clients of their user.              *)
THEOREM OwnerTheorem == Spec => []KeysOfOwner
BY Invariance, PTL DEF Inv

(* A client that is through login() can be verified by its peers, unless a *)
(* later publication replaced its key.                                     *)
THEOREM FindableTheorem == Spec => []ReadyIsFindable
BY Invariance, PTL DEF Inv

(* The private half of a published key is stored somewhere, unless a key   *)
(* was written over another one.                                           *)
THEOREM NotLockedOutTheorem == Spec => []NotLockedOut
BY Invariance, PTL DEF Inv

(* A private key is stored on the machine it was generated on, under the   *)
(* name it was generated for (load_or_create, _key_file), and a published  *)
(* one was generated for the very name it is published for.                *)
THEOREM InPlaceTheorem == Spec => []InPlace
BY Invariance, PTL DEF Inv

(* However many registrations found a name free at once, whoever is in has *)
(* the password of the account.                                            *)
THEOREM InByPasswordTheorem == Spec => []InByPassword
BY EntitledCorrect, PTL DEF Entitled
=============================================================================
