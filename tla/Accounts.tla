------------------------------ MODULE Accounts ------------------------------
(***************************************************************************)
(* Logging in: server/main.py (accounts and published identity keys) and   *)
(* the clients that go through client/authentication.py on the machines    *)
(* where they keep their private keys (client/crypto_identity.py,          *)
(* client/identity_store.py).                                              *)
(*                                                                         *)
(* A client makes several requests, and other clients of the same user, on *)
(* the same or on another machine, come in between; a registration looks   *)
(* and writes in two steps.  Any request may be refused or get no answer;  *)
(* it may then have been carried out all the same, later too: the client   *)
(* that gave up stays here where it waits until then.  A client that       *)
(* crashes takes no further step.  The relay normalizes every name it is   *)
(* given (server/validation.py), the client uses its own as it was typed.  *)
(***************************************************************************)
CONSTANTS User,      \* normalized names
          Name, normalized,         \* names as they are typed, normalize_username
          Machine,
          Caseless,  \* machines whose file names do not tell A from a
          Protected, \* machines that keep keys with DPAPI, others in the plain
          Password,
          Client,    \* runs of the program, each logs in once
          typed, machine, password, \* of a client: what is typed, and where
          Key,       \* Ed25519 key pairs generate_keypair may return
          NoKey, NoPassword, NoClient

ASSUME NameAssumption == /\ normalized \in [Name -> User]
                         /\ User \subseteq Name
                         /\ \A u \in User : normalized[u] = u
ASSUME ClientAssumption == /\ typed \in [Client -> Name]
                           /\ machine \in [Client -> Machine]
                           /\ password \in [Client -> Password]
ASSUME NoneAssumption == /\ NoKey \notin Key /\ NoPassword \notin Password
                         /\ NoClient \notin Client

VARIABLES
    account,    \* the table users: password of an account ...
    publicKey,  \* ... and its published key
    file,       \* file[m][n]: private key stored on machine m for the name n
    emptied,    \* <<m, n>>: a file that is there and has no key in it
    pc,         \* where in login() a client is
    key,        \* the identity a client has loaded or generated

(* History.                                                                *)
    maker,      \* who generated a key
    raced,      \* users whose published key a later publication replaced
    clobbered   \* names a stored key of which was written over or removed

user == [c \in Client |-> normalized[typed[c]]]

(* _key_file: the name in the name of the file.                            *)
KeyFile(c) == IF machine[c] \in Caseless THEN user[c] ELSE typed[c]

server  == <<account, publicKey>>
history == <<maker, raced, clobbered>>
disk    == <<file, emptied>>
vars    == <<server, disk, pc, key, history>>

TypeOK ==
    /\ account \in [User -> Password \cup {NoPassword}]
    /\ publicKey \in [User -> Key \cup {NoKey}]
    /\ file \in [Machine -> [Name -> Key \cup {NoKey}]]
    /\ emptied \in SUBSET (Machine \X Name)
    /\ pc \in [Client -> {"start", "register", "insert", "login", "load", "save",
                          "verify", "publish", "ready", "refused"}]
    /\ key \in [Client -> Key \cup {NoKey}]
    /\ maker \in [Key -> Client \cup {NoClient}]
    /\ raced \in SUBSET User
    /\ clobbered \in SUBSET Name

Init ==
    /\ account = [u \in User |-> NoPassword]
    /\ publicKey = [u \in User |-> NoKey]
    /\ file = [m \in Machine |-> [n \in Name |-> NoKey]]
    /\ emptied = {}
    /\ pc = [c \in Client |-> "start"]
    /\ key = [c \in Client |-> NoKey]
    /\ maker = [k \in Key |-> NoClient]
    /\ raced = {}
    /\ clobbered = {}

Goes(c, from, to) == pc[c] = from /\ pc' = [pc EXCEPT ![c] = to]
-----------------------------------------------------------------------------
(* The account: GET /auth/exists, POST /auth/register, POST /auth/login.   *)

(* exists() is False also when the request fails.                          *)
Exists(c) ==
    /\ \/ account[user[c]] # NoPassword /\ Goes(c, "start", "login")
       \/ Goes(c, "start", "register")
    /\ UNCHANGED <<server, disk, key, history>>

(* register() looks for the name and does not find it ...                  *)
RegisterCheck(c) ==
    /\ account[user[c]] = NoPassword
    /\ Goes(c, "register", "insert")
    /\ UNCHANGED <<server, disk, key, history>>

(* Variant: the row is written whether or not there is one already.        *)
CommitOver(c) ==
    /\ \E to \in {"load", "refused"} : Goes(c, "insert", to)
    /\ account' = [account EXCEPT ![user[c]] = password[c]]
    /\ UNCHANGED <<publicKey, disk, key, history>>

(* Variant: the wrong column ends up in the row.                           *)
CommitSwapped(c) ==
    /\ account[user[c]] = NoPassword
    /\ \E to \in {"load", "refused"} : Goes(c, "insert", to)
    /\ account' = [account EXCEPT ![user[c]] = user[c]]
    /\ UNCHANGED <<publicKey, disk, key, history>>

(* ... and commits: the primary key of the table lets one of several       *)
(* through, whose answer may be lost; the others get IntegrityError, 409.  *)
RegisterCommit(c) ==
    \/ /\ account[user[c]] = NoPassword
       /\ \E to \in {"load", "refused"} : Goes(c, "insert", to)
       /\ account' = [account EXCEPT ![user[c]] = password[c]]
       /\ UNCHANGED <<publicKey, disk, key, history>>
    \/ /\ account[user[c]] # NoPassword
       /\ Goes(c, "insert", "refused")
       /\ UNCHANGED <<server, disk, key, history>>

(* Variant: the account decides, the password does not matter.             *)
LoginAnyone(c) ==
    /\ account[user[c]] # NoPassword
    /\ Goes(c, "login", "load")
    /\ UNCHANGED <<server, disk, key, history>>

Login(c) ==
    /\ account[user[c]] = password[c]
    /\ Goes(c, "login", "load")
    /\ UNCHANGED <<server, disk, key, history>>

(* A name that is taken, a wrong password, a rate limit, no answer, an     *)
(* expired token: login() returns None.                                    *)
Refused(c) ==
    /\ \E from \in {"register", "insert", "login", "verify", "publish"} :
           Goes(c, from, "refused")
    /\ UNCHANGED <<server, disk, key, history>>
-----------------------------------------------------------------------------
(* The identity: load_or_create and _load_and_publish_identity.            *)

(* Variant: one file per machine, whoever uses it.                         *)
LoadAnyones(c) ==
    /\ Goes(c, "load", "verify")
    /\ \E n \in Name : /\ file[machine[c]][n] # NoKey
                       /\ key' = [key EXCEPT ![c] = file[machine[c]][n]]
    /\ UNCHANGED <<server, disk, history>>

Load(c) ==
    /\ Goes(c, "load", "verify")
    /\ file[machine[c]][KeyFile(c)] # NoKey
    /\ key' = [key EXCEPT ![c] = file[machine[c]][KeyFile(c)]]
    /\ UNCHANGED <<server, disk, history>>

(* A plaintext store reads an empty file as a key of no bytes, and         *)
(* SigningKey raises ValueError, which leaves login().                     *)
LoadNothing(c) ==
    /\ <<machine[c], KeyFile(c)>> \in emptied /\ machine[c] \notin Protected
    /\ Goes(c, "load", "refused")
    /\ UNCHANGED <<server, disk, key, history>>

(* Variant: the new key is never stored.                                   *)
GenerateUnsaved(c, k) ==
    /\ Goes(c, "load", "verify")
    /\ maker[k] = NoClient
    /\ maker' = [maker EXCEPT ![k] = c]
    /\ key' = [key EXCEPT ![c] = k]
    /\ UNCHANGED <<server, disk, raced, clobbered>>

(* The file is missing, or cannot be read (OSError; DPAPI refuses what is  *)
(* in it), which load() does not tell from missing: a new key pair is      *)
(* generated ...                                                           *)
Generate(c, k) ==
    /\ Goes(c, "load", "save")
    /\ maker[k] = NoClient
    /\ maker' = [maker EXCEPT ![k] = c]
    /\ key' = [key EXCEPT ![c] = k]
    /\ UNCHANGED <<server, disk, raced, clobbered>>

(* ... and written over whatever there is by now.  write_bytes truncates   *)
(* first: a crash in between leaves an empty file.                         *)
Save(c) ==
    LET here == <<machine[c], KeyFile(c)>>
    IN  /\ \/ /\ Goes(c, "save", "verify")
              /\ file' = [file EXCEPT ![machine[c]][KeyFile(c)] = key[c]]
              /\ emptied' = emptied \ {here}
           \/ /\ Goes(c, "save", "refused")
              /\ file' = [file EXCEPT ![machine[c]][KeyFile(c)] = NoKey]
              /\ emptied' = emptied \cup {here}
        /\ clobbered' = IF file[machine[c]][KeyFile(c)] = NoKey
                        THEN clobbered ELSE clobbered \cup {KeyFile(c)}
        /\ UNCHANGED <<server, key, maker, raced>>

(* GET public-key, which anybody may ask.                                  *)
get_public_key(u) == publicKey[u]

(* Variant: a published key that differs from the local one is not noticed. *)
VerifyExists(c) ==
    /\ \/ get_public_key(user[c]) # NoKey /\ Goes(c, "verify", "ready")
       \/ get_public_key(user[c]) = NoKey /\ Goes(c, "verify", "publish")
    /\ UNCHANGED <<server, disk, key, history>>

(* The relay has the local key, or has none; a different one is refused.   *)
Verify(c) ==
    /\ \/ get_public_key(user[c]) = key[c] /\ Goes(c, "verify", "ready")
       \/ get_public_key(user[c]) = NoKey /\ Goes(c, "verify", "publish")
    /\ UNCHANGED <<server, disk, key, history>>

(* Variant: the client signs its name as the relay has it.                 *)
PublishNormalized(c) ==
    /\ \E to \in {"ready", "refused"} : Goes(c, "publish", to)
    /\ publicKey' = [publicKey EXCEPT ![user[c]] = key[c]]
    /\ raced' = IF publicKey[user[c]] \in {NoKey, key[c]}
                THEN raced ELSE raced \cup {user[c]}
    /\ UNCHANGED <<account, disk, key, maker, clobbered>>

(* PUT public-key: the signature proves possession of the private key, but *)
(* it is over the name as typed, and is verified with the one of the       *)
(* token; the row is written unconditionally.  The answer may be lost.     *)
Publish(c) ==
    /\ typed[c] = user[c]
    /\ \E to \in {"ready", "refused"} : Goes(c, "publish", to)
    /\ publicKey' = [publicKey EXCEPT ![user[c]] = key[c]]
    /\ raced' = IF publicKey[user[c]] \in {NoKey, key[c]}
                THEN raced ELSE raced \cup {user[c]}
    /\ UNCHANGED <<account, disk, key, maker, clobbered>>

(* nightchat uninstall, confirmed (client/uninstall.py): the directory goes *)
(* with the keys of every name, or as many of them as can be removed.      *)
Uninstall(m) ==
    \E names \in SUBSET {n \in Name : file[m][n] # NoKey \/ <<m, n>> \in emptied} :
        /\ file' = [file EXCEPT ![m] = [n \in Name |-> IF n \in names THEN NoKey ELSE @[n]]]
        /\ emptied' = emptied \ ({m} \X names)
        /\ clobbered' = clobbered \cup {n \in names : file[m][n] # NoKey}
        /\ UNCHANGED <<server, pc, key, maker, raced>>
-----------------------------------------------------------------------------
Next ==
    \/ \E c \in Client :
           \/ Exists(c) \/ RegisterCheck(c) \/ RegisterCommit(c) \/ Login(c) \/ Refused(c)
           \/ Load(c) \/ LoadNothing(c) \/ Save(c) \/ Verify(c) \/ Publish(c)
           \/ \E k \in Key : Generate(c, k)
    \/ \E m \in Machine : Uninstall(m)

Spec == Init /\ [][Next]_vars
-----------------------------------------------------------------------------
(* Properties.                                                             *)

(* Whoever is past registration or login goes by the password of the       *)
(* account: of two registrations that both found the name free, one counts, *)
(* and the other one is not let in by its answer (main.py:111-121).        *)
PastLogin == {"load", "save", "verify", "publish", "ready"}

InByPassword == \A c \in Client : pc[c] \in PastLogin => password[c] = account[user[c]]

(* A key published for an account, or stored for it on any machine, was    *)
(* generated by a client of that very user that knew its password.         *)
Owns(c, u) == c # NoClient /\ user[c] = u /\ password[c] = account[u]

KeysOfOwner ==
    \A u \in User :
        /\ publicKey[u] # NoKey => Owns(maker[publicKey[u]], u)
        /\ \A m \in Machine, n \in Name :
              normalized[n] = u /\ file[m][n] # NoKey => Owns(maker[file[m][n]], u)

(* A client that is through login() holds the key peers will find at the   *)
(* relay to verify it with.  The one way out is a publication that came    *)
(* later than this client's and replaced its key.  And it goes by the name *)
(* its peers know it under, which handshakes sign, although login() never  *)
(* compares the two (authentication.py:203): another spelling has a key    *)
(* file of its own, and the key in it can be neither verified nor          *)
(* published; unless the file system takes the two for one.                *)
ReadyIsFindable ==
    \A c \in Client : pc[c] = "ready" =>
        /\ user[c] \notin raced => publicKey[user[c]] = key[c]
        /\ machine[c] \notin Caseless => typed[c] = user[c]

(* The private half of a published key is stored on some machine, so that  *)
(* its user can log in again: it is saved before it is published.  The one *)
(* way out is a key written over another one, by clients that generated    *)
(* theirs at the same time or after a file that could not be read, or one  *)
(* removed by uninstall.                                                   *)
NotLockedOut ==
    \A u \in User :
        (publicKey[u] # NoKey /\ u \notin clobbered)
            => \E m \in Machine : file[m][u] = publicKey[u]
-----------------------------------------------------------------------------
(* What makes the above inductive: a client past the password check knows  *)
(* the password, and one past load_or_create has a key of its user, which  *)
(* is in its file from the moment it is saved; and a key belongs to the    *)
(* machine and the file name it was generated for.                         *)
PastLoad  == {"save", "verify", "publish", "ready"}

Entitled ==
    /\ InByPassword
    /\ \A c \in Client :
           /\ pc[c] \in PastLoad => key[c] # NoKey /\ Owns(maker[key[c]], user[c])
           /\ (pc[c] \in {"verify", "publish"} /\ KeyFile(c) \notin clobbered)
                  => file[machine[c]][KeyFile(c)] = key[c]

From(k, m, n) == maker[k] # NoClient /\ machine[maker[k]] = m /\ KeyFile(maker[k]) = n

InPlace ==
    /\ \A c \in Client : pc[c] \in PastLoad => From(key[c], machine[c], KeyFile(c))
    /\ \A m \in Machine, n \in Name : file[m][n] # NoKey => From(file[m][n], m, n)
    /\ \A u \in User : publicKey[u] # NoKey => \E m \in Machine : From(publicKey[u], m, u)
=============================================================================
