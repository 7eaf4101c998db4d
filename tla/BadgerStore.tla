----------------------------- MODULE BadgerStore -----------------------------
(***************************************************************************)
(* storage/badger/storage.go as badger runs it.  A transaction reads a     *)
(* snapshot, and the storage reads what it needs at its beginning; what it *)
(* writes is seen by others from its commit on.  A transaction that only   *)
(* reads or only writes is one step.  One that writes what it has read is  *)
(* two, and badger refuses its commit if a key it has read was written by  *)
(* another one meanwhile.  Several calls are two transactions.             *)
(***************************************************************************)
EXTENDS StoreCalls

CONSTANTS
  Clients,  \* goroutines that call the storage
  Faults    \* "error": transactions fail, contents cannot be encoded; "crash"

ASSUME BadgerStoreAssumption == Faults \subseteq {"error", "crash"}

VARIABLES
  documents,   \* order:, authz: and cert:
  challenges,  \* challenge:
  accounts,    \* account:
  keyIndex,    \* account_key: Keys -> account id, None if there is no entry
  call,        \* Clients -> the call under way, or None
  step,        \* Clients -> the next transaction, or "commit" in the middle of one
  seen,        \* Clients -> the account id that GetAccountByKey has read
  overtaken,   \* the clients in a transaction whose reads have been overwritten
  reply        \* whom the last step answered, and what; None if nobody

db   == <<documents, challenges, accounts, keyIndex>>
vars == <<db, call, step, seen, overtaken, reply>>

Steps == {"idle", "first", "write", "get", "commit"}

TypeOK ==
  /\ documents \in [Documents -> Contents \cup {None}]
  /\ challenges \in [ChallengeIds -> ChallengeStates]
  /\ accounts \in [AccountIds -> AccountContents \cup {None}]
  /\ keyIndex \in [Keys -> AccountIds \cup {None}]
  /\ call \in [Clients -> Calls \cup {None}]
  /\ step \in [Clients -> Steps]
  /\ seen \in [Clients -> AccountIds \cup {None}]
  /\ overtaken \subseteq Clients

Init ==
  /\ documents = [d \in Documents |-> None]
  /\ challenges = [h \in ChallengeIds |-> "absent"]
  /\ accounts = [a \in AccountIds |-> None]
  /\ keyIndex = [k \in Keys |-> None]
  /\ call = [c \in Clients |-> None]
  /\ step = [c \in Clients |-> "idle"]
  /\ seen = [c \in Clients |-> None]
  /\ overtaken = {}
  /\ reply = None

MayFail == "error" \in Faults

\* The call of c returns a.
Answer(c, a) ==
  /\ reply' = [to |-> c, with |-> a]
  /\ call' = [call EXCEPT ![c] = None]
  /\ step' = [step EXCEPT ![c] = "idle"]
  /\ seen' = [seen EXCEPT ![c] = None]

\* The call of c goes on, having read x.
Continue(c, next, x) ==
  /\ reply' = None
  /\ step' = [step EXCEPT ![c] = next]
  /\ seen' = [seen EXCEPT ![c] = x]
  /\ UNCHANGED call

\* What a commit of c does to the transactions that have read challenge h.
Overtake(c, h) ==
  overtaken' = (overtaken \cup {d \in Clients : step[d] = "commit" /\ call[d].on = h}) \ {c}

At(c, s, ops) == step[c] = s /\ call[c].op \in ops

\* What the callers keep to: the ids of new objects are drawn at random, so that no
\* two objects get the same, and no handler changes the key of an account.
Fresh(k) ==
  /\ k.op = "createDocument" => documents[k.on] = None
  /\ k.op = "createAccount" => accounts[k.on] = None
  /\ k.op = "createChallenge" => challenges[k.on] = "absent"
  /\ \A c \in Clients : call[c] # None => ~(call[c].op = k.op /\ call[c].on = k.on)

Writes(c, a) == call[c] # None /\ call[c].op \in AccountWrites /\ call[c].on = a

SameKey(k) ==
  /\ accounts[k.on] # None => accounts[k.on].key = k.with.key
  /\ \A c \in Clients : Writes(c, k.on) => call[c].with.key = k.with.key

Invoke(c) ==
  /\ call[c] = None
  /\ \E k \in Calls :
       /\ k.op \in Creations => Fresh(k)
       /\ k.op \in AccountWrites => SameKey(k)
       /\ call' = [call EXCEPT ![c] = k]
  /\ step' = [step EXCEPT ![c] = "first"]
  /\ reply' = None
  /\ UNCHANGED <<db, seen, overtaken>>

-----------------------------------------------------------------------------
(* Orders, authorizations and certificates.                                *)

\* CreateOrder, CreateAuthorization, CreateCertificate; and the second transaction
\* of UpdateOrder and UpdateAuthorization.
PutDocument(c) ==
  /\ At(c, "first", {"createDocument"}) \/ At(c, "write", {"updateDocument"})
  /\ documents' = [documents EXCEPT ![call[c].on] = call[c].with]
  /\ Answer(c, Done)
  /\ UNCHANGED <<challenges, accounts, keyIndex, overtaken>>

\* GetOrder, GetAuthorization, GetCertificate.
GetDocument(c) ==
  /\ At(c, "first", {"getDocument"})
  /\ documents[call[c].on] # None
  /\ Answer(c, documents[call[c].on])
  /\ UNCHANGED <<db, overtaken>>

\* UpdateOrder and UpdateAuthorization first look whether there is one.
CheckDocument(c) ==
  /\ At(c, "first", {"updateDocument"})
  /\ documents[call[c].on] # None
  /\ Continue(c, "write", None)
  /\ UNCHANGED <<db, overtaken>>

DocumentNotFound(c) ==
  /\ At(c, "first", {"getDocument", "updateDocument"})
  /\ documents[call[c].on] = None
  /\ Answer(c, Error)
  /\ UNCHANGED <<db, overtaken>>

\* The iteration over one snapshot.
OrdersOf(a) == {d \in Documents : documents[d] # None /\ documents[d].acct = a}

GetOrdersByAccount(c) ==
  /\ At(c, "first", {"getOrdersByAccount"})
  /\ Answer(c, [d \in OrdersOf(call[c].on) |-> documents[d].data])
  /\ UNCHANGED <<db, overtaken>>

-----------------------------------------------------------------------------
(* Challenges.                                                             *)

CreateChallenge(c) ==
  /\ At(c, "first", {"createChallenge"})
  /\ challenges' = [challenges EXCEPT ![call[c].on] = "pending"]
  /\ Overtake(c, call[c].on)
  /\ Answer(c, Done)
  /\ UNCHANGED <<documents, accounts, keyIndex>>

GetChallenge(c) ==
  /\ At(c, "first", {"getChallenge"})
  /\ challenges[call[c].on] # "absent"
  /\ Answer(c, challenges[call[c].on])
  /\ UNCHANGED <<db, overtaken>>

ChallengeNotFound(c) ==
  /\ At(c, "first", {"getChallenge"})
  /\ challenges[call[c].on] = "absent"
  /\ Answer(c, Error)
  /\ UNCHANGED <<db, overtaken>>

\* The status SetChallengeProcessing, SetChallengeValid and SetChallengeInvalid expect
Expected(op) == IF op = "setProcessing" THEN "pending" ELSE "processing"

\* and the one they set.
Updated(op) ==
  CASE op = "setProcessing" -> "processing"
    [] op = "setValid"      -> "valid"
    [] op = "setInvalid"    -> "invalid"

\* updateChallengeStatus up to its commit.
ReadChallenge(c) ==
  /\ At(c, "first", StatusUpdates)
  /\ challenges[call[c].on] = Expected(call[c].op)
  /\ Continue(c, "commit", None)
  /\ UNCHANGED <<db, overtaken>>

\* There is no such challenge, or its status is another one.
StatusMismatch(c) ==
  /\ At(c, "first", StatusUpdates)
  /\ challenges[call[c].on] # Expected(call[c].op)
  /\ Answer(c, Error)
  /\ UNCHANGED <<db, overtaken>>

\* Mutant: the status is read in a transaction of its own, so that nothing conflicts.
CommitRegardless(c) ==
  /\ At(c, "commit", StatusUpdates)
  /\ challenges' = [challenges EXCEPT ![call[c].on] = Updated(call[c].op)]
  /\ Overtake(c, call[c].on)
  /\ Answer(c, Done)
  /\ UNCHANGED <<documents, accounts, keyIndex>>

CommitChallenge(c) ==
  /\ At(c, "commit", StatusUpdates)
  /\ c \notin overtaken
  /\ challenges' = [challenges EXCEPT ![call[c].on] = Updated(call[c].op)]
  /\ Overtake(c, call[c].on)
  /\ Answer(c, Done)
  /\ UNCHANGED <<documents, accounts, keyIndex>>

\* badger.ErrConflict.
Conflict(c) ==
  /\ At(c, "commit", StatusUpdates)
  /\ c \in overtaken
  /\ Answer(c, Error)
  /\ overtaken' = overtaken \ {c}
  /\ UNCHANGED db

-----------------------------------------------------------------------------
(* Accounts.                                                               *)

\* Mutant: the index entry is forgotten.
PutAccountAlone(c) ==
  /\ At(c, "first", {"createAccount"}) \/ At(c, "write", {"updateAccount"})
  /\ accounts' = [accounts EXCEPT ![call[c].on] = call[c].with]
  /\ Answer(c, Done)
  /\ UNCHANGED <<documents, challenges, keyIndex, overtaken>>

\* CreateAccount, and the second transaction of UpdateAccount, write the account
\* and its index entry together.
PutAccount(c) ==
  /\ At(c, "first", {"createAccount"}) \/ At(c, "write", {"updateAccount"})
  /\ accounts' = [accounts EXCEPT ![call[c].on] = call[c].with]
  /\ keyIndex' = [keyIndex EXCEPT ![call[c].with.key] = call[c].on]
  /\ Answer(c, Done)
  /\ UNCHANGED <<documents, challenges, overtaken>>

\* GetAccount, and the second transaction of GetAccountByKey.
Wanted(c) == IF step[c] = "get" THEN seen[c] ELSE call[c].on

GetAccount(c) ==
  /\ At(c, "first", {"getAccount"}) \/ At(c, "get", {"getAccountByKey"})
  /\ accounts[Wanted(c)] # None
  /\ Answer(c, accounts[Wanted(c)])
  /\ UNCHANGED <<db, overtaken>>

\* UpdateAccount begins with a GetAccount.
CheckAccount(c) ==
  /\ At(c, "first", {"updateAccount"})
  /\ accounts[call[c].on] # None
  /\ Continue(c, "write", None)
  /\ UNCHANGED <<db, overtaken>>

AccountNotFound(c) ==
  /\ At(c, "first", {"getAccount", "updateAccount"}) \/ At(c, "get", {"getAccountByKey"})
  /\ accounts[Wanted(c)] = None
  /\ Answer(c, Error)
  /\ UNCHANGED <<db, overtaken>>

\* The first transaction of GetAccountByKey.
LookupKey(c) ==
  /\ At(c, "first", {"getAccountByKey"})
  /\ keyIndex[call[c].on] # None
  /\ Continue(c, "get", keyIndex[call[c].on])
  /\ UNCHANGED <<db, overtaken>>

KeyNotFound(c) ==
  /\ At(c, "first", {"getAccountByKey"})
  /\ keyIndex[call[c].on] = None
  /\ Answer(c, Error)
  /\ UNCHANGED <<db, overtaken>>

-----------------------------------------------------------------------------
\* A transaction fails, and nothing that it wrote is kept.
Fail(c) ==
  /\ MayFail /\ call[c] # None
  /\ Answer(c, Error)
  /\ overtaken' = overtaken \ {c}
  /\ UNCHANGED db

\* The process dies and opens its database again.
Crash ==
  /\ "crash" \in Faults
  /\ call' = [c \in Clients |-> None]
  /\ step' = [c \in Clients |-> "idle"]
  /\ seen' = [c \in Clients |-> None]
  /\ overtaken' = {}
  /\ reply' = None
  /\ UNCHANGED db

Transaction(c) ==
  \/ PutDocument(c) \/ GetDocument(c) \/ CheckDocument(c) \/ DocumentNotFound(c)
  \/ GetOrdersByAccount(c)
  \/ CreateChallenge(c) \/ GetChallenge(c) \/ ChallengeNotFound(c)
  \/ ReadChallenge(c) \/ StatusMismatch(c) \/ CommitChallenge(c) \/ Conflict(c)
  \/ PutAccount(c) \/ GetAccount(c) \/ CheckAccount(c) \/ AccountNotFound(c)
  \/ LookupKey(c) \/ KeyNotFound(c)

Next == Crash \/ \E c \in Clients : Invoke(c) \/ Transaction(c) \/ Fail(c)

Spec == Init /\ [][Next]_vars
==============================================================================
