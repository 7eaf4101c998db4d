----------------------------- MODULE AtomicStore -----------------------------
(***************************************************************************)
(* What the handlers take the storage for: every call happens at one       *)
(* instant between its beginning and its answer, on one copy of the        *)
(* objects, and fails only for a reason its caller can see.                *)
(***************************************************************************)
EXTENDS StoreCalls

CONSTANTS
  Clients,   \* goroutines that call the storage
  MayFail    \* BOOLEAN: calls may fail for reasons outside the storage

VARIABLES
  documents,   \* Documents -> contents, None if not stored
  challenges,  \* ChallengeIds -> status
  accounts,    \* AccountIds -> contents, None if not stored
  call,        \* Clients -> the call under way, or None
  reply        \* whom the last step answered, and what; None if nobody

vars == <<documents, challenges, accounts, call, reply>>

Init ==
  /\ documents = [d \in Documents |-> None]
  /\ challenges = [h \in ChallengeIds |-> "absent"]
  /\ accounts = [a \in AccountIds |-> None]
  /\ call = [c \in Clients |-> None]
  /\ reply = None

\* A call begins.
Invoke(c) ==
  /\ call[c] = None
  /\ \E k \in Calls : call' = [call EXCEPT ![c] = k]
  /\ reply' = None
  /\ UNCHANGED <<documents, challenges, accounts>>

Answer(c, a) ==
  /\ call' = [call EXCEPT ![c] = None]
  /\ reply' = [to |-> c, with |-> a]

Write(c) ==
  LET k == call[c]
  IN  /\ Answer(c, Done)
      /\ \/ /\ k.op = "createDocument" \/ (k.op = "updateDocument" /\ documents[k.on] # None)
            /\ documents' = [documents EXCEPT ![k.on] = k.with]
            /\ UNCHANGED <<challenges, accounts>>
         \/ /\ k.op = "createAccount" \/ (k.op = "updateAccount" /\ accounts[k.on] # None)
            /\ accounts' = [accounts EXCEPT ![k.on] = k.with]
            /\ UNCHANGED <<documents, challenges>>

\* From which state to which each call takes a challenge.
Moves == {<<"createChallenge", "absent", "pending">>,
          <<"setProcessing", "pending", "processing">>,
          <<"setValid", "processing", "valid">>,
          <<"setInvalid", "processing", "invalid">>}

Move(c) ==
  /\ call[c].op \in {"createChallenge"} \cup StatusUpdates
  /\ \E status \in ChallengeStates :
       /\ <<call[c].op, challenges[call[c].on], status>> \in Moves
       /\ challenges' = [challenges EXCEPT ![call[c].on] = status]
  /\ Answer(c, Done)
  /\ UNCHANGED <<documents, accounts>>

OrdersOf(a) == {d \in Documents : documents[d] # None /\ documents[d].acct = a}

Read(c) ==
  LET k == call[c]
  IN  /\ \/ k.op = "getDocument" /\ documents[k.on] # None /\ Answer(c, documents[k.on])
         \/ k.op = "getOrdersByAccount"
              /\ Answer(c, [d \in OrdersOf(k.on) |-> documents[d].data])
         \/ k.op = "getChallenge" /\ challenges[k.on] # "absent" /\ Answer(c, challenges[k.on])
         \/ k.op = "getAccount" /\ accounts[k.on] # None /\ Answer(c, accounts[k.on])
         \/ k.op = "getAccountByKey" /\ \E a \in AccountIds :
              accounts[a] # None /\ accounts[a].key = k.on /\ Answer(c, accounts[a])
      /\ UNCHANGED <<documents, challenges, accounts>>

\* There is nothing the call could do.
Pointless(k) ==
  \/ k.op \in {"getDocument", "updateDocument"} /\ documents[k.on] = None
  \/ k.op \in {"getAccount", "updateAccount"} /\ accounts[k.on] = None
  \/ k.op = "getAccountByKey"
       /\ \A a \in AccountIds : accounts[a] # None => accounts[a].key # k.on
  \/ k.op = "getChallenge" /\ challenges[k.on] = "absent"
  \/ k.op \in StatusUpdates
       /\ \A status \in ChallengeStates : <<k.op, challenges[k.on], status>> \notin Moves

Fail(c) ==
  /\ MayFail \/ Pointless(call[c])
  /\ Answer(c, Error)
  /\ UNCHANGED <<documents, challenges, accounts>>

\* The process dies with its calls.
Crash ==
  /\ call' = [c \in Clients |-> None]
  /\ reply' = None
  /\ UNCHANGED <<documents, challenges, accounts>>

\* Nobody is answered.
Quiet == reply' = None /\ UNCHANGED <<documents, challenges, accounts, call>>

Next ==
  \/ \E c \in Clients :
       \/ Invoke(c)
       \/ call[c] # None /\ (Write(c) \/ Move(c) \/ Read(c) \/ Fail(c))
  \/ Crash \/ Quiet

Spec == Init /\ [][Next]_vars
==============================================================================
