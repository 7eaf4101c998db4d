------------------------ MODULE BadgerStoreProperties ------------------------
(* What the badger storage should do, and the inductive invariant behind it. *)
EXTENDS BadgerStore

Atomic == INSTANCE AtomicStore

\* Every call to the storage seems to happen at one instant: the updates that look in
\* one transaction and write in another, the account that is found in two, and the
\* status updates that conflict, which fail only if the status is no longer the one
\* they expect.
StoreIsAtomic == Atomic!Spec

\* The states of a challenge that has gone past the one op expects.
Beyond(op) == {"valid", "invalid"} \cup (IF op = "setProcessing" THEN {"processing"} ELSE {})

\* A call is where it can be, and what an earlier transaction of it found still holds.
CallsInv ==
  \A c \in Clients :
    /\ (call[c] = None) = (step[c] = "idle")
    /\ step[c] = "write" =>
         \/ call[c].op = "updateDocument" /\ documents[call[c].on] # None
         \/ call[c].op = "updateAccount" /\ accounts[call[c].on] # None
    /\ step[c] = "get" =>
         call[c].op = "getAccountByKey" /\ seen[c] # None
           /\ accounts[seen[c]] # None /\ accounts[seen[c]].key = call[c].on
    /\ step[c] = "commit" => call[c].op \in StatusUpdates

\* The transactions badger will refuse are those whose challenge has moved on.
ConflictsInv ==
  /\ \A c \in Clients : step[c] = "commit" =>
       IF c \in overtaken THEN challenges[call[c].on] \in Beyond(call[c].op)
       ELSE challenges[call[c].on] = Expected(call[c].op)
  /\ \A c \in overtaken : step[c] = "commit"

\* Nobody creates what is there or creates it with another, or changes an account's key.
CallersInv ==
  \A c \in Clients : call[c] # None =>
    /\ call[c].op = "createAccount" => accounts[call[c].on] = None
    /\ call[c].op = "createChallenge" => challenges[call[c].on] = "absent"
    /\ call[c].op \in {"createAccount", "createChallenge"} =>
         \A d \in Clients \ {c} : call[d] # None =>
           ~(call[d].op = call[c].op /\ call[d].on = call[c].on)
    /\ call[c].op \in AccountWrites => SameKey(call[c])

\* An index entry leads to an account with that key, and every account's key has one.
IndexInv ==
  /\ \A k \in Keys : keyIndex[k] # None =>
       accounts[keyIndex[k]] # None /\ accounts[keyIndex[k]].key = k
  /\ \A a \in AccountIds : accounts[a] # None => keyIndex[accounts[a].key] # None

StoreInv == TypeOK /\ CallsInv /\ ConflictsInv /\ CallersInv /\ IndexInv
==============================================================================
