-------------------------- MODULE BadgerStoreProofs --------------------------
(* Theorems about BadgerStore, for any number of clients and objects.      *)
EXTENDS BadgerStoreProperties, TLAPS

\* What every call is, whatever its operation.
LEMMA CallShape ==
  ASSUME NEW k \in Calls
  PROVE  /\ k # None
         /\ k.op \in {"createDocument", "updateDocument"} =>
              k.on \in Documents /\ k.with \in Contents
         /\ k.op = "getDocument" => k.on \in Documents
         /\ k.op \in {"getOrdersByAccount", "getAccount"} => k.on \in AccountIds
         /\ k.op \in AccountWrites =>
              k.on \in AccountIds /\ k.with \in AccountContents
         /\ k.op = "getAccountByKey" => k.on \in Keys
         /\ k.op \in {"createChallenge", "getChallenge"} \cup StatusUpdates =>
              k.on \in ChallengeIds
  BY StoreCallsAssumption DEF Calls, AccountWrites, StatusUpdates

LEMMA InitInv == Init => StoreInv
  <1> SUFFICES ASSUME Init PROVE StoreInv OBVIOUS
  <1>1. TypeOK BY DEF Init, TypeOK, Steps, ChallengeStates
  <1>2. CallsInv /\ ConflictsInv BY DEF Init, CallsInv, ConflictsInv
  <1>3. CallersInv /\ IndexInv BY StoreCallsAssumption DEF Init, CallersInv, IndexInv
  <1> QED BY <1>1, <1>2, <1>3 DEF StoreInv

-----------------------------------------------------------------------------
(* Steps that leave the database alone.                                    *)

\* A call that ends without having changed anything keeps the invariant.
LEMMA AnswerKeeps ==
  ASSUME StoreInv, NEW c \in Clients, NEW a, Answer(c, a), UNCHANGED db,
         overtaken' = overtaken \/ overtaken' = overtaken \ {c},
         step[c] = "commit" => overtaken' = overtaken \ {c}
  PROVE  StoreInv'
  <1>0. TypeOK /\ CallsInv /\ ConflictsInv /\ CallersInv /\ IndexInv BY DEF StoreInv
  <1>1. TypeOK' BY <1>0 DEF Answer, TypeOK, Steps, db
  <1>2. CallsInv' BY <1>0 DEF Answer, TypeOK, CallsInv, db
  <1>3. ConflictsInv' BY <1>0 DEF Answer, TypeOK, ConflictsInv, db
  <1>4. CallersInv' BY <1>0 DEF Answer, TypeOK, CallersInv, SameKey, Writes, db
  <1>5. IndexInv' BY <1>0 DEF IndexInv, db
  <1> QED BY <1>1, <1>2, <1>3, <1>4, <1>5 DEF StoreInv

\* A call that goes on with its next transaction keeps it, if that may begin.
LEMMA ContinueKeeps ==
  ASSUME StoreInv, NEW c \in Clients, NEW s \in {"write", "get", "commit"},
         NEW x \in AccountIds \cup {None}, step[c] = "first",
         Continue(c, s, x), UNCHANGED <<db, overtaken>>,
         s = "write" =>
           \/ call[c].op = "updateDocument" /\ documents[call[c].on] # None
           \/ call[c].op = "updateAccount" /\ accounts[call[c].on] # None,
         s = "get" =>
           /\ call[c].op = "getAccountByKey" /\ x # None
           /\ accounts[x] # None /\ accounts[x].key = call[c].on,
         s = "commit" =>
           /\ call[c].op \in StatusUpdates
           /\ challenges[call[c].on] = Expected(call[c].op)
  PROVE  StoreInv'
  <1>0. TypeOK /\ CallsInv /\ ConflictsInv /\ CallersInv /\ IndexInv BY DEF StoreInv
  <1>1. TypeOK' BY <1>0 DEF Continue, TypeOK, Steps, db
  <1>2. CallsInv' BY <1>0 DEF Continue, TypeOK, CallsInv, db
  <1>3. ConflictsInv' BY <1>0 DEF Continue, TypeOK, ConflictsInv, db
  <1>4. CallersInv' BY <1>0 DEF Continue, TypeOK, CallersInv, SameKey, Writes, db
  <1>5. IndexInv' BY <1>0 DEF IndexInv, db
  <1> QED BY <1>1, <1>2, <1>3, <1>4, <1>5 DEF StoreInv

LEMMA TransactionsWithoutWrites ==
  ASSUME StoreInv, NEW c \in Clients,
         \/ GetDocument(c) \/ DocumentNotFound(c) \/ GetOrdersByAccount(c)
         \/ GetChallenge(c) \/ ChallengeNotFound(c) \/ StatusMismatch(c) \/ Conflict(c)
         \/ GetAccount(c) \/ AccountNotFound(c) \/ KeyNotFound(c) \/ Fail(c)
  PROVE  StoreInv'
  <1>1. PICK a : Answer(c, a)
    BY DEF GetDocument, DocumentNotFound, GetOrdersByAccount, GetChallenge,
           ChallengeNotFound, StatusMismatch, Conflict, GetAccount, AccountNotFound,
           KeyNotFound, Fail
  <1>2. /\ UNCHANGED db
        /\ overtaken' = overtaken \/ overtaken' = overtaken \ {c}
        /\ step[c] = "commit" => overtaken' = overtaken \ {c}
    BY DEF GetDocument, DocumentNotFound, GetOrdersByAccount, GetChallenge,
           ChallengeNotFound, StatusMismatch, Conflict, GetAccount, AccountNotFound,
           KeyNotFound, Fail, At
  <1> QED BY <1>1, <1>2, AnswerKeeps

LEMMA FirstTransactions ==
  ASSUME StoreInv, NEW c \in Clients,
         CheckDocument(c) \/ CheckAccount(c) \/ ReadChallenge(c) \/ LookupKey(c)
  PROVE  StoreInv'
  <1>0. TypeOK /\ IndexInv BY DEF StoreInv
  <1>1. CASE CheckDocument(c) BY <1>1, ContinueKeeps DEF CheckDocument, At
  <1>2. CASE CheckAccount(c) BY <1>2, ContinueKeeps DEF CheckAccount, At
  <1>3. CASE ReadChallenge(c) BY <1>3, ContinueKeeps DEF ReadChallenge, At
  <1>4. CASE LookupKey(c)
    <2> DEFINE a == keyIndex[call[c].on]
    <2>1. step[c] = "first" /\ call[c].op = "getAccountByKey" /\ a # None
      BY <1>4 DEF LookupKey, At
    <2>2. call[c] \in Calls
      BY <1>0, <2>1 DEF TypeOK, StoreInv, CallsInv
    <2>3. call[c].on \in Keys BY <2>1, <2>2, CallShape
    <2>4. a \in AccountIds /\ accounts[a] # None /\ accounts[a].key = call[c].on
      BY <1>0, <2>1, <2>3 DEF TypeOK, IndexInv
    <2> QED BY <1>4, <2>1, <2>4, ContinueKeeps DEF LookupKey
  <1> QED BY <1>1, <1>2, <1>3, <1>4

-----------------------------------------------------------------------------
(* Steps that write.                                                       *)

\* What is known of a client at a transaction that writes.
LEMMA AtWrite ==
  ASSUME StoreInv, NEW c \in Clients, NEW s \in {"first", "write", "commit"},
         NEW ops, At(c, s, ops)
  PROVE  call[c] \in Calls /\ call[c].op \in ops /\ step[c] = s
  BY DEF StoreInv, TypeOK, CallsInv, At

LEMMA PutDocumentKeeps ==
  ASSUME StoreInv, NEW c \in Clients, PutDocument(c)
  PROVE  StoreInv'
  <1>0. TypeOK /\ CallsInv /\ ConflictsInv /\ CallersInv /\ IndexInv BY DEF StoreInv
  <1>1. /\ call[c] \in Calls /\ step[c] \in {"first", "write"}
        /\ call[c].op \in {"createDocument", "updateDocument"}
    BY AtWrite DEF PutDocument
  <1>2. call[c].on \in Documents /\ call[c].with \in Contents
    BY <1>1, CallShape
  <1>3. TypeOK' BY <1>0, <1>1, <1>2 DEF PutDocument, Answer, TypeOK, Steps
  <1>4. CallsInv'
    BY <1>0, <1>1, <1>2, StoreCallsAssumption DEF PutDocument, Answer, TypeOK, CallsInv
  <1>5. ConflictsInv' BY <1>0, <1>1 DEF PutDocument, Answer, TypeOK, ConflictsInv
  <1>6. CallersInv' BY <1>0 DEF PutDocument, Answer, TypeOK, CallersInv, SameKey, Writes
  <1>7. IndexInv' BY <1>0 DEF PutDocument, IndexInv
  <1> QED BY <1>3, <1>4, <1>5, <1>6, <1>7 DEF StoreInv

LEMMA PutAccountKeeps ==
  ASSUME StoreInv, NEW c \in Clients, PutAccount(c)
  PROVE  StoreInv'
  <1>0. TypeOK /\ CallsInv /\ ConflictsInv /\ CallersInv /\ IndexInv BY DEF StoreInv
  <1> DEFINE a == call[c].on
             v == call[c].with
  <1>1. /\ call[c] \in Calls /\ step[c] \in {"first", "write"}
        /\ call[c].op \in AccountWrites
    BY AtWrite DEF PutAccount, AccountWrites
  <1>2. a \in AccountIds /\ v \in AccountContents /\ v.key \in Keys /\ v # None
    BY <1>1, CallShape, StoreCallsAssumption DEF AccountContents
  <1>3. accounts[a] # None => accounts[a].key = v.key
    BY <1>0, <1>1, CallShape DEF CallersInv, SameKey
  <1>4. accounts' = [accounts EXCEPT ![a] = v] /\ keyIndex' = [keyIndex EXCEPT ![v.key] = a]
    BY DEF PutAccount
  <1>5. /\ accounts'[a] = v
        /\ \A b \in AccountIds : b # a => accounts'[b] = accounts[b]
        /\ \A b \in AccountIds : accounts[b] # None =>
             accounts'[b] # None /\ accounts'[b].key = accounts[b].key
    BY <1>0, <1>2, <1>3, <1>4 DEF TypeOK
  <1>6. TypeOK' BY <1>0, <1>1, <1>2, <1>4 DEF PutAccount, Answer, TypeOK, Steps
  <1>7. CallsInv'
    <2> SUFFICES ASSUME NEW d \in Clients PROVE CallsInv!(d)' BY DEF CallsInv
    <2>1. CASE d = c BY <2>1, <1>0 DEF PutAccount, Answer, TypeOK
    <2>2. CASE d # c
      <3>1. /\ call'[d] = call[d] /\ step'[d] = step[d] /\ seen'[d] = seen[d]
            /\ documents' = documents
        BY <2>2, <1>0 DEF PutAccount, Answer, TypeOK
      <3>2. step[d] = "get" => seen[d] \in AccountIds BY <1>0 DEF TypeOK, CallsInv
      <3>3. step[d] = "write" /\ call[d].op = "updateAccount" => call[d].on \in AccountIds
        BY <1>0, CallShape DEF TypeOK, CallsInv, AccountWrites
      <3> QED BY <3>1, <3>2, <3>3, <1>0, <1>5 DEF CallsInv
    <2> QED BY <2>1, <2>2
  <1>8. ConflictsInv' BY <1>0, <1>1 DEF PutAccount, Answer, TypeOK, ConflictsInv
  <1>9. CallersInv'
    <2> SUFFICES ASSUME NEW d \in Clients, call'[d] # None PROVE CallersInv!(d)!2'
      BY DEF CallersInv
    <2>1. d # c /\ call'[d] = call[d] /\ call[d] \in Calls /\ challenges' = challenges
      BY <1>0 DEF PutAccount, Answer, TypeOK
    <2>2. \A e \in Clients : call'[e] # None => call'[e] = call[e]
      BY <1>0 DEF PutAccount, Answer, TypeOK
    <2>3. call[d].op \in AccountWrites => call[d].on \in AccountIds
      BY <2>1, CallShape
    <2>4. ASSUME call[d].op \in AccountWrites PROVE SameKey(call[d])'
      <3>1. SameKey(call[d]) BY <2>1, <2>4, <1>0 DEF CallersInv
      <3>2. call[d].on = a => call[d].with.key = v.key
        BY <3>1, <1>1, CallShape DEF SameKey, Writes
      <3>3. \A e \in Clients : Writes(e, call[d].on)' => call'[e].with.key = call[d].with.key
        BY <3>1, <2>2 DEF SameKey, Writes
      <3>4. accounts'[call[d].on] # None => accounts'[call[d].on].key = call[d].with.key
        BY <3>1, <3>2, <2>3, <2>4, <1>5 DEF SameKey
      <3> QED BY <3>3, <3>4, <2>1 DEF SameKey, Writes
    <2>5. ASSUME call[d].op = "createAccount" PROVE accounts'[call[d].on] = None
      <3>1. accounts[call[d].on] = None BY <2>5, <2>1, <1>0 DEF CallersInv
      <3>2. call[d].on # a
        <4>1. CASE call[c].op = "createAccount"
          BY <4>1, <2>1, <2>5, <1>0, <1>1, CallShape DEF CallersInv
        <4>2. CASE call[c].op # "createAccount"
          <5>1. accounts[a] # None
            BY <4>2, <1>0, AtWrite, <1>1 DEF PutAccount, CallsInv, At
          <5> QED BY <5>1, <3>1
        <4> QED BY <4>1, <4>2
      <3> QED BY <3>1, <3>2, <2>3, <2>5, <1>5 DEF AccountWrites
    <2> QED BY <2>1, <2>2, <2>4, <2>5, <1>0 DEF CallersInv
  <1>10. IndexInv'
    <2>1. ASSUME NEW k \in Keys, keyIndex'[k] # None
          PROVE  accounts'[keyIndex'[k]] # None /\ accounts'[keyIndex'[k]].key = k
      BY <2>1, <1>0, <1>2, <1>4, <1>5 DEF IndexInv, TypeOK
    <2>2. ASSUME NEW b \in AccountIds, accounts'[b] # None
          PROVE  keyIndex'[accounts'[b].key] # None
      <3>1. accounts'[b].key \in Keys BY <1>6, <2>2 DEF TypeOK, AccountContents
      <3>2. CASE b = a BY <3>2, <3>1, <1>0, <1>2, <1>4, <1>5, StoreCallsAssumption DEF TypeOK
      <3>3. CASE b # a
        BY <3>3, <3>1, <2>2, <1>0, <1>2, <1>4, <1>5, StoreCallsAssumption DEF IndexInv, TypeOK
      <3> QED BY <3>2, <3>3
    <2> QED BY <2>1, <2>2 DEF IndexInv
  <1> QED BY <1>6, <1>7, <1>8, <1>9, <1>10 DEF StoreInv

\* A step that ends the call of c and sets the challenge of c to st keeps the
\* invariant, if those who have read the challenge find that it has moved on.
LEMMA SetStatusKeeps ==
  ASSUME StoreInv, NEW c \in Clients, NEW st \in ChallengeStates \ {"absent"},
         call[c] \in Calls, call[c].on \in ChallengeIds,
         Answer(c, Done), Overtake(c, call[c].on), UNCHANGED <<documents, accounts, keyIndex>>,
         challenges' = [challenges EXCEPT ![call[c].on] = st],
         \A d \in Clients \ {c} : step[d] = "commit" /\ call[d].on = call[c].on =>
           st \in Beyond(call[d].op),
         \A d \in Clients \ {c} : call[d] # None /\ call[d].op = "createChallenge" =>
           call[d].on # call[c].on
  PROVE  StoreInv'
  <1>0. TypeOK /\ CallsInv /\ ConflictsInv /\ CallersInv /\ IndexInv BY DEF StoreInv
  <1>1. \A d \in Clients \ {c} : call'[d] = call[d] /\ step'[d] = step[d] /\ seen'[d] = seen[d]
    BY <1>0 DEF Answer, TypeOK
  <1>2. call'[c] = None /\ step'[c] = "idle" /\ c \notin overtaken'
    BY <1>0 DEF Answer, TypeOK, Overtake
  <1>3. TypeOK' BY <1>0 DEF Answer, TypeOK, Steps, Overtake
  <1>4. CallsInv' BY <1>0, <1>1, <1>2 DEF CallsInv
  <1>5. ConflictsInv'
    <2>1. ASSUME NEW d \in Clients, step'[d] = "commit"
          PROVE  IF d \in overtaken' THEN challenges'[call'[d].on] \in Beyond(call'[d].op)
                 ELSE challenges'[call'[d].on] = Expected(call'[d].op)
      <3>1. d # c /\ step[d] = "commit" /\ call'[d] = call[d] BY <2>1, <1>1, <1>2
      <3>2. call[d].on \in ChallengeIds
        BY <3>1, <1>0, CallShape DEF TypeOK, CallsInv
      <3>3. CASE call[d].on = call[c].on
        BY <3>1, <3>2, <3>3, <1>0 DEF Overtake, TypeOK
      <3>4. CASE call[d].on # call[c].on
        BY <3>1, <3>2, <3>4, <1>0 DEF Overtake, TypeOK, ConflictsInv
      <3> QED BY <3>3, <3>4
    <2>2. ASSUME NEW d \in overtaken' PROVE step'[d] = "commit"
      BY <2>2, <1>0, <1>1, <1>2 DEF Overtake, ConflictsInv, TypeOK
    <2> QED BY <2>1, <2>2 DEF ConflictsInv
  <1>6. CallersInv'
    <2> SUFFICES ASSUME NEW d \in Clients, call'[d] # None PROVE CallersInv!(d)!2'
      BY DEF CallersInv
    <2>1. d # c /\ call'[d] = call[d] /\ call[d] \in Calls BY <1>0, <1>1, <1>2 DEF TypeOK
    <2>2. \A e \in Clients : call'[e] # None => call'[e] = call[e] BY <1>1, <1>2
    <2>3. call[d].op = "createChallenge" => challenges'[call[d].on] = "absent"
      BY <2>1, <1>0, CallShape DEF CallersInv, TypeOK
    <2> QED BY <2>1, <2>2, <2>3, <1>0 DEF CallersInv, SameKey, Writes
  <1>7. IndexInv' BY <1>0 DEF IndexInv
  <1> QED BY <1>3, <1>4, <1>5, <1>6, <1>7 DEF StoreInv

LEMMA CreateChallengeKeeps ==
  ASSUME StoreInv, NEW c \in Clients, CreateChallenge(c)
  PROVE  StoreInv'
  <1>0. TypeOK /\ CallsInv /\ ConflictsInv /\ CallersInv BY DEF StoreInv
  <1>1. call[c] \in Calls /\ call[c].op = "createChallenge"
    BY AtWrite DEF CreateChallenge
  <1>2. call[c].on \in ChallengeIds /\ call[c] # None BY <1>1, CallShape
  <1>3. challenges[call[c].on] = "absent" BY <1>0, <1>1, <1>2 DEF CallersInv
  <1>4. \A d \in Clients : step[d] = "commit" => call[d].on # call[c].on
    BY <1>0, <1>3 DEF ConflictsInv, Beyond, Expected
  <1>5. \A d \in Clients \ {c} : call[d] # None /\ call[d].op = "createChallenge" =>
          call[d].on # call[c].on
    BY <1>0, <1>1, <1>2 DEF CallersInv
  <1> QED BY <1>1, <1>2, <1>4, <1>5, SetStatusKeeps DEF CreateChallenge, ChallengeStates

LEMMA CommitChallengeKeeps ==
  ASSUME StoreInv, NEW c \in Clients, CommitChallenge(c)
  PROVE  StoreInv'
  <1>0. TypeOK /\ CallsInv /\ ConflictsInv /\ CallersInv BY DEF StoreInv
  <1> DEFINE st == Updated(call[c].op)
  <1>1. call[c] \in Calls /\ call[c].op \in StatusUpdates /\ step[c] = "commit"
    BY AtWrite DEF CommitChallenge
  <1>2. call[c].on \in ChallengeIds BY <1>1, CallShape
  <1>3. challenges[call[c].on] = Expected(call[c].op)
    BY <1>0, <1>1 DEF CommitChallenge, ConflictsInv
  <1>4. st \in ChallengeStates \ {"absent"}
    BY <1>1 DEF Updated, StatusUpdates, ChallengeStates
  <1>5. ASSUME NEW d \in Clients \ {c}, step[d] = "commit", call[d].on = call[c].on
        PROVE  st \in Beyond(call[d].op)
    <2>1. call[d].op \in StatusUpdates BY <1>5, <1>0 DEF CallsInv
    <2>2. \/ Expected(call[c].op) \in Beyond(call[d].op)
          \/ Expected(call[c].op) = Expected(call[d].op)
      BY <1>3, <1>5, <1>0 DEF ConflictsInv
    <2> QED BY <2>1, <2>2, <1>1 DEF StatusUpdates, Updated, Expected, Beyond
  <1>6. \A d \in Clients \ {c} : call[d] # None /\ call[d].op = "createChallenge" =>
          call[d].on # call[c].on
    BY <1>0, <1>3 DEF CallersInv, Expected
  <1> QED BY <1>1, <1>2, <1>4, <1>5, <1>6, SetStatusKeeps DEF CommitChallenge

LEMMA InvokeKeeps ==
  ASSUME StoreInv, NEW c \in Clients, Invoke(c)
  PROVE  StoreInv'
  <1>0. TypeOK /\ CallsInv /\ ConflictsInv /\ CallersInv /\ IndexInv BY DEF StoreInv
  <1>1. PICK k \in Calls : /\ k.op \in Creations => Fresh(k)
                           /\ k.op \in AccountWrites => SameKey(k)
                           /\ call' = [call EXCEPT ![c] = k]
    BY DEF Invoke
  <1>2. call'[c] = k /\ step'[c] = "first" /\ k # None /\ call[c] = None /\ step[c] = "idle"
    BY <1>0, <1>1, CallShape DEF Invoke, TypeOK, CallsInv
  <1>3. \A d \in Clients \ {c} : call'[d] = call[d] /\ step'[d] = step[d] /\ seen'[d] = seen[d]
    BY <1>0, <1>1 DEF Invoke, TypeOK
  <1>4. TypeOK' BY <1>0, <1>1 DEF Invoke, TypeOK, Steps, db
  <1>5. CallsInv' BY <1>0, <1>2, <1>3 DEF CallsInv, Invoke, db
  <1>6. ConflictsInv'
    BY <1>0, <1>2, <1>3 DEF ConflictsInv, Invoke, TypeOK, db
  <1>7. CallersInv'
    <2> SUFFICES ASSUME NEW d \in Clients, call'[d] # None PROVE CallersInv!(d)!2'
      BY DEF CallersInv
    <2>0. UNCHANGED <<documents, challenges, accounts>> BY DEF Invoke, db
    <2>1. CASE d = c
      <3>1. k.op \in {"createAccount", "createChallenge"} =>
              \A e \in Clients \ {c} : call'[e] # None => ~(call'[e].op = k.op /\ call'[e].on = k.on)
        BY <1>1, <1>3 DEF Fresh, Creations
      <3>2. k.op \in AccountWrites => SameKey(k)'
        BY <1>1, <1>2, <1>3, <2>0 DEF SameKey, Writes
      <3> QED BY <2>1, <2>0, <3>1, <3>2, <1>1, <1>2 DEF Fresh, Creations
    <2>2. CASE d # c
      <3>1. call'[d] = call[d] /\ call[d] # None BY <2>2, <1>3
      <3>2. call[d].op \in {"createAccount", "createChallenge"} =>
              \A e \in Clients \ {d} : call'[e] # None =>
                ~(call'[e].op = call[d].op /\ call'[e].on = call[d].on)
        BY <2>2, <3>1, <1>0, <1>1, <1>2, <1>3 DEF CallersInv, Fresh, Creations
      <3>3. ASSUME call[d].op \in AccountWrites PROVE SameKey(call[d])'
        <4>1. SameKey(call[d]) BY <3>1, <3>3, <1>0 DEF CallersInv
        <4>2. Writes(c, call[d].on)' => k.with.key = call[d].with.key
          BY <3>1, <3>3, <1>1, <1>2 DEF Writes, SameKey
        <4> QED BY <4>1, <4>2, <3>1, <2>0, <1>2, <1>3 DEF SameKey, Writes
      <3> QED BY <3>1, <3>2, <3>3, <2>0, <1>0 DEF CallersInv
    <2> QED BY <2>1, <2>2
  <1>8. IndexInv' BY <1>0 DEF IndexInv, Invoke, db
  <1> QED BY <1>4, <1>5, <1>6, <1>7, <1>8 DEF StoreInv

LEMMA CrashKeeps ==
  ASSUME StoreInv, Crash
  PROVE  StoreInv'
  <1>0. TypeOK /\ IndexInv BY DEF StoreInv
  <1>1. TypeOK' BY <1>0 DEF Crash, TypeOK, Steps, db
  <1>2. CallsInv' /\ ConflictsInv' /\ CallersInv'
    BY DEF Crash, CallsInv, ConflictsInv, CallersInv
  <1>3. IndexInv' BY <1>0 DEF Crash, IndexInv, db
  <1> QED BY <1>1, <1>2, <1>3 DEF StoreInv

LEMMA StepKeeps == StoreInv /\ [Next]_vars => StoreInv'
  <1> SUFFICES ASSUME StoreInv, [Next]_vars PROVE StoreInv' OBVIOUS
  <1>1. CASE Crash BY <1>1, CrashKeeps
  <1>2. ASSUME NEW c \in Clients, Invoke(c) PROVE StoreInv' BY <1>2, InvokeKeeps
  <1>3. ASSUME NEW c \in Clients, Transaction(c) \/ Fail(c) PROVE StoreInv'
    BY <1>3, TransactionsWithoutWrites, FirstTransactions, PutDocumentKeeps, PutAccountKeeps,
       CreateChallengeKeeps, CommitChallengeKeeps DEF Transaction
  <1>4. CASE UNCHANGED vars
    BY <1>4 DEF vars, db, StoreInv, TypeOK, CallsInv, ConflictsInv, CallersInv, IndexInv,
                SameKey, Writes
  <1> QED BY <1>1, <1>2, <1>3, <1>4 DEF Next

\* What badger's conflict check, the key index and the freshness of ids amount to: what
\* one transaction of a call has found still holds at the next, a status update is
\* refused exactly if the status has moved on, and the index leads to every account.
THEOREM StoreInvariance == Spec => []StoreInv
  <1>1. StoreInv /\ [Next]_vars => StoreInv' BY StepKeeps
  <1> QED BY <1>1, InitInv, PTL DEF Spec

-----------------------------------------------------------------------------
(* Refinement: the step of a call that changes something, or that answers, *)
(* is the one instant at which it happens.                                 *)

\* Both specifications work on the same calls.
LEMMA SameCalls ==
  /\ Atomic!Calls = Calls
  /\ Atomic!ChallengeStates = ChallengeStates
  /\ Atomic!StatusUpdates = StatusUpdates
  BY DEF Calls, Atomic!Calls, Contents, Atomic!Contents, AccountContents,
         Atomic!AccountContents, ChallengeStates, Atomic!ChallengeStates,
         StatusUpdates, Atomic!StatusUpdates, AccountWrites, Atomic!AccountWrites

LEMMA AnswersAtomically ==
  ASSUME NEW c, NEW a, Answer(c, a)
  PROVE  Atomic!Answer(c, a)
  BY DEF Answer, Atomic!Answer

LEMMA WritesRefine ==
  ASSUME StoreInv, NEW c \in Clients, PutDocument(c) \/ PutAccount(c)
  PROVE  call[c] # None /\ Atomic!Write(c)
  <1>1. CASE PutDocument(c)
    <2>1. /\ call[c] # None
          /\ \/ call[c].op = "createDocument"
             \/ call[c].op = "updateDocument" /\ documents[call[c].on] # None
      BY <1>1, AtWrite, CallShape DEF PutDocument, At, StoreInv, CallsInv
    <2> QED BY <1>1, <2>1, AnswersAtomically DEF PutDocument, Atomic!Write
  <1>2. CASE PutAccount(c)
    <2>1. /\ call[c] # None
          /\ \/ call[c].op = "createAccount"
             \/ call[c].op = "updateAccount" /\ accounts[call[c].on] # None
      BY <1>2, AtWrite, CallShape DEF PutAccount, At, StoreInv, CallsInv
    <2> QED BY <1>2, <2>1, AnswersAtomically DEF PutAccount, Atomic!Write
  <1> QED BY <1>1, <1>2

LEMMA MovesRefine ==
  ASSUME StoreInv, NEW c \in Clients, CreateChallenge(c) \/ CommitChallenge(c)
  PROVE  call[c] # None /\ Atomic!Move(c)
  <1>0. TypeOK /\ CallersInv /\ ConflictsInv BY DEF StoreInv
  <1>1. CASE CreateChallenge(c)
    <2>1. call[c] # None /\ call[c].op = "createChallenge"
      BY <1>1, AtWrite, CallShape DEF CreateChallenge
    <2>2. challenges[call[c].on] = "absent" BY <2>1, <1>0 DEF CallersInv
    <2>3. <<call[c].op, challenges[call[c].on], "pending">> \in Atomic!Moves
      BY <2>1, <2>2 DEF Atomic!Moves
    <2>4. "pending" \in ChallengeStates BY DEF ChallengeStates
    <2> QED BY <1>1, <2>1, <2>3, <2>4, AnswersAtomically, SameCalls DEF CreateChallenge, Atomic!Move
  <1>2. CASE CommitChallenge(c)
    <2>1. /\ call[c] # None /\ call[c].op \in StatusUpdates
          /\ challenges[call[c].on] = Expected(call[c].op)
      BY <1>0, <1>2, AtWrite, CallShape DEF CommitChallenge, ConflictsInv
    <2>2. /\ <<call[c].op, challenges[call[c].on], Updated(call[c].op)>> \in Atomic!Moves
          /\ Updated(call[c].op) \in ChallengeStates
      BY <2>1 DEF StatusUpdates, Expected, Updated, Atomic!Moves, ChallengeStates
    <2> QED BY <1>2, <2>1, <2>2, AnswersAtomically, SameCalls DEF CommitChallenge, Atomic!Move
  <1> QED BY <1>1, <1>2

LEMMA ReadsRefine ==
  ASSUME StoreInv, NEW c \in Clients,
         GetDocument(c) \/ GetOrdersByAccount(c) \/ GetChallenge(c) \/ GetAccount(c)
  PROVE  call[c] # None /\ Atomic!Read(c)
  <1>0. TypeOK /\ CallsInv BY DEF StoreInv
  <1>1. call[c] # None
    BY <1>0 DEF GetDocument, GetOrdersByAccount, GetChallenge, GetAccount, At, CallsInv
  <1>2. CASE GetDocument(c)
    BY <1>1, <1>2, AnswersAtomically DEF GetDocument, At, Atomic!Read, db
  <1>3. CASE GetOrdersByAccount(c)
    BY <1>1, <1>3, AnswersAtomically
       DEF GetOrdersByAccount, At, Atomic!Read, OrdersOf, Atomic!OrdersOf, db
  <1>4. CASE GetChallenge(c)
    BY <1>1, <1>4, AnswersAtomically DEF GetChallenge, At, Atomic!Read, db
  <1>5. CASE GetAccount(c)
    <2>1. CASE At(c, "first", {"getAccount"})
      BY <1>1, <1>5, <2>1, AnswersAtomically DEF GetAccount, Wanted, At, Atomic!Read, db
    <2>2. CASE At(c, "get", {"getAccountByKey"})
      <3>1. /\ call[c].op = "getAccountByKey" /\ seen[c] \in AccountIds
            /\ accounts[seen[c]] # None /\ accounts[seen[c]].key = call[c].on
            /\ Wanted(c) = seen[c]
        BY <2>2, <1>0 DEF At, CallsInv, TypeOK, Wanted
      <3> QED BY <1>1, <1>5, <3>1, AnswersAtomically DEF GetAccount, Atomic!Read, db
    <2> QED BY <1>5, <2>1, <2>2 DEF GetAccount
  <1> QED BY <1>1, <1>2, <1>3, <1>4, <1>5

\* A call that fails had nothing to do, or met with a failure outside.
LEMMA FailuresRefine ==
  ASSUME StoreInv, NEW c \in Clients,
         \/ DocumentNotFound(c) \/ ChallengeNotFound(c) \/ StatusMismatch(c) \/ Conflict(c)
         \/ AccountNotFound(c) \/ KeyNotFound(c) \/ Fail(c)
  PROVE  call[c] # None /\ Atomic!Fail(c)
  <1>0. TypeOK /\ CallsInv /\ ConflictsInv /\ IndexInv BY DEF StoreInv
  <1>1. call[c] # None /\ call[c] \in Calls
    BY <1>0 DEF DocumentNotFound, ChallengeNotFound, StatusMismatch, Conflict, AccountNotFound,
                KeyNotFound, Fail, At, CallsInv, TypeOK
  <1>2. Answer(c, Error) /\ UNCHANGED <<documents, challenges, accounts>>
    BY DEF DocumentNotFound, ChallengeNotFound, StatusMismatch, Conflict, AccountNotFound,
           KeyNotFound, Fail, db
  <1>3. MayFail \/ Atomic!Pointless(call[c])
    <2>1. CASE DocumentNotFound(c) BY <2>1 DEF DocumentNotFound, At, Atomic!Pointless
    <2>2. CASE ChallengeNotFound(c) BY <2>2 DEF ChallengeNotFound, At, Atomic!Pointless
    <2>3. CASE StatusMismatch(c)
      BY <2>3, SameCalls DEF StatusMismatch, At, Atomic!Pointless, Atomic!Moves, Expected, StatusUpdates
    <2>4. CASE Conflict(c)
      <3>1. call[c].op \in StatusUpdates /\ challenges[call[c].on] \in Beyond(call[c].op)
        BY <2>4, <1>0 DEF Conflict, At, ConflictsInv
      <3> QED BY <3>1, SameCalls DEF Atomic!Pointless, Atomic!Moves, Beyond, StatusUpdates
    <2>5. CASE AccountNotFound(c)
      BY <2>5, <1>0 DEF AccountNotFound, At, Wanted, Atomic!Pointless, CallsInv
    <2>6. CASE KeyNotFound(c)
      <3>1. /\ call[c].op = "getAccountByKey" /\ call[c].on \in Keys
            /\ keyIndex[call[c].on] = None
        BY <2>6, <1>1, CallShape DEF KeyNotFound, At
      <3>2. \A a \in AccountIds : accounts[a] # None => accounts[a].key # call[c].on
        BY <3>1, <1>0 DEF IndexInv
      <3> QED BY <3>1, <3>2 DEF Atomic!Pointless
    <2>7. CASE Fail(c) BY <2>7 DEF Fail
    <2> QED BY <2>1, <2>2, <2>3, <2>4, <2>5, <2>6, <2>7
  <1> QED BY <1>1, <1>2, <1>3, AnswersAtomically DEF Atomic!Fail

LEMMA StepRefines == StoreInv /\ [Next]_vars => [Atomic!Next]_(Atomic!vars)
  <1> SUFFICES ASSUME StoreInv, [Next]_vars PROVE Atomic!Next \/ UNCHANGED Atomic!vars OBVIOUS
  <1>1. CASE Crash BY <1>1 DEF Crash, db, Atomic!Next, Atomic!Crash
  <1>2. ASSUME NEW c \in Clients, Invoke(c) PROVE Atomic!Next
    BY <1>2, SameCalls DEF Invoke, db, Atomic!Next, Atomic!Invoke
  <1>3. ASSUME NEW c \in Clients, Transaction(c) \/ Fail(c) PROVE Atomic!Next
    <2>1. CASE CheckDocument(c) \/ CheckAccount(c) \/ ReadChallenge(c) \/ LookupKey(c)
      BY <2>1 DEF CheckDocument, CheckAccount, ReadChallenge, LookupKey, Continue, db,
                  Atomic!Next, Atomic!Quiet
    <2>2. CASE ~(CheckDocument(c) \/ CheckAccount(c) \/ ReadChallenge(c) \/ LookupKey(c))
      <3>1. call[c] # None /\
              (Atomic!Write(c) \/ Atomic!Move(c) \/ Atomic!Read(c) \/ Atomic!Fail(c))
        BY <1>3, <2>2, WritesRefine, MovesRefine, ReadsRefine, FailuresRefine DEF Transaction
      <3> QED BY <3>1 DEF Atomic!Next
    <2> QED BY <2>1, <2>2
  <1>4. CASE UNCHANGED vars BY <1>4 DEF vars, db, Atomic!vars
  <1> QED BY <1>1, <1>2, <1>3, <1>4 DEF Next

\* Every call to the storage happens at one instant, whatever the number of clients and
\* of objects: none is lost between two transactions of another call, and none fails
\* because of another one, except a status update that came too late.
THEOREM StoreRefinesAtomic == Spec => StoreIsAtomic
  <1>1. Init => Atomic!Init BY DEF Init, Atomic!Init
  <1>2. StoreInv /\ [Next]_vars => [Atomic!Next]_(Atomic!vars) BY StepRefines
  <1> QED BY <1>1, <1>2, StoreInvariance, PTL DEF Spec, Atomic!Spec, StoreIsAtomic
==============================================================================
