---------------------------- MODULE RequestsProofs ----------------------------
(***************************************************************************)
(* Proofs that RInv is an inductive invariant of Requests, of the safety   *)
(* properties it implies, and that nonces implement OneTimeTokens, for     *)
(* every value of the constants.                                           *)
(***************************************************************************)
EXTENDS RequestsInvariant, TLAPS

\* The step of handler h leaves the other handlers where they are.
Others(h) == \A g \in Handlers : g # h => pc'[g] = pc[g] /\ loc'[g] = loc[g]

\* The step of h does not make it one that is let through.
NotLetThrough(h) == Verified(h)' => Verified(h) /\ loc'[h].nonce = loc[h].nonce

\* A handler moves on with new local variables.
LEMMA Move ==
  ASSUME TypeOK, NEW h \in Handlers, NEW p \in Steps, NEW l \in Locals, Goto(h, p), Local(h, l)
  PROVE  /\ pc' \in [Handlers -> Steps] /\ loc' \in [Handlers -> Locals]
         /\ pc'[h] = p /\ loc'[h] = l /\ Others(h)
BY DEF TypeOK, Goto, Local, Others

\* To leave the local variables of a handler alone is to set them to what they are.
LEMMA Stay ==
  ASSUME TypeOK, NEW h \in Handlers, UNCHANGED loc
  PROVE  Local(h, loc[h])
BY DEF TypeOK, Local

\* The initial local variables are well typed.
LEMMA NoLocalsType == NoLocals \in Locals
BY RequestsAssumption DEF NoLocals, Locals

\* A step that leaves the stored objects and the count of requests let through.
LEMMA LocalStep ==
  ASSUME RInv, NEW h \in Handlers, Others(h), NotLetThrough(h), TypeOK', RequestOK(h)',
         UNCHANGED <<storage, drawn, grants>>
  PROVE  RInv'
<1>1. NoncesOK' /\ KeyIndexed'
  BY DEF RInv, NoncesOK, KeyIndexed, storage
<1>2. SoleBearer'
  BY DEF RInv, SoleBearer, Others, NotLetThrough, Verified
<1>3. ASSUME NEW g \in Handlers, g # h
      PROVE  RequestOK(g)'
  <2>1. RequestOK(g) /\ pc'[g] = pc[g] /\ loc'[g] = loc[g]
    BY <1>3 DEF RInv, Others
  <2> QED
    BY <2>1 DEF RequestOK, ClaimedKey, Verified, storage
<1> QED
  BY <1>1, <1>2, <1>3 DEF RInv

\* The local part of such a step.
LEMMA LocalMove ==
  ASSUME RInv, NEW h \in Handlers, NEW p \in Steps, NEW l \in Locals, Goto(h, p), Local(h, l),
         UNCHANGED <<storage, drawn, grants>>, now' \in 0 .. MaxTime, known' \subseteq NonceValues
  PROVE  /\ TypeOK' /\ pc'[h] = p /\ loc'[h] = l /\ Others(h)
         /\ (NotLetThrough(h) /\ RequestOK(h)' => RInv')
<1>1. TypeOK
  BY DEF RInv
<1>2. /\ pc' \in [Handlers -> Steps] /\ loc' \in [Handlers -> Locals]
      /\ pc'[h] = p /\ loc'[h] = l /\ Others(h)
  BY <1>1, Move
<1>3. TypeOK'
  BY <1>1, <1>2 DEF TypeOK, storage
<1> QED
  BY <1>2, <1>3, LocalStep

\* A request is turned down, or a request for a nonce is answered.
LEMMA ResultStep ==
  ASSUME RInv, NEW h \in Handlers, NEW l \in Locals, NEW r \in {"nonce"} \cup Problems,
         Result(h, l, r), UNCHANGED <<now, storage, drawn, known, grants>>
  PROVE  RInv'
<1> DEFINE m == [l EXCEPT !.result = r]
<1>1. m \in Locals /\ m.result = r /\ "reply" \in Steps
  BY DEF Locals, Steps, Successes
<1>2. Local(h, m) /\ Goto(h, "reply")
  BY DEF Result
<1>3. now' \in 0 .. MaxTime /\ known' \subseteq NonceValues
  BY DEF RInv, TypeOK
<1> HIDE DEF m
<1>4. pc'[h] = "reply" /\ loc'[h] = m /\ (NotLetThrough(h) /\ RequestOK(h)' => RInv')
  BY <1>1, <1>2, <1>3, LocalMove
<1>5. ~Verified(h)'
  BY <1>1, <1>4 DEF Verified, Problems
<1> QED
  BY <1>4, <1>5 DEF RequestOK, NotLetThrough, Arriving, Verifying, Acting

-----------------------------------------------------------------------------
(* The steps.                                                              *)

\* A client asks for a nonce, or sends what is not a request.
LEMMA PlainStep ==
  ASSUME RInv, NEW h \in Handlers, NewNonce(h) \/ Refuse(h)
  PROVE  RInv'
BY ResultStep, NoLocalsType DEF NewNonce, Refuse, Problems

\* A newAccount request arrives.
LEMMA NewAccountStep ==
  ASSUME RInv, NEW h \in Handlers, NEW n \in known, NEW jwk \in Keys, NEW signer \in Keys,
         NEW only \in BOOLEAN, NewAccount(h, n, jwk, signer, only)
  PROVE  RInv'
<1> DEFINE l == [NoLocals EXCEPT !.nonce = n, !.signer = signer, !.jwk = jwk, !.pub = jwk,
                                 !.only = only]
<1>1. n \in NonceValues /\ now \in 0 .. MaxTime /\ known \subseteq NonceValues
  BY DEF RInv, TypeOK
<1>2. /\ l \in Locals /\ l.nonce = n /\ l.jwk = jwk /\ l.pub = jwk /\ l.kid = None
      /\ l.result = None
  BY <1>1, NoLocalsType DEF Locals, NoLocals
<1>3. /\ Local(h, l) /\ Goto(h, "readNonce") /\ "readNonce" \in Steps
      /\ UNCHANGED <<now, storage, drawn, known, grants>>
  BY DEF NewAccount, Steps
<1> HIDE DEF l
<1>4. pc'[h] = "readNonce" /\ loc'[h] = l /\ (NotLetThrough(h) /\ RequestOK(h)' => RInv')
  BY <1>1, <1>2, <1>3, LocalMove
<1>5. ~Verified(h)'
  BY <1>2, <1>4, RequestsAssumption DEF Verified, Successes
<1>6. RequestOK(h)'
  BY <1>1, <1>2, <1>4, <1>5, RequestsAssumption DEF RequestOK, Arriving, Verifying, Acting, ClaimedKey
<1> QED
  BY <1>4, <1>5, <1>6 DEF NotLetThrough

\* Any other POST arrives.
LEMMA PostStep ==
  ASSUME RInv, NEW h \in Handlers, NEW n \in known, NEW a \in AccountIds, NEW signer \in Keys,
         Post(h, n, a, signer)
  PROVE  RInv'
<1> DEFINE l == [NoLocals EXCEPT !.nonce = n, !.signer = signer, !.kid = a]
<1>1. n \in NonceValues /\ now \in 0 .. MaxTime /\ known \subseteq NonceValues
  BY DEF RInv, TypeOK
<1>2. l \in Locals /\ l.nonce = n /\ l.kid = a /\ l.result = None
  BY <1>1, NoLocalsType DEF Locals, NoLocals
<1>3. /\ Local(h, l) /\ Goto(h, "lookupJWK") /\ "lookupJWK" \in Steps
      /\ UNCHANGED <<now, storage, drawn, known, grants>>
  BY DEF Post, Steps
<1> HIDE DEF l
<1>4. pc'[h] = "lookupJWK" /\ loc'[h] = l /\ (NotLetThrough(h) /\ RequestOK(h)' => RInv')
  BY <1>1, <1>2, <1>3, LocalMove
<1>5. ~Verified(h)'
  BY <1>2, <1>4, RequestsAssumption DEF Verified, Successes
<1>6. RequestOK(h)'
  BY <1>1, <1>2, <1>4, <1>5 DEF RequestOK, Arriving, Verifying, Acting
<1> QED
  BY <1>4, <1>5, <1>6 DEF NotLetThrough

\* The key of the account is looked up.
LEMMA LookupJWKStep ==
  ASSUME RInv, NEW h \in Handlers, LookupJWK(h)
  PROVE  RInv'
<1> DEFINE key == accounts[loc[h].kid]
           l == [loc[h] EXCEPT !.pub = key]
<1>1. /\ pc[h] = "lookupJWK" /\ loc[h] \in Locals /\ RequestOK(h) /\ TypeOK
      /\ UNCHANGED <<now, storage, drawn, known, grants>>
  BY DEF LookupJWK, RInv, TypeOK
<1>2. CASE Result(h, loc[h], "noAccount")
  BY <1>1, <1>2, ResultStep DEF Problems
<1>3. CASE key # None /\ Local(h, l) /\ Goto(h, "readNonce")
  <2>1. /\ loc[h].kid \in AccountIds /\ loc[h].kid # None /\ loc[h].result = None
        /\ loc[h].nonce \in NonceValues
    BY <1>1, RequestsAssumption DEF RequestOK, Arriving
  <2>2. /\ l \in Locals /\ l.pub = key /\ l.kid = loc[h].kid /\ l.nonce = loc[h].nonce
        /\ l.result = None /\ "readNonce" \in Steps
    BY <1>1, <2>1 DEF TypeOK, Locals, Steps
  <2> HIDE DEF l
  <2>3. now' \in 0 .. MaxTime /\ known' \subseteq NonceValues
    BY <1>1 DEF TypeOK
  <2>4. pc'[h] = "readNonce" /\ loc'[h] = l /\ (NotLetThrough(h) /\ RequestOK(h)' => RInv')
    BY <1>1, <1>3, <2>2, <2>3, LocalMove
  <2>5. ~Verified(h)'
    BY <2>2, <2>4, RequestsAssumption DEF Verified, Successes
  <2>6. RequestOK(h)'
    BY <1>1, <1>3, <2>1, <2>2, <2>4, <2>5
    DEF RequestOK, Arriving, Verifying, Acting, ClaimedKey, storage
  <2> QED
    BY <2>4, <2>5, <2>6 DEF NotLetThrough
<1> QED
  BY <1>2, <1>3 DEF LookupJWK

\* The nonce is read.
LEMMA ReadNonceStep ==
  ASSUME RInv, NEW h \in Handlers, ReadNonce(h)
  PROVE  RInv'
<1> DEFINE born == nonces[loc[h].nonce]
           l == [loc[h] EXCEPT !.seen = born]
<1>1. /\ pc[h] = "readNonce" /\ loc[h] \in Locals /\ RequestOK(h) /\ TypeOK
      /\ UNCHANGED <<now, storage, drawn, known, grants>>
  BY DEF ReadNonce, RInv, TypeOK
<1>2. CASE Result(h, loc[h], "badNonce")
  BY <1>1, <1>2, ResultStep DEF Problems
<1>3. CASE Fresh(born) /\ Local(h, l) /\ Goto(h, "commitNonce")
  <2>1. loc[h].result = None /\ loc[h].nonce \in NonceValues /\ born # None
    BY <1>1, <1>3 DEF RequestOK, Arriving, Fresh
  <2>2. /\ l \in Locals /\ l.pub = loc[h].pub /\ l.kid = loc[h].kid /\ l.nonce = loc[h].nonce
        /\ l.jwk = loc[h].jwk /\ l.result = None /\ l.seen = born /\ "commitNonce" \in Steps
    BY <1>1, <2>1 DEF TypeOK, Locals, Steps
  <2> HIDE DEF l
  <2>3. now' \in 0 .. MaxTime /\ known' \subseteq NonceValues
    BY <1>1 DEF TypeOK
  <2>4. pc'[h] = "commitNonce" /\ loc'[h] = l /\ (NotLetThrough(h) /\ RequestOK(h)' => RInv')
    BY <1>1, <1>3, <2>2, <2>3, LocalMove
  <2>5. ~Verified(h)'
    BY <2>2, <2>4, RequestsAssumption DEF Verified, Successes
  <2>6. RequestOK(h)'
    BY <1>1, <2>1, <2>2, <2>4, <2>5
    DEF RequestOK, Arriving, Verifying, Acting, ClaimedKey, storage
  <2> QED
    BY <2>4, <2>5, <2>6 DEF NotLetThrough
<1> QED
  BY <1>2, <1>3 DEF ReadNonce

\* What a request may count on whose nonce is about to be consumed: no other
\* request has been let through by it.
LEMMA AtCommit ==
  ASSUME RInv, NEW h \in Handlers, pc[h] = "commitNonce", Undisturbed(h)
  PROVE  /\ TypeOK /\ loc[h] \in Locals /\ RequestOK(h) /\ loc[h].result = None
         /\ loc[h].nonce \in NonceValues /\ loc[h].nonce \in drawn
         /\ nonces[loc[h].nonce] # None /\ grants[loc[h].nonce] = 0
         /\ \A g \in Handlers : Verified(g) => loc[g].nonce # loc[h].nonce
<1>1. TypeOK /\ loc[h] \in Locals /\ RequestOK(h)
  BY DEF RInv, TypeOK
<1>2. loc[h].nonce \in NonceValues /\ loc[h].result = None /\ loc[h].seen # None
  BY <1>1 DEF RequestOK, Arriving
<1>3. /\ nonces[loc[h].nonce] # None /\ grants[loc[h].nonce] = 0
      /\ loc[h].nonce \in drawn
  BY <1>2 DEF Undisturbed, RInv, NoncesOK
<1>4. \A g \in Handlers : Verified(g) => loc[g].nonce # loc[h].nonce
  BY <1>3 DEF RInv, RequestOK
<1> QED
  BY <1>1, <1>2, <1>3, <1>4

\* The nonce is consumed, and the request let through if its signature is valid.
LEMMA CommitNonceStep ==
  ASSUME RInv, NEW h \in Handlers, CommitNonce(h)
  PROVE  RInv'
<1> DEFINE n == loc[h].nonce
<1>1. /\ pc[h] = "commitNonce" /\ TypeOK /\ loc[h] \in Locals
      /\ UNCHANGED <<now, accounts, keyIndex, drawn, known>>
  BY DEF CommitNonce, RInv, TypeOK
<1>2. CASE Result(h, loc[h], "badNonce") /\ UNCHANGED <<nonces, grants>>
  BY <1>1, <1>2, ResultStep DEF Problems, storage
<1>3. CASE /\ Undisturbed(h)
           /\ nonces' = [nonces EXCEPT ![n] = None]
           /\ grants' = [grants EXCEPT ![n] = @ + 1]
           /\ \/ SignatureValid(h) /\ loc[h].kid # None /\ Result(h, loc[h], "served")
              \/ SignatureValid(h) /\ loc[h].kid = None /\ Goto(h, "findAccount") /\ UNCHANGED loc
              \/ (SignatureValid(h) => loc[h].kid = None) /\ Result(h, loc[h], "malformed")
  <2>1. /\ RequestOK(h) /\ loc[h].result = None /\ n \in NonceValues /\ n \in drawn
        /\ nonces[n] # None /\ grants[n] = 0
        /\ \A g \in Handlers : Verified(g) => loc[g].nonce # n
    BY <1>1, <1>3, AtCommit
  <2>2. PICK p \in {"findAccount", "reply"}, r \in {None, "served", "malformed"} :
          /\ Goto(h, p) /\ Local(h, [loc[h] EXCEPT !.result = r])
          /\ r = "served" \/ p = "findAccount" => SignatureValid(h)
          /\ p = "findAccount" => loc[h].kid = None /\ r = None
    <3>1. CASE SignatureValid(h) /\ loc[h].kid # None /\ Result(h, loc[h], "served")
      BY <3>1, RequestsAssumption DEF Result, Successes
    <3>2. CASE SignatureValid(h) /\ loc[h].kid = None /\ Goto(h, "findAccount") /\ UNCHANGED loc
      <4>1. loc[h] = [loc[h] EXCEPT !.result = None]
        BY <1>1, <2>1 DEF Locals
      <4> QED
        BY <1>1, <3>2, <4>1, Stay, RequestsAssumption DEF Successes
    <3>3. CASE (SignatureValid(h) => loc[h].kid = None) /\ Result(h, loc[h], "malformed")
      BY <3>3 DEF Result
    <3> QED
      BY <1>3, <3>1, <3>2, <3>3
  <2> DEFINE l == [loc[h] EXCEPT !.result = r]
  <2>3. /\ l \in Locals /\ l.nonce = n /\ l.kid = loc[h].kid /\ l.jwk = loc[h].jwk
        /\ l.signer = loc[h].signer /\ l.result = r /\ p \in Steps
    BY <1>1, <2>2 DEF Locals, Steps, Successes, Problems
  <2> HIDE DEF l
  <2>4. /\ pc' \in [Handlers -> Steps] /\ loc' \in [Handlers -> Locals]
        /\ pc'[h] = p /\ loc'[h] = l /\ Others(h)
    BY <1>1, <2>2, <2>3, Move DEF l
  <2>5. \A m \in NonceValues :
          /\ nonces'[m] = IF m = n THEN None ELSE nonces[m]
          /\ grants'[m] = IF m = n THEN 1 ELSE grants[m]
    BY <1>1, <1>3, <2>1 DEF TypeOK
  <2>6. TypeOK'
    <3>1. grants' \in [NonceValues -> Nat] /\ nonces' \in [NonceValues -> 0 .. MaxTime \cup {None}]
      BY <1>1, <1>3, <2>1 DEF TypeOK
    <3> QED
      BY <1>1, <2>4, <3>1 DEF TypeOK
  <2>7. NoncesOK' /\ KeyIndexed'
    BY <1>1, <2>1, <2>5 DEF RInv, NoncesOK, KeyIndexed
  <2>8. ASSUME NEW g \in Handlers, g # h
        PROVE  RequestOK(g)' /\ (Verified(g)' => Verified(g) /\ loc'[g].nonce # n)
    <3>1. RequestOK(g) /\ pc'[g] = pc[g] /\ loc'[g] = loc[g] /\ (Verified(g)' <=> Verified(g))
      BY <2>4, <2>8 DEF RInv, Others, Verified
    <3>2. Verified(g) => loc[g].nonce # n /\ loc[g].nonce \in NonceValues
      BY <2>1, <3>1 DEF RequestOK
    <3>3. Verified(g) => grants'[loc[g].nonce] = 1
      BY <2>5, <3>1, <3>2 DEF RequestOK
    <3> QED
      BY <1>1, <3>1, <3>2, <3>3 DEF RequestOK, ClaimedKey
  <2>9. SoleBearer'
    <3>1. ASSUME NEW f \in Handlers, NEW g \in Handlers, Verified(f)', Verified(g)',
                 loc'[f].nonce = loc'[g].nonce
          PROVE  f = g
      <4>1. CASE f # h /\ g # h
        <5>1. /\ Verified(f) /\ Verified(g) /\ loc'[f] = loc[f] /\ loc'[g] = loc[g]
          BY <2>4, <2>8, <3>1, <4>1 DEF Others
        <5> QED
          BY <3>1, <5>1 DEF RInv, SoleBearer
      <4>2. CASE f = h /\ g # h
        BY <2>3, <2>4, <2>8, <3>1, <4>2
      <4>3. CASE f # h /\ g = h
        BY <2>3, <2>4, <2>8, <3>1, <4>3
      <4> QED
        BY <4>1, <4>2, <4>3
    <3> QED
      BY <3>1 DEF SoleBearer
  <2>10. RequestOK(h)'
    <3>1. loc[h].pub = ClaimedKey(h) /\ loc[h].pub # None /\ (loc[h].kid = None => loc[h].jwk \in Keys)
      BY <1>1, <2>1 DEF RequestOK, Verifying
    <3>2. ClaimedKey(h)' = ClaimedKey(h)
      BY <1>1, <2>3, <2>4 DEF ClaimedKey
    <3>3. Verified(h)' => SignatureValid(h)
      BY <2>2, <2>3, <2>4, RequestsAssumption DEF Verified, Successes
    <3>4. loc[h].kid # None => accounts[loc[h].kid] # None
      BY <3>1 DEF ClaimedKey
    <3> QED
      BY <1>1, <2>1, <2>2, <2>3, <2>4, <2>5, <3>1, <3>2, <3>3, <3>4
      DEF RequestOK, Arriving, Verifying, Acting, SignatureValid
  <2> QED
    BY <2>6, <2>7, <2>8, <2>9, <2>10 DEF RInv
<1> QED
  BY <1>2, <1>3 DEF CommitNonce

\* The account of the key is looked for.
LEMMA FindAccountStep ==
  ASSUME RInv, NEW h \in Handlers, FindAccount(h)
  PROVE  RInv'
<1>1. /\ pc[h] = "findAccount" /\ TypeOK /\ loc[h] \in Locals /\ RequestOK(h)
      /\ Verified(h) /\ loc[h].kid = None /\ loc[h].jwk \in Keys /\ loc[h].result = None
      /\ UNCHANGED <<now, storage, drawn, known, grants>>
  BY DEF FindAccount, RInv, TypeOK, RequestOK, Acting, Verified
<1>2. PICK p \in {"createAccount", "reply"}, r \in {None, "existing", "noAccount"} :
        /\ Goto(h, p) /\ Local(h, [loc[h] EXCEPT !.result = r])
        /\ p = "createAccount" => r = None
  <2>1. CASE Goto(h, "createAccount") /\ UNCHANGED loc
    <3>1. loc[h] = [loc[h] EXCEPT !.result = None]
      BY <1>1 DEF Locals
    <3> QED
      BY <1>1, <2>1, <3>1, Stay
  <2>2. CASE \E r \in {"existing", "noAccount"} : Result(h, loc[h], r)
    BY <2>2 DEF Result
  <2> QED
    BY <2>1, <2>2 DEF FindAccount
<1> DEFINE l == [loc[h] EXCEPT !.result = r]
<1>3. /\ l \in Locals /\ l.nonce = loc[h].nonce /\ l.kid = None /\ l.jwk = loc[h].jwk
      /\ l.signer = loc[h].signer /\ l.result = r /\ p \in Steps
      /\ now' \in 0 .. MaxTime /\ known' \subseteq NonceValues
  <2>1. r \in Successes \cup Problems \cup {None} /\ p \in Steps
    BY DEF Successes, Problems, Steps
  <2>2. /\ l \in Locals /\ l.nonce = loc[h].nonce /\ l.kid = loc[h].kid
        /\ l.jwk = loc[h].jwk /\ l.signer = loc[h].signer /\ l.result = r
    BY <1>1, <2>1 DEF Locals
  <2>3. now' \in 0 .. MaxTime /\ known' \subseteq NonceValues
    BY <1>1 DEF TypeOK
  <2> QED
    BY <1>1, <2>1, <2>2, <2>3
<1>4. Goto(h, p) /\ Local(h, l)
  BY <1>2
<1> HIDE DEF l
<1>5. pc'[h] = p /\ loc'[h] = l /\ (NotLetThrough(h) /\ RequestOK(h)' => RInv')
  BY <1>1, <1>3, <1>4, LocalMove
<1>6. NotLetThrough(h)
  BY <1>1, <1>3, <1>5 DEF NotLetThrough
<1>7. RequestOK(h)'
  BY <1>1, <1>2, <1>3, <1>5 DEF RequestOK, Arriving, Verifying, Acting, ClaimedKey
<1> QED
  BY <1>5, <1>6, <1>7

\* The account is created under an id that was free, together with its index entry.
LEMMA CreateAccountStep ==
  ASSUME RInv, NEW h \in Handlers, CreateAccount(h)
  PROVE  RInv'
<1> DEFINE key == loc[h].jwk
           k == StoredUnder(key)
           l == [loc[h] EXCEPT !.result = "created"]
<1>1. /\ pc[h] = "createAccount" /\ TypeOK /\ loc[h] \in Locals /\ RequestOK(h)
      /\ Verified(h) /\ loc[h].kid = None /\ key \in Keys /\ key # None /\ loc[h].nonce \in NonceValues
      /\ UNCHANGED <<now, nonces, drawn, known, grants>>
  BY RequestsAssumption DEF CreateAccount, RInv, TypeOK, RequestOK, Acting, Verified
<1>2. CASE Result(h, loc[h], "serverError") /\ UNCHANGED <<accounts, keyIndex>>
  BY <1>1, <1>2, ResultStep DEF Problems, storage
<1>3. ASSUME NEW a \in AccountIds, accounts[a] = None,
             accounts' = [accounts EXCEPT ![a] = key],
             keyIndex' = [keyIndex EXCEPT ![k] = a],
             Result(h, loc[h], "created")
      PROVE  RInv'
  <2>1. /\ l \in Locals /\ l.nonce = loc[h].nonce /\ l.kid = None /\ l.jwk = key
        /\ l.signer = loc[h].signer /\ l.result = "created" /\ "reply" \in Steps
        /\ Local(h, l) /\ Goto(h, "reply")
    BY <1>1, <1>3 DEF Locals, Steps, Successes, Result
  <2> HIDE DEF l
  <2>2. /\ pc' \in [Handlers -> Steps] /\ loc' \in [Handlers -> Locals]
        /\ pc'[h] = "reply" /\ loc'[h] = l /\ Others(h)
    BY <1>1, <2>1, Move
  <2>3. k \in IndexKeys /\ k[2] = key
    BY <1>1 DEF StoredUnder, IndexKeys
  <2>4. /\ \A b \in AccountIds : accounts'[b] = IF b = a THEN key ELSE accounts[b]
        /\ \A j \in IndexKeys : keyIndex'[j] = IF j = k THEN a ELSE keyIndex[j]
        /\ a # None
    BY <1>1, <1>3, <2>3, RequestsAssumption DEF TypeOK
  <2>5. TypeOK'
    BY <1>1, <1>3, <2>2 DEF TypeOK
  <2>6. NoncesOK'
    BY <1>1 DEF RInv, NoncesOK
  <2>7. KeyIndexed'
    <3>1. ASSUME NEW j \in IndexKeys, keyIndex'[j] # None
          PROVE  accounts'[keyIndex'[j]] = j[2]
      <4>1. CASE j = k
        BY <1>3, <2>3, <2>4, <4>1
      <4>2. CASE j # k
        <5>1. keyIndex'[j] = keyIndex[j] /\ keyIndex[j] \in AccountIds
          BY <1>1, <2>4, <3>1, <4>2 DEF TypeOK
        <5>2. accounts[keyIndex[j]] = j[2] /\ j[2] # None
          BY <3>1, <5>1, RequestsAssumption DEF RInv, KeyIndexed, IndexKeys
        <5> QED
          BY <1>3, <2>4, <5>1, <5>2
      <4> QED
        BY <4>1, <4>2
    <3>2. ASSUME NEW b \in AccountIds, accounts'[b] # None
          PROVE  keyIndex'[StoredUnder(accounts'[b])] # None
      <4>1. CASE b = a
        BY <2>3, <2>4, <4>1
      <4>2. CASE b # a
        <5>1. accounts'[b] = accounts[b] /\ accounts[b] \in Keys
          BY <1>1, <2>4, <3>2, <4>2 DEF TypeOK
        <5>2. keyIndex[StoredUnder(accounts[b])] # None
          BY <3>2, <5>1 DEF RInv, KeyIndexed
        <5>3. StoredUnder(accounts[b]) \in IndexKeys
          BY <5>1 DEF StoredUnder, IndexKeys
        <5> HIDE DEF k
        <5> QED
          BY <2>4, <5>1, <5>2, <5>3
      <4> QED
        BY <4>1, <4>2
    <3> QED
      BY <3>1, <3>2 DEF KeyIndexed
  <2>8. \A b \in AccountIds : accounts[b] # None => accounts'[b] = accounts[b]
    BY <1>3, <2>4
  <2>9. RequestOK(h)'
    BY <1>1, <2>1, <2>2 DEF RequestOK, Arriving, Verifying, Acting, ClaimedKey
  <2>10. ASSUME NEW g \in Handlers, g # h
         PROVE  RequestOK(g)'
    <3>1. RequestOK(g) /\ pc'[g] = pc[g] /\ loc'[g] = loc[g] /\ loc[g] \in Locals
      BY <1>1, <2>2, <2>10 DEF RInv, Others, TypeOK
    <3>2. loc[g].kid \in AccountIds \cup {None}
      BY <3>1 DEF Locals
    <3>3. ClaimedKey(g) # None => ClaimedKey(g)' = ClaimedKey(g)
      BY <2>8, <3>1, <3>2 DEF ClaimedKey
    <3>4. Verified(g)' = Verified(g)
      BY <3>1 DEF Verified
    <3>5. pc[g] \in Verifying => ClaimedKey(g) # None /\ loc[g].pub = ClaimedKey(g)
      BY <3>1 DEF RequestOK
    <3>6. Verified(g) /\ loc[g].kid # None => ClaimedKey(g) # None /\ accounts'[loc[g].kid] # None
      BY <2>8, <3>1, <3>2 DEF RequestOK, ClaimedKey
    <3>7. Verified(g) => loc[g].signer = ClaimedKey(g)'
      <4>1. CASE loc[g].kid = None
        BY <3>1, <4>1 DEF RequestOK, ClaimedKey
      <4>2. CASE loc[g].kid # None
        BY <3>1, <3>3, <3>6, <4>2 DEF RequestOK
      <4> QED
        BY <4>1, <4>2
    <3> QED
      BY <1>1, <3>1, <3>3, <3>4, <3>5, <3>6, <3>7 DEF RequestOK
  <2>11. SoleBearer'
    <3>1. \A g \in Handlers : Verified(g)' => Verified(g) /\ loc'[g].nonce = loc[g].nonce
      BY <1>1, <2>1, <2>2 DEF Others, Verified
    <3> QED
      BY <3>1 DEF RInv, SoleBearer
  <2> QED
    BY <2>5, <2>6, <2>7, <2>9, <2>10, <2>11 DEF RInv
<1> QED
  BY <1>2, <1>3 DEF CreateAccount

\* A handler that answers, or has answered, is in no step that needs anything else.
LEMMA AnsweringOK ==
  ASSUME RInv, NEW h \in Handlers, pc[h] \in {"reply", "send"},
         pc'[h] \in {"reply", "send"}, NotLetThrough(h),
         loc'[h].nonce = loc[h].nonce, loc'[h].kid = loc[h].kid, loc'[h].jwk = loc[h].jwk,
         loc'[h].signer = loc[h].signer, UNCHANGED <<accounts, grants>>
  PROVE  RequestOK(h)'
<1>1. RequestOK(h)
  BY DEF RInv
<1>2. Verified(h)' => Verified(h)
  BY DEF NotLetThrough
<1>3. ClaimedKey(h)' = ClaimedKey(h)
  BY DEF ClaimedKey
<1> QED
  BY <1>1, <1>2, <1>3 DEF RequestOK, Arriving, Verifying, Acting

\* A nonce is drawn for the answer, or the answer goes without.
LEMMA ReplyStep ==
  ASSUME RInv, NEW h \in Handlers, Reply(h)
  PROVE  RInv'
<1>1. /\ pc[h] = "reply" /\ TypeOK /\ loc[h] \in Locals
      /\ UNCHANGED <<now, accounts, keyIndex, known, grants>>
  BY DEF Reply, RInv, TypeOK
<1>2. ASSUME NEW n \in NonceValues, n \notin drawn,
             drawn' = drawn \cup {n}, nonces' = [nonces EXCEPT ![n] = Dated],
             Local(h, [loc[h] EXCEPT !.replay = n]), Goto(h, "send")
      PROVE  RInv'
  <2> DEFINE l == [loc[h] EXCEPT !.replay = n]
  <2>1. /\ l \in Locals /\ l.nonce = loc[h].nonce /\ l.kid = loc[h].kid /\ l.jwk = loc[h].jwk
        /\ l.signer = loc[h].signer /\ l.result = loc[h].result /\ "send" \in Steps
    BY <1>1 DEF Locals, Steps
  <2>2. Local(h, l)
    BY <1>2
  <2> HIDE DEF l
  <2>3. /\ pc' \in [Handlers -> Steps] /\ loc' \in [Handlers -> Locals]
        /\ pc'[h] = "send" /\ loc'[h] = l /\ Others(h)
    BY <1>1, <1>2, <2>1, <2>2, Move
  <2>4. TypeOK'
    BY <1>1, <1>2, <2>3 DEF TypeOK, Dated
  <2>5. \A m \in NonceValues : nonces'[m] = IF m = n THEN now ELSE nonces[m]
    BY <1>1, <1>2 DEF TypeOK, Dated
  <2>6. NoncesOK' /\ KeyIndexed'
    BY <1>1, <1>2, <2>5 DEF RInv, NoncesOK, KeyIndexed
  <2>7. NotLetThrough(h)
    BY <1>1, <2>1, <2>3 DEF NotLetThrough, Verified
  <2>8. RequestOK(h)'
    BY <1>1, <2>1, <2>3, <2>7, AnsweringOK
  <2>9. SoleBearer'
    BY <2>3, <2>7 DEF RInv, SoleBearer, Others, NotLetThrough, Verified
  <2>10. ASSUME NEW g \in Handlers, g # h
         PROVE  RequestOK(g)'
    <3>1. RequestOK(g) /\ pc'[g] = pc[g] /\ loc'[g] = loc[g]
      BY <2>3, <2>10 DEF RInv, Others
    <3> QED
      BY <1>1, <3>1 DEF RequestOK, ClaimedKey, Verified
  <2> QED
    BY <2>4, <2>6, <2>8, <2>9, <2>10 DEF RInv
<1>3. ASSUME NEW p \in {"reply", "send"}, Goto(h, p), UNCHANGED <<nonces, drawn>>,
             Local(h, [loc[h] EXCEPT !.result = WithoutNonce(loc[h].result)])
      PROVE  RInv'
  <2> DEFINE r == WithoutNonce(loc[h].result)
             l == [loc[h] EXCEPT !.result = r]
  <2>1. r = loc[h].result \/ r = "serverError"
    BY DEF WithoutNonce
  <2>2. /\ l \in Locals /\ l.nonce = loc[h].nonce /\ l.kid = loc[h].kid /\ l.jwk = loc[h].jwk
        /\ l.signer = loc[h].signer /\ l.result = r /\ p \in Steps
    BY <1>1, <2>1 DEF Locals, Steps, Problems
  <2>3. /\ Local(h, l) /\ UNCHANGED <<storage, drawn, grants>>
        /\ now' \in 0 .. MaxTime /\ known' \subseteq NonceValues
    BY <1>1, <1>3 DEF storage, TypeOK
  <2> HIDE DEF l, r
  <2>4. pc'[h] = p /\ loc'[h] = l /\ (NotLetThrough(h) /\ RequestOK(h)' => RInv')
    BY <1>3, <2>2, <2>3, LocalMove
  <2>5. NotLetThrough(h)
    BY <1>1, <2>1, <2>2, <2>4 DEF NotLetThrough, Verified
  <2>6. RequestOK(h)'
    BY <1>1, <2>2, <2>4, <2>5, AnsweringOK
  <2> QED
    BY <2>4, <2>5, <2>6
<1>4. CASE \E n \in NonceValues \ drawn :
             /\ drawn' = drawn \cup {n}
             /\ nonces' = [nonces EXCEPT ![n] = Dated]
             /\ Local(h, [loc[h] EXCEPT !.replay = n])
             /\ Goto(h, "send")
  BY <1>2, <1>4
<1>5. CASE /\ Local(h, [loc[h] EXCEPT !.result = WithoutNonce(loc[h].result)])
           /\ IF WithoutNonce(loc[h].result) = loc[h].result THEN Goto(h, "send") ELSE UNCHANGED pc
           /\ UNCHANGED <<nonces, drawn>>
  <2>1. \E p \in {"reply", "send"} : Goto(h, p)
    BY <1>1, <1>5 DEF Goto, TypeOK
  <2> QED
    BY <1>3, <1>5, <2>1
<1> QED
  BY <1>4, <1>5 DEF Reply

\* The answer is sent.
LEMMA SendStep ==
  ASSUME RInv, NEW h \in Handlers, Send(h)
  PROVE  RInv'
<1>1. /\ TypeOK /\ loc[h] \in Locals /\ Goto(h, "idle") /\ Local(h, NoLocals)
      /\ UNCHANGED <<now, storage, drawn, grants>> /\ known' = known \cup ({loc[h].replay} \ {None})
  BY DEF Send, RInv, TypeOK
<1>2. "idle" \in Steps /\ NoLocals \in Locals /\ NoLocals.result = None
  BY NoLocalsType DEF Steps, NoLocals
<1>3. loc[h].replay \in NonceValues \cup {None}
  BY <1>1 DEF Locals
<1>4. now' \in 0 .. MaxTime /\ known' \subseteq NonceValues
  BY <1>1, <1>3 DEF TypeOK
<1>5. pc'[h] = "idle" /\ loc'[h] = NoLocals /\ (NotLetThrough(h) /\ RequestOK(h)' => RInv')
  BY <1>1, <1>2, <1>4, LocalMove
<1>6. ~Verified(h)'
  BY <1>2, <1>5, RequestsAssumption DEF Verified, Successes
<1> QED
  BY <1>2, <1>5, <1>6 DEF RequestOK, NotLetThrough, Arriving, Verifying, Acting

\* Time passes.
LEMMA TickStep ==
  ASSUME RInv, Tick
  PROVE  RInv'
<1>1. TypeOK'
  BY RequestsAssumption DEF RInv, TypeOK, Tick, storage
<1> QED
  BY <1>1 DEF RInv, Tick, storage, NoncesOK, SoleBearer, KeyIndexed, RequestOK, ClaimedKey, Verified

\* A restart leaves what is stored.
LEMMA CrashStep ==
  ASSUME RInv, Crash
  PROVE  RInv'
<1>1. /\ UNCHANGED <<now, storage, drawn, known, grants>>
      /\ pc' = [h \in Handlers |-> "idle"] /\ loc' = [h \in Handlers |-> NoLocals]
      /\ NoLocals.result = None
  BY DEF Crash, NoLocals
<1>2. TypeOK'
  BY <1>1, NoLocalsType DEF RInv, TypeOK, storage, Steps
<1>3. NoncesOK' /\ KeyIndexed'
  BY <1>1 DEF RInv, NoncesOK, KeyIndexed, storage
<1>4. \A h \in Handlers : ~Verified(h)' /\ pc'[h] = "idle" /\ loc'[h].result = None
  BY <1>1, RequestsAssumption DEF Verified, Successes
<1>5. SoleBearer' /\ \A h \in Handlers : RequestOK(h)'
  BY <1>4 DEF SoleBearer, RequestOK, Arriving, Verifying, Acting
<1> QED
  BY <1>2, <1>3, <1>5 DEF RInv

-----------------------------------------------------------------------------
(* The invariant.                                                          *)

\* Nothing is stored and no request is under way at the start.
LEMMA InitRInv == Init => RInv
<1> SUFFICES ASSUME Init PROVE RInv
  OBVIOUS
<1>1. TypeOK
  BY NoLocalsType, RequestsAssumption DEF Init, TypeOK, Steps
<1>2. NoncesOK /\ KeyIndexed
  BY DEF Init, NoncesOK, KeyIndexed
<1>3. \A h \in Handlers : ~Verified(h) /\ pc[h] = "idle" /\ loc[h].result = None
  BY RequestsAssumption DEF Init, Verified, NoLocals, Successes
<1>4. SoleBearer /\ \A h \in Handlers : RequestOK(h)
  BY <1>3 DEF SoleBearer, RequestOK, Arriving, Verifying, Acting
<1> QED
  BY <1>1, <1>2, <1>4 DEF RInv

\* Every step keeps the invariant.
LEMMA NextStep == RInv /\ [Next]_vars => RInv'
<1> SUFFICES ASSUME RInv, [Next]_vars PROVE RInv'
  OBVIOUS
<1>1. CASE Tick \/ Crash
  BY <1>1, TickStep, CrashStep
<1>2. ASSUME NEW h \in Handlers, Receive(h)
      PROVE  RInv'
  BY <1>2, PlainStep, NewAccountStep, PostStep DEF Receive
<1>3. ASSUME NEW h \in Handlers, Continue(h)
      PROVE  RInv'
  BY <1>3, LookupJWKStep, ReadNonceStep, CommitNonceStep, FindAccountStep, CreateAccountStep,
     ReplyStep, SendStep DEF Continue
<1>4. CASE UNCHANGED vars
  BY <1>4 DEF vars, storage, RInv, TypeOK, NoncesOK, SoleBearer, KeyIndexed, RequestOK,
     ClaimedKey, Verified
<1> QED
  BY <1>1, <1>2, <1>3, <1>4 DEF Next

\* The inductive invariant holds for any number of keys, accounts, nonces and
\* concurrent requests, with failing calls and restarts or without.
THEOREM Invariance == Spec => []RInv
BY InitRInv, NextStep, PTL DEF Spec

\* Every variable keeps its type.
THEOREM TypeCorrect == Spec => []TypeOK
<1>1. RInv => TypeOK
  BY DEF RInv
<1> QED
  BY <1>1, Invariance, PTL

\* However many requests carry a nonce, it lets at most one through and is gone
\* with it.
THEOREM NoncesAreSingleUse == Spec => []NonceSingleUse
<1>1. RInv => NonceSingleUse
  BY DEF RInv, NoncesOK, NonceSingleUse
<1> QED
  BY <1>1, Invariance, PTL

\* Whoever is acted for has signed the request, and no other request acts on the
\* same nonce.
THEOREM RequestsAreAuthenticated == Spec => []Authenticated
<1>1. RInv => Authenticated
  BY DEF RInv, Authenticated, RequestOK, ClaimedKey, SoleBearer
<1> QED
  BY <1>1, Invariance, PTL

\* Accounts and key index agree.
THEOREM KeysAreIndexed == Spec => []KeyIndexed
<1>1. RInv => KeyIndexed
  BY DEF RInv
<1> QED
  BY <1>1, Invariance, PTL

-----------------------------------------------------------------------------
(* Nonces implement OneTimeTokens.                                         *)

\* The state of a nonce, as the refinement mapping gives it.
TokenOf(n) == IF n \notin drawn THEN "new" ELSE IF nonces[n] # None THEN "live" ELSE "spent"

\* A step that leaves the nonces is a stutter.
LEMMA TokensStutter == UNCHANGED <<nonces, drawn, grants>> => UNCHANGED Tokens!vars
BY DEF Tokens!vars

\* A commit spends the nonce, or leaves all as it is.
LEMMA CommitSpends ==
  ASSUME RInv, NEW h \in Handlers, CommitNonce(h)
  PROVE  Tokens!Next \/ UNCHANGED Tokens!vars
<1>1. pc[h] = "commitNonce" /\ UNCHANGED drawn
  BY DEF CommitNonce
<1>2. CASE UNCHANGED <<nonces, grants>>
  BY <1>1, <1>2, TokensStutter
<1>3. CASE /\ Undisturbed(h)
           /\ nonces' = [nonces EXCEPT ![loc[h].nonce] = None]
           /\ grants' = [grants EXCEPT ![loc[h].nonce] = @ + 1]
  <2>1. PICK n \in NonceValues : n = loc[h].nonce
    BY <1>1, <1>3, AtCommit
  <2>2. TypeOK /\ n \in drawn /\ nonces[n] # None
    BY <1>1, <1>3, <2>1, AtCommit
  <2>3. /\ nonces' = [nonces EXCEPT ![n] = None]
        /\ grants' = [grants EXCEPT ![n] = @ + 1]
    BY <1>3, <2>1
  <2>4. \A m \in NonceValues : TokenOf(m)' = IF m = n THEN "spent" ELSE TokenOf(m)
    BY <1>1, <2>2, <2>3 DEF TokenOf, TypeOK
  <2>5. [m \in NonceValues |-> TokenOf(m)][n] = "live"
    BY <2>2 DEF TokenOf
  <2>6. [m \in NonceValues |-> TokenOf(m)]' = [[m \in NonceValues |-> TokenOf(m)] EXCEPT ![n] = "spent"]
    BY <2>4
  <2>7. Tokens!Spend(n)
    BY <2>3, <2>5, <2>6 DEF Tokens!Spend, TokenOf
  <2> QED
    BY <2>7 DEF Tokens!Next
<1> QED
  BY <1>2, <1>3 DEF CommitNonce

\* An answer issues a nonce, or leaves all as it is.
LEMMA ReplyIssues ==
  ASSUME RInv, NEW h \in Handlers, Reply(h)
  PROVE  Tokens!Next \/ UNCHANGED Tokens!vars
<1>1. UNCHANGED grants /\ TypeOK
  BY DEF Reply, RInv
<1>2. CASE UNCHANGED <<nonces, drawn>>
  BY <1>1, <1>2, TokensStutter
<1>3. ASSUME NEW n \in NonceValues, n \notin drawn,
             drawn' = drawn \cup {n}, nonces' = [nonces EXCEPT ![n] = Dated]
      PROVE  Tokens!Next
  <2>1. Dated # None
    BY <1>1, RequestsAssumption DEF TypeOK, Dated
  <2>2. \A m \in NonceValues : TokenOf(m)' = IF m = n THEN "live" ELSE TokenOf(m)
    BY <1>1, <1>3, <2>1 DEF TokenOf, TypeOK
  <2>3. [m \in NonceValues |-> TokenOf(m)][n] = "new"
    BY <1>3 DEF TokenOf
  <2>4. [m \in NonceValues |-> TokenOf(m)]' = [[m \in NonceValues |-> TokenOf(m)] EXCEPT ![n] = "live"]
    BY <2>2
  <2>5. Tokens!Issue(n)
    BY <1>1, <2>3, <2>4 DEF Tokens!Issue, TokenOf
  <2> QED
    BY <2>5 DEF Tokens!Next
<1> QED
  BY <1>2, <1>3 DEF Reply

\* Every step of Requests is a step of OneTimeTokens or a stutter.
LEMMA StepRefines == RInv /\ [Next]_vars => [Tokens!Next]_(Tokens!vars)
<1> SUFFICES ASSUME RInv, [Next]_vars PROVE Tokens!Next \/ UNCHANGED Tokens!vars
  OBVIOUS
<1>1. CASE Tick \/ Crash \/ UNCHANGED vars
  BY <1>1, TokensStutter DEF Tick, Crash, vars, storage
<1>2. ASSUME NEW h \in Handlers, Receive(h)
      PROVE  UNCHANGED Tokens!vars
  BY <1>2, TokensStutter DEF Receive, NewNonce, Refuse, NewAccount, Post, storage
<1>3. ASSUME NEW h \in Handlers, Continue(h)
      PROVE  Tokens!Next \/ UNCHANGED Tokens!vars
  <2>1. CASE LookupJWK(h) \/ ReadNonce(h) \/ FindAccount(h) \/ CreateAccount(h) \/ Send(h)
    BY <2>1, TokensStutter DEF LookupJWK, ReadNonce, FindAccount, CreateAccount, Send, storage
  <2> QED
    BY <1>3, <2>1, CommitSpends, ReplyIssues DEF Continue
<1> QED
  BY <1>1, <1>2, <1>3 DEF Next

\* The nonces of the server keep the promises of OneTimeTokens.
THEOREM TokensAreKept == Spec => TokensKept
<1>1. Init => Tokens!Init
  BY DEF Init, Tokens!Init
<1> QED
  BY <1>1, StepRefines, Invariance, PTL DEF Spec, TokensKept, Tokens!Spec

-----------------------------------------------------------------------------
(* The nonces of the answers.                                              *)

\* The step of h, if at all, makes known the nonce of its own answer, and touches
\* no nonce that is still on its way to a client.
LEMMA ReplayStep ==
  ASSUME RInv, ReplayInv, NEW h \in Handlers, Others(h), ReplayOK(h)',
         loc'[h].replay = None \/ loc'[h].replay \notin drawn,
         drawn \subseteq drawn', known' \subseteq drawn', known \subseteq known',
         known' \subseteq known \cup {loc[h].replay},
         \A n \in drawn \ known : nonces'[n] = nonces[n]
  PROVE  ReplayInv'
<1>1. ASSUME NEW g \in Handlers, g # h
      PROVE  ReplayOK(g)' /\ loc'[g].replay = loc[g].replay
  <2>1. ReplayOK(g) /\ pc'[g] = pc[g] /\ loc'[g] = loc[g]
    BY <1>1 DEF ReplayInv, Others
  <2>2. loc[g].replay # None => loc[g].replay # loc[h].replay
    BY <1>1 DEF ReplayInv, SoleReplay
  <2>3. loc[g].replay # None => loc[g].replay \in drawn' \ known' /\ nonces'[loc[g].replay] # None
    BY <2>1, <2>2 DEF ReplayOK
  <2> QED
    BY <2>1, <2>3 DEF ReplayOK
<1>2. SoleReplay'
  <2>1. \A g \in Handlers : g # h /\ loc[g].replay # None => loc[g].replay \in drawn
    BY DEF ReplayInv, ReplayOK
  <2> QED
    BY <1>1, <2>1 DEF ReplayInv, SoleReplay
<1> QED
  BY <1>1, <1>2 DEF ReplayInv

\* A step without effect on any nonce, of a handler that has no answer to send
\* afterwards.
LEMMA QuietStep ==
  ASSUME RInv, ReplayInv, NEW h \in Handlers, NEW p \in Steps \ {"send"}, NEW l \in Locals,
         Goto(h, p), Local(h, l), l.replay = None, p \in Arriving => l.nonce \in known,
         UNCHANGED <<nonces, drawn, known>>
  PROVE  ReplayInv'
<1>1. pc'[h] = p /\ loc'[h] = l /\ Others(h)
  BY Move DEF RInv
<1>2. ReplayOK(h)'
  BY <1>1 DEF ReplayOK
<1> QED
  BY <1>1, <1>2, ReplayStep DEF ReplayInv

\* A handler has a result, and no nonce for it yet.
LEMMA QuietResult ==
  ASSUME RInv, ReplayInv, NEW h \in Handlers, NEW l \in Locals,
         NEW r \in Successes \cup Problems, Result(h, l, r), l.replay = None,
         UNCHANGED <<nonces, drawn, known>>
  PROVE  ReplayInv'
<1> DEFINE m == [l EXCEPT !.result = r]
<1>1. m \in Locals /\ m.replay = None /\ "reply" \in Steps \ {"send"} /\ "reply" \notin Arriving
  BY DEF Locals, Steps, Arriving
<1>2. Local(h, m) /\ Goto(h, "reply")
  BY DEF Result
<1> HIDE DEF m
<1> QED
  BY <1>1, <1>2, QuietStep

\* Before it answers a handler has local variables of the right type, and no nonce
\* for its answer.
LEMMA NoReplayYet ==
  ASSUME RInv, ReplayInv, NEW h \in Handlers, pc[h] # "send"
  PROVE  /\ TypeOK /\ loc[h] \in Locals /\ loc[h].replay = None
         /\ (pc[h] \in Arriving => loc[h].nonce \in known)
BY DEF RInv, TypeOK, ReplayInv, ReplayOK

\* A request arrives, with a nonce that is known if it has one.
LEMMA ReplayReceive ==
  ASSUME RInv, ReplayInv, NEW h \in Handlers, Receive(h)
  PROVE  ReplayInv'
<1>1. NoLocals \in Locals /\ NoLocals.replay = None /\ known \subseteq NonceValues
  BY NoLocalsType DEF NoLocals, RInv, TypeOK
<1>2. CASE NewNonce(h) \/ Refuse(h)
  <2>1. PICK r \in Successes \cup Problems : Result(h, NoLocals, r)
    BY <1>2 DEF NewNonce, Refuse, Successes, Problems
  <2> QED
    BY <1>1, <1>2, <2>1, QuietResult DEF NewNonce, Refuse, storage
<1>3. ASSUME NEW n \in known, NEW k \in Keys, NEW s \in Keys, NEW only \in BOOLEAN,
             NewAccount(h, n, k, s, only)
      PROVE  ReplayInv'
  <2> DEFINE l == [NoLocals EXCEPT !.nonce = n, !.signer = s, !.jwk = k, !.pub = k, !.only = only]
  <2>1. l \in Locals /\ l.replay = None /\ l.nonce = n
    BY <1>1 DEF Locals, NoLocals
  <2>2. /\ Local(h, l) /\ Goto(h, "readNonce") /\ "readNonce" \in Steps \ {"send"}
        /\ UNCHANGED <<nonces, drawn, known>>
    BY <1>3 DEF NewAccount, Steps, storage
  <2> HIDE DEF l
  <2> QED
    BY <2>1, <2>2, QuietStep
<1>4. ASSUME NEW n \in known, NEW a \in AccountIds, NEW s \in Keys, Post(h, n, a, s)
      PROVE  ReplayInv'
  <2> DEFINE l == [NoLocals EXCEPT !.nonce = n, !.signer = s, !.kid = a]
  <2>1. l \in Locals /\ l.replay = None /\ l.nonce = n
    BY <1>1 DEF Locals, NoLocals
  <2>2. /\ Local(h, l) /\ Goto(h, "lookupJWK") /\ "lookupJWK" \in Steps \ {"send"}
        /\ UNCHANGED <<nonces, drawn, known>>
    BY <1>4 DEF Post, Steps, storage
  <2> HIDE DEF l
  <2> QED
    BY <2>1, <2>2, QuietStep
<1> QED
  BY <1>2, <1>3, <1>4 DEF Receive

\* The key of the account, or the nonce, is read.
LEMMA ReplayReads ==
  ASSUME RInv, ReplayInv, NEW h \in Handlers, LookupJWK(h) \/ ReadNonce(h)
  PROVE  ReplayInv'
<1>1. /\ pc[h] \in {"lookupJWK", "readNonce"} /\ UNCHANGED <<nonces, drawn, known>>
      /\ TypeOK /\ loc[h] \in Locals /\ loc[h].replay = None /\ loc[h].nonce \in known
      /\ RequestOK(h)
  BY NoReplayYet DEF LookupJWK, ReadNonce, storage, Arriving, RInv
<1>2. ASSUME NEW r \in {"noAccount", "badNonce"}, Result(h, loc[h], r)
      PROVE  ReplayInv'
  BY <1>1, <1>2, QuietResult DEF Problems
<1>3. ASSUME NEW l \in Locals, NEW p \in {"readNonce", "commitNonce"}, Local(h, l), Goto(h, p),
             l.replay = None, l.nonce = loc[h].nonce
      PROVE  ReplayInv'
  BY <1>1, <1>3, QuietStep DEF Steps
<1>4. CASE LookupJWK(h)
  <2> DEFINE key == accounts[loc[h].kid]
             l == [loc[h] EXCEPT !.pub = key]
  <2>1. loc[h].kid \in AccountIds
    BY <1>1, <1>4 DEF RequestOK, LookupJWK
  <2>2. l \in Locals /\ l.replay = None /\ l.nonce = loc[h].nonce
    BY <1>1, <2>1 DEF TypeOK, Locals
  <2> QED
    BY <1>2, <1>3, <1>4, <2>2 DEF LookupJWK
<1>5. CASE ReadNonce(h)
  <2> DEFINE born == nonces[loc[h].nonce]
             l == [loc[h] EXCEPT !.seen = born]
  <2>1. l \in Locals /\ l.replay = None /\ l.nonce = loc[h].nonce
    BY <1>1 DEF TypeOK, Locals
  <2> QED
    BY <1>2, <1>3, <1>5, <2>1 DEF ReadNonce
<1> QED
  BY <1>4, <1>5

\* Only a nonce that a client knows is consumed.
LEMMA ReplayCommit ==
  ASSUME RInv, ReplayInv, NEW h \in Handlers, CommitNonce(h)
  PROVE  ReplayInv'
<1> DEFINE n == loc[h].nonce
<1>1. /\ pc[h] = "commitNonce" /\ UNCHANGED <<drawn, known>> /\ RequestOK(h)
      /\ TypeOK /\ loc[h] \in Locals /\ loc[h].replay = None /\ n \in known
  BY NoReplayYet DEF CommitNonce, Arriving, RInv
<1>2. \A m \in drawn \ known : nonces'[m] = nonces[m]
  BY <1>1 DEF CommitNonce, TypeOK
<1>3. PICK p \in {"findAccount", "reply"}, r \in {None, "served", "malformed", "badNonce"} :
        Goto(h, p) /\ Local(h, [loc[h] EXCEPT !.result = r])
  <2>1. CASE Goto(h, "findAccount") /\ UNCHANGED loc
    <3>1. loc[h].result = None
      BY <1>1 DEF RequestOK, Arriving
    <3>2. loc[h] = [loc[h] EXCEPT !.result = None]
      BY <1>1, <3>1 DEF Locals
    <3> QED
      BY <1>1, <2>1, <3>2, Stay
  <2>2. ASSUME NEW r \in {"served", "malformed", "badNonce"}, Result(h, loc[h], r)
        PROVE  Goto(h, "reply") /\ Local(h, [loc[h] EXCEPT !.result = r])
    BY <2>2 DEF Result
  <2> QED
    BY <2>1, <2>2 DEF CommitNonce
<1> DEFINE l == [loc[h] EXCEPT !.result = r]
<1>4. l \in Locals /\ l.replay = None /\ p \in Steps
  BY <1>1 DEF Locals, Steps, Successes, Problems
<1>5. Local(h, l)
  BY <1>3
<1> HIDE DEF l
<1>6. pc'[h] = p /\ loc'[h] = l /\ Others(h)
  BY <1>1, <1>3, <1>4, <1>5, Move
<1>7. ReplayOK(h)'
  BY <1>4, <1>6 DEF ReplayOK, Arriving
<1> QED
  BY <1>1, <1>2, <1>4, <1>6, <1>7, ReplayStep DEF ReplayInv

\* The account of the key is looked for, or created.
LEMMA ReplayAccount ==
  ASSUME RInv, ReplayInv, NEW h \in Handlers, FindAccount(h) \/ CreateAccount(h)
  PROVE  ReplayInv'
<1>1. /\ pc[h] \in {"findAccount", "createAccount"} /\ UNCHANGED <<nonces, drawn, known>>
      /\ TypeOK /\ loc[h] \in Locals /\ loc[h].replay = None
  BY NoReplayYet DEF FindAccount, CreateAccount, storage
<1>2. ASSUME NEW r \in {"existing", "noAccount", "created", "serverError"}, Result(h, loc[h], r)
      PROVE  ReplayInv'
  BY <1>1, <1>2, QuietResult DEF Problems, Successes
<1>3. CASE Goto(h, "createAccount") /\ UNCHANGED loc
  BY <1>1, <1>3, Stay, QuietStep DEF Steps, Arriving
<1> QED
  BY <1>2, <1>3 DEF FindAccount, CreateAccount

\* The nonce of an answer is a new one.  An answer that has to do without one is
\* none of success.
LEMMA ReplayReply ==
  ASSUME RInv, ReplayInv, NEW h \in Handlers, Reply(h)
  PROVE  ReplayInv'
<1>1. /\ pc[h] = "reply" /\ UNCHANGED <<now, known>>
      /\ TypeOK /\ loc[h] \in Locals /\ loc[h].replay = None
  BY NoReplayYet DEF Reply
<1>2. ASSUME NEW n \in NonceValues, n \notin drawn,
             drawn' = drawn \cup {n}, nonces' = [nonces EXCEPT ![n] = Dated],
             Local(h, [loc[h] EXCEPT !.replay = n]), Goto(h, "send")
      PROVE  ReplayInv'
  <2> DEFINE l == [loc[h] EXCEPT !.replay = n]
  <2>1. l \in Locals /\ l.replay = n /\ "send" \in Steps
    BY <1>1 DEF Locals, Steps
  <2>2. Local(h, l)
    BY <1>2
  <2> HIDE DEF l
  <2>3. pc'[h] = "send" /\ loc'[h] = l /\ Others(h)
    BY <1>1, <1>2, <2>1, <2>2, Move
  <2>4. nonces'[n] # None /\ \A m \in drawn : nonces'[m] = nonces[m]
    BY <1>1, <1>2, RequestsAssumption DEF TypeOK, Dated
  <2>5. ReplayOK(h)'
    BY <1>1, <1>2, <2>1, <2>3, <2>4, RequestsAssumption DEF ReplayOK, ReplayInv, Arriving
  <2> QED
    BY <1>1, <1>2, <2>1, <2>3, <2>4, <2>5, ReplayStep DEF ReplayInv
<1>3. CASE /\ Local(h, [loc[h] EXCEPT !.result = WithoutNonce(loc[h].result)])
           /\ IF WithoutNonce(loc[h].result) = loc[h].result THEN Goto(h, "send") ELSE UNCHANGED pc
           /\ UNCHANGED <<nonces, drawn>>
  <2> DEFINE r == WithoutNonce(loc[h].result)
             l == [loc[h] EXCEPT !.result = r]
  <2>1. r \notin Successes /\ (r = loc[h].result \/ r = "serverError")
    BY DEF WithoutNonce, Successes
  <2>2. l \in Locals /\ l.replay = None /\ l.result = r
    BY <1>1, <2>1 DEF Locals, Problems
  <2>3. PICK p \in {"reply", "send"} : Goto(h, p)
    BY <1>1, <1>3 DEF Goto, TypeOK
  <2>4. Local(h, l) /\ p \in Steps
    BY <1>3 DEF Steps
  <2> HIDE DEF l, r
  <2>5. pc'[h] = p /\ loc'[h] = l /\ Others(h)
    BY <1>1, <2>2, <2>3, <2>4, Move
  <2>6. ReplayOK(h)'
    BY <2>1, <2>2, <2>5 DEF ReplayOK, Arriving
  <2> QED
    BY <1>1, <1>3, <2>2, <2>5, <2>6, ReplayStep DEF ReplayInv
<1> QED
  BY <1>2, <1>3 DEF Reply

\* The answer makes its own nonce known, and no other's.
LEMMA ReplaySend ==
  ASSUME RInv, ReplayInv, NEW h \in Handlers, Send(h)
  PROVE  ReplayInv'
<1>1. /\ Goto(h, "idle") /\ Local(h, NoLocals) /\ UNCHANGED <<nonces, drawn>>
      /\ known' = known \cup ({loc[h].replay} \ {None}) /\ TypeOK
  BY DEF Send, storage, RInv
<1>2. "idle" \in Steps /\ NoLocals \in Locals /\ NoLocals.replay = None
  BY NoLocalsType DEF Steps, NoLocals
<1>3. pc'[h] = "idle" /\ loc'[h] = NoLocals /\ Others(h)
  BY <1>1, <1>2, Move
<1>4. ReplayOK(h)'
  BY <1>2, <1>3 DEF ReplayOK, Arriving
<1>5. known' \subseteq drawn'
  BY <1>1 DEF ReplayInv, ReplayOK
<1> QED
  BY <1>1, <1>2, <1>3, <1>4, <1>5, ReplayStep

\* Time passes, or the process restarts: answers on their way are lost, and their
\* nonces with them.
LEMMA ReplayOther ==
  ASSUME RInv, ReplayInv, Tick \/ Crash \/ UNCHANGED vars
  PROVE  ReplayInv'
<1>1. UNCHANGED <<nonces, drawn, known>>
  BY DEF Tick, Crash, vars, storage
<1>2. CASE UNCHANGED <<pc, loc>>
  BY <1>1, <1>2 DEF ReplayInv, SoleReplay, ReplayOK
<1>3. CASE Crash
  <2>1. \A h \in Handlers : pc'[h] = "idle" /\ loc'[h].replay = None
    BY <1>3 DEF Crash, NoLocals
  <2> QED
    BY <1>1, <2>1 DEF ReplayInv, SoleReplay, ReplayOK, Arriving
<1> QED
  BY <1>2, <1>3 DEF Tick, vars

\* At the start no nonce is drawn, and no answer on its way.
LEMMA InitReplay == Init => ReplayInv
BY DEF Init, NoLocals, ReplayInv, SoleReplay, ReplayOK, Arriving

\* Every step keeps the nonces of the answers apart.
LEMMA ReplayNextStep == RInv /\ ReplayInv /\ [Next]_vars => ReplayInv'
<1> SUFFICES ASSUME RInv, ReplayInv, [Next]_vars PROVE ReplayInv'
  OBVIOUS
<1>1. ASSUME NEW h \in Handlers, Continue(h)
      PROVE  ReplayInv'
  BY <1>1, ReplayReads, ReplayCommit, ReplayAccount, ReplayReply, ReplaySend DEF Continue
<1> QED
  BY <1>1, ReplayReceive, ReplayOther DEF Next

\* The nonces on their way to clients are stored, distinct and unknown, for any
\* number of concurrent requests, with failing calls and restarts or without.
THEOREM ReplayInvariance == Spec => []ReplayInv
BY InitReplay, ReplayNextStep, Invariance, PTL DEF Spec

\* The nonce of an answer can be used, by the client that receives it and no
\* other, and an answer of success always carries one.
THEOREM ReplayNoncesAreUsable == Spec => []ReplayNonceUsable
<1>1. RInv /\ ReplayInv => ReplayNonceUsable
  <2> SUFFICES ASSUME RInv, ReplayInv, NEW h \in Handlers, pc[h] = "send", loc[h].replay # None
               PROVE  grants[loc[h].replay] = 0
    BY DEF ReplayInv, ReplayOK, SoleReplay, ReplayNonceUsable
  <2>1. loc[h].replay \in NonceValues /\ nonces[loc[h].replay] # None
    BY DEF ReplayInv, ReplayOK, RInv, TypeOK
  <2> QED
    BY <2>1 DEF RInv, NoncesOK
<1> QED
  BY <1>1, Invariance, ReplayInvariance, PTL
==============================================================================
