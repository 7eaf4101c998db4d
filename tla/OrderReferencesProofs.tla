------------------------ MODULE OrderReferencesProofs ------------------------
(***************************************************************************)
(* Proofs that RefInv is an invariant of OrderFlow, of the properties it   *)
(* implies, and that verdicts are final, for every value of the constants. *)
(***************************************************************************)
EXTENDS OrderReferences, OrderFlowProofs

-----------------------------------------------------------------------------
(* What every step leaves to the others.                                   *)

\* What exists stays, with its owner and its length, a challenge is never responded to
\* again, and a certificate is never overwritten.
Grows ==
  /\ \A o \in OrderIds : Exists(o) =>
       Exists(o)' /\ order'[o].n = order[o].n /\ order'[o].acct = order[o].acct
  /\ \A id \in AuthzIds : Made(id) => Made(id)' /\ authz'[id].acct = authz[id].acct
  /\ \A id \in AuthzIds :
       /\ challenge[id].status # "absent" => challenge'[id].status # "absent"
       /\ challenge[id].status \in Responded => challenge'[id].status \in Responded
  /\ \A s \in Serials : Stored(s) => cert'[s] = cert[s]

\* Only the creator of an order makes authorizations of it.
MadeByCreator(h) ==
  \A id \in AuthzIds : Made(id)' /\ ~Made(id) => pc[h] \in Creating /\ id[1] = loc[h].o

\* A step of h moves no other handler.
LEMMA OnlyItself ==
  ASSUME TypeOK, NEW h \in Handlers, Begin(h) \/ Continue(h)
  PROVE  Others(h)
<1>1. Begin(h) => (\E p : Goto(h, p)) /\ \E l : Local(h, l)
  BY DEF Begin, NewOrder, SetChallengeProcessing, Finalize
<1>2. CreateChallenge(h) \/ CreateAuthorization(h) \/ CreateOrder(h) =>
        (\E p : Goto(h, p)) /\ \E l : Local(h, l)
  BY Stay DEF CreateChallenge, CreateAuthorization, CreateOrder, Finish
<1>3. Judge(h) \/ SetChallengeValid(h) \/ SetChallengeInvalid(h) =>
        (\E p : Goto(h, p)) /\ \E l : Local(h, l)
  BY Stay DEF Judge, SetChallengeValid, SetChallengeInvalid, Finish
<1>4. ReadAuthorization(h) \/ RefreshChallenge(h) \/ UpdateAuthorization(h) =>
        (\E p : Goto(h, p)) /\ \E l : Local(h, l)
  BY Stay DEF ReadAuthorization, RefreshChallenge, UpdateAuthorization, Finish
<1>5. ReadOrder(h) \/ CheckAuthorization(h) \/ UpdateOrder(h) =>
        (\E p : Goto(h, p)) /\ \E l : Local(h, l)
  BY Stay DEF ReadOrder, CheckAuthorization, UpdateOrder, Finish
<1>6. CollectDevice(h) \/ IssueCertificate(h) \/ UpdateFinalizedOrder(h) =>
        (\E p : Goto(h, p)) /\ \E l : Local(h, l)
  BY Stay DEF CollectDevice, IssueCertificate, UpdateFinalizedOrder, Finish
<1>7. NotifyObservers(h) \/ RereadOrder(h) \/ Answer(h) =>
        (\E p : Goto(h, p)) /\ \E l : Local(h, l)
  BY Stay DEF NotifyObservers, RereadOrder, Answer, Finish
<1>8. (\E p : Goto(h, p)) /\ \E l : Local(h, l)
  BY <1>1, <1>2, <1>3, <1>4, <1>5, <1>6, <1>7 DEF Continue
<1> QED
  BY <1>8, GotoStep, LocalVarsStep DEF Others

\* The authorization at hand has an id.
LEMMA IdType ==
  ASSUME IInv, NEW h \in Handlers, pc[h] # "idle"
  PROVE  /\ TypeOK /\ HandlerOK(h) /\ loc[h] \in Locals /\ loc[h].acct \in Accounts
         /\ loc[h].o \in OrderIds /\ loc[h].i \in 1 .. MaxIdents
         /\ Id(h) = <<loc[h].o, loc[h].i>> /\ Id(h) \in AuthzIds
<1>1. /\ TypeOK /\ HandlerOK(h) /\ loc[h] \in Locals /\ loc[h].acct \in Accounts
      /\ loc[h].o \in OrderIds /\ loc[h].i \in 1 .. MaxIdents
  BY DEF IInv, HandlerOK, LocalsOK, TypeOK, Locals
<1> QED
  BY <1>1 DEF Id, AuthzIds

\* A step of h that only lets things grow leaves what other handlers rely on.
LEMMA OthersRefs ==
  ASSUME IInv, RefInv, NEW h \in Handlers, Others(h), Grows, MadeByCreator(h),
         NEW g \in Handlers, g # h
  PROVE  HandlerRefs(g)'
<1>1. HandlerRefs(g) /\ HandlerOK(g) /\ pc'[g] = pc[g] /\ loc'[g] = loc[g] /\ Id(g)' = Id(g)
  BY DEF IInv, RefInv, Others, Id
<1>2. CASE pc[g] = "idle"
  BY <1>1, <1>2 DEF HandlerRefs, CreatorRefs, CopyRefs, Creating, Copying, Finalizing
<1>3. CASE pc[g] \in Creating
  <2>1. /\ pc[g] # "idle" /\ pc[g] \notin Copying \ Creating
        /\ pc[g] \notin {"refreshChallenge", "writeAuthz", "checkAuthz", "writeOrder", "notify"}
                          \cup Finalizing
    BY <1>3 DEF Creating, Copying, Finalizing
  <2>2. /\ loc[g].o \in OrderIds /\ Id(g) \in AuthzIds
        /\ \A j \in 1 .. MaxIdents : <<loc[g].o, j>> \in AuthzIds
    BY <2>1, IdType DEF AuthzIds
  <2>3. ASSUME NEW j \in 1 .. MaxIdents
        PROVE  /\ Made(<<loc[g].o, j>>)' <=> Made(<<loc[g].o, j>>)
               /\ Made(<<loc[g].o, j>>) =>
                    authz'[<<loc[g].o, j>>].acct = authz[<<loc[g].o, j>>].acct
    <3>1. pc[h] \in Creating => loc[h].o # loc[g].o
      BY <1>3 DEF IInv, SoleCreator
    <3>2. <<loc[g].o, j>> \in AuthzIds /\ <<loc[g].o, j>>[1] = loc[g].o
      BY <2>2
    <3> QED
      BY <1>1, <3>1, <3>2 DEF Grows, MadeByCreator, Made
  <2>4. challenge[Id(g)].status # "absent" => challenge'[Id(g)].status # "absent"
    BY <2>2 DEF Grows
  <2>5. CreatorRefs(g)'
    BY <1>1, <1>3, <2>3, <2>4 DEF HandlerRefs, CreatorRefs, Made
  <2>6. CopyRefs(g)'
    BY <1>1, <2>1 DEF CopyRefs, Finalizing
  <2> QED
    BY <2>5, <2>6 DEF HandlerRefs
<1>4. CASE pc[g] \notin Creating \cup {"idle"}
  <2>1. /\ loc[g].o \in OrderIds /\ Exists(loc[g].o) /\ Id(g) \in AuthzIds
        /\ pc[g] \in {"updateOrder", "notify"} => loc[g].ord.cert \in Serials
    BY <1>4, IdType, AtWork DEF HandlerOK, LocalsOK
  <2>2. order'[loc[g].o].acct = order[loc[g].o].acct
    BY <2>1 DEF Grows
  <2>3. pc[g] \in {"refreshChallenge", "writeAuthz"} => authz'[Id(g)].acct = authz[Id(g)].acct
    BY <1>1, <2>1 DEF Grows, HandlerOK, ProcessorOK, Deciding, Made
  <2>4. pc[g] \in {"updateOrder", "notify"} => cert'[loc[g].ord.cert] = cert[loc[g].ord.cert]
    BY <1>1, <2>1, OrderFlowAssumption DEF Grows, Stored, HandlerRefs, CopyRefs
  <2> QED
    BY <1>1, <1>4, <2>2, <2>3, <2>4 DEF HandlerRefs, CreatorRefs, CopyRefs
<1> QED
  BY <1>2, <1>3, <1>4

\* The same put together: h keeps the invariant if it keeps its own part of it.
LEMMA RefStep ==
  ASSUME IInv, RefInv, NEW h \in Handlers, Others(h), Grows, MadeByCreator(h),
         AuthzsMade', ChallengesMade', CertificatesMade', HandlerRefs(h)'
  PROVE  RefInv' /\ Grows
BY OthersRefs DEF RefInv

\* A step that stores nothing.
LEMMA NothingStored ==
  ASSUME IInv, RefInv, NEW h \in Handlers, Others(h), UNCHANGED <<storage, notified>>,
         HandlerRefs(h)'
  PROVE  RefInv' /\ Grows
<1>1. Grows /\ MadeByCreator(h)
  BY DEF Grows, MadeByCreator, Made, Exists, storage
<1>2. AuthzsMade' /\ ChallengesMade'
  BY DEF RefInv, AuthzsMade, ChallengesMade, Made, Exists, storage
<1>3. CertificatesMade'
  BY DEF RefInv, CertificatesMade, CertificateUrlResolves, Stored, storage
<1> QED
  BY <1>1, <1>2, <1>3, RefStep

\* A handler that holds no reference.
LEMMA NoRefs ==
  ASSUME NEW h \in Handlers, pc'[h] \in {"idle", "readAuthz", "readOrder", "reread", "answer"} \cup Judging
  PROVE  HandlerRefs(h)'
BY DEF HandlerRefs, CreatorRefs, CopyRefs, Creating, Copying, Finalizing, Judging

LEMMA FinishRefs ==
  ASSUME IInv, NEW h \in Handlers, Finish(h)
  PROVE  HandlerRefs(h)'
BY FinishStep, NoRefs DEF IInv

-----------------------------------------------------------------------------
(* What the steps that store something write.                              *)

\* Writing a challenge: a new one, or a response to one whose order exists.
LEMMA ChallengeRefs ==
  ASSUME IInv, RefInv, NEW h \in Handlers, NEW id \in AuthzIds, NEW c,
         challenge' = [challenge EXCEPT ![id] = c],
         \/ c.status \in Responded /\ Exists(id[1])
         \/ c.status = "pending" /\ challenge[id].status \in {"absent", "pending"},
         UNCHANGED <<authz, order, cert, notified>>
  PROVE  Grows /\ MadeByCreator(h) /\ AuthzsMade' /\ ChallengesMade' /\ CertificatesMade'
<1>1. \A j \in AuthzIds : challenge'[j] = IF j = id THEN c ELSE challenge[j]
  BY DEF IInv, TypeOK
<1>2. Grows /\ MadeByCreator(h)
  BY <1>1 DEF Grows, MadeByCreator, Made, Exists, Responded
<1>3. AuthzsMade' /\ CertificatesMade'
  BY DEF RefInv, AuthzsMade, CertificatesMade, CertificateUrlResolves, Made, Exists, Stored
<1>4. ChallengesMade'
  <2>1. \A j \in AuthzIds : authz'[j].chal # "none" => challenge'[j].status # "absent"
    BY <1>1 DEF RefInv, ChallengesMade, Responded
  <2>2. ASSUME NEW o \in OrderIds, NEW i \in 1 .. MaxIdents, ~Exists(o)'
        PROVE  challenge'[<<o, i>>].status \in {"absent", "pending"}
    <3>1. <<o, i>> \in AuthzIds /\ ~Exists(o) /\ <<o, i>>[1] = o
      BY <2>2 DEF AuthzIds, Exists
    <3> QED
      BY <1>1, <3>1 DEF RefInv, ChallengesMade
  <2> QED
    BY <2>1, <2>2 DEF ChallengesMade
<1> QED
  BY <1>2, <1>3, <1>4

\* Writing an authorization: a new one of an order that does not exist yet, or one that
\* exists, of the same account.
LEMMA AuthzRefs ==
  ASSUME IInv, RefInv, NEW h \in Handlers, NEW id \in AuthzIds, NEW a,
         authz' = [authz EXCEPT ![id] = a], a.status # "absent",
         Made(id) => a.acct = authz[id].acct,
         Made(id) \/ (pc[h] \in Creating /\ id[1] = loc[h].o /\ ~Exists(id[1])),
         a.chal # "none" => challenge[id].status # "absent",
         UNCHANGED <<challenge, order, cert, notified>>
  PROVE  Grows /\ MadeByCreator(h) /\ AuthzsMade' /\ ChallengesMade' /\ CertificatesMade'
<1>1. \A j \in AuthzIds : authz'[j] = IF j = id THEN a ELSE authz[j]
  BY DEF IInv, TypeOK
<1>2. Grows /\ MadeByCreator(h)
  BY <1>1 DEF Grows, MadeByCreator, Made, Exists
<1>3. ChallengesMade' /\ CertificatesMade'
  BY <1>1 DEF RefInv, ChallengesMade, CertificatesMade, CertificateUrlResolves, Exists, Stored
<1>4. AuthzsMade'
  <2> SUFFICES ASSUME NEW o \in OrderIds, NEW i \in 1 .. MaxIdents, Exists(o)'
               PROVE  /\ Made(<<o, i>>)' <=> i <= order'[o].n
                      /\ Made(<<o, i>>)' => authz'[<<o, i>>].acct = order'[o].acct
    BY DEF AuthzsMade, Made
  <2>1. /\ <<o, i>> \in AuthzIds /\ <<o, i>>[1] = o /\ Exists(o)
        /\ Made(<<o, i>>) <=> i <= order[o].n
        /\ Made(<<o, i>>) => authz[<<o, i>>].acct = order[o].acct
    BY DEF AuthzIds, Exists, RefInv, AuthzsMade
  <2> QED
    BY <1>1, <2>1 DEF Made
<1> QED
  BY <1>2, <1>3, <1>4

\* Writing an order: a new one with the authorizations it is to have, or a copy of one
\* that exists, which names a certificate of its own if it is valid.
LEMMA OrderRefs ==
  ASSUME IInv, RefInv, NEW h \in Handlers, NEW o \in OrderIds, NEW r,
         order' = [order EXCEPT ![o] = r], r.status # "absent",
         Exists(o) => r.n = order[o].n /\ r.acct = order[o].acct,
         ~Exists(o) =>
           \A i \in 1 .. MaxIdents :
             /\ Made(<<o, i>>) <=> i <= r.n
             /\ Made(<<o, i>>) => authz[<<o, i>>].acct = r.acct,
         r.status = "valid" <=> r.cert # None,
         r.cert # None => r.cert \in Serials /\ cert[r.cert].order = o,
         UNCHANGED <<challenge, authz, cert, notified>>
  PROVE  Grows /\ MadeByCreator(h) /\ AuthzsMade' /\ ChallengesMade' /\ CertificatesMade'
<1>1. \A p \in OrderIds : order'[p] = IF p = o THEN r ELSE order[p]
  BY DEF IInv, TypeOK
<1>2. Grows /\ MadeByCreator(h)
  BY <1>1 DEF Grows, MadeByCreator, Made, Exists
<1>3. AuthzsMade' /\ ChallengesMade'
  BY <1>1 DEF RefInv, AuthzsMade, ChallengesMade, Made, Exists
<1>4. CertificateUrlResolves'
  BY <1>1 DEF RefInv, CertificatesMade, CertificateUrlResolves, Stored
<1>5. \A s \in Serials : Stored(s)' => cert'[s].acct = order'[cert'[s].order].acct
  <2> SUFFICES ASSUME NEW s \in Serials, Stored(s)
               PROVE  cert[s].acct = order'[cert[s].order].acct
    BY DEF Stored
  <2>1. /\ cert[s].order \in OrderIds /\ Exists(cert[s].order)
        /\ cert[s].acct = order[cert[s].order].acct
    BY DEF IInv, TypeOK, StatusOK, Stored, Certificates, RefInv, CertificatesMade
  <2> QED
    BY <1>2, <2>1 DEF Grows
<1> QED
  BY <1>2, <1>3, <1>4, <1>5 DEF CertificatesMade

-----------------------------------------------------------------------------
(* Creating an order.                                                      *)

LEMMA NewOrderRefs ==
  ASSUME IInv, RefInv, NEW h \in Handlers, NEW a \in Accounts, NEW o \in OrderIds,
         NEW n \in 1 .. MaxIdents, NewOrder(h, a, o, n)
  PROVE  RefInv' /\ Grows
<1> DEFINE l == [NoLocals EXCEPT
                   !.acct = a, !.o = o,
                   !.az  = [status |-> "pending", acct |-> a, chal |-> "none"],
                   !.ord = [status |-> "pending", acct |-> a, n |-> n, cert |-> None]]
<1>1. /\ TypeOK /\ o \notin used /\ Local(h, l) /\ Goto(h, "createChallenge")
      /\ UNCHANGED <<storage, notified>>
  BY DEF IInv, NewOrder
<1>2. Others(h) /\ pc'[h] = "createChallenge" /\ loc'[h] = l
  BY <1>1, GotoStep, LocalVarsStep DEF Others
<1>3. /\ l.o = o /\ l.i = 1 /\ l.acct = a /\ l.az.acct = a
      /\ l.ord.acct = a /\ l.ord.cert = None
  BY DEF NoLocals
<1> HIDE DEF l
<1>4. \A j \in 1 .. MaxIdents : ~Made(<<o, j>>) /\ ~(j < 1)
  BY <1>1, OrderFlowAssumption DEF IInv, OrderLast, Made
<1>5. HandlerRefs(h)'
  BY <1>1, <1>2, <1>3, <1>4
  DEF HandlerRefs, CreatorRefs, CopyRefs, Copying, Creating, Finalizing, Made, storage
<1> QED
  BY <1>1, <1>2, <1>5, NothingStored

LEMMA CreateChallengeRefs ==
  ASSUME IInv, RefInv, NEW h \in Handlers, CreateChallenge(h)
  PROVE  RefInv' /\ Grows
<1> DEFINE c == [status |-> "pending", att |-> NoAttestation]
<1>1. /\ pc[h] = "createChallenge" /\ TypeOK /\ loc[h] \in Locals /\ Id(h) \in AuthzIds
      /\ Others(h) /\ CreatorRefs(h) /\ UNCHANGED <<authz, order, cert, notified>>
  <2>1. pc[h] = "createChallenge" /\ UNCHANGED <<authz, order, cert, notified>>
    BY DEF CreateChallenge, history
  <2> QED
    BY <2>1, IdType, OnlyItself DEF Continue, RefInv, HandlerRefs
<1>2. CASE Finish(h) /\ UNCHANGED challenge
  BY <1>1, <1>2, FinishRefs, NothingStored DEF storage
<1>3. ASSUME NEW chal, Local(h, [loc[h] EXCEPT !.az.chal = chal]), Goto(h, "createAuthz"),
             chal # "none" => challenge'[Id(h)].status # "absent"
      PROVE  HandlerRefs(h)'
  <2> DEFINE l == [loc[h] EXCEPT !.az.chal = chal]
  <2>1. pc'[h] = "createAuthz" /\ loc'[h] = l
    BY <1>1, <1>3, GotoStep, LocalVarsStep
  <2>2. /\ l.o = loc[h].o /\ l.i = loc[h].i /\ l.acct = loc[h].acct /\ l.ord = loc[h].ord
        /\ l.az.acct = loc[h].az.acct /\ l.az.chal = chal
    BY <1>1 DEF Locals, Authzs
  <2> HIDE DEF l
  <2>3. Id(h)' = Id(h)
    BY <2>1, <2>2 DEF Id
  <2> QED
    BY <1>1, <1>3, <2>1, <2>2, <2>3
    DEF HandlerRefs, CreatorRefs, CopyRefs, Copying, Creating, Finalizing, Made
<1>4. CASE /\ challenge' = [challenge EXCEPT ![Id(h)] = c]
           /\ Local(h, [loc[h] EXCEPT !.az.chal = "pending"])
           /\ Goto(h, "createAuthz")
  <2>1. challenge'[Id(h)].status = "pending"
    BY <1>1, <1>4 DEF TypeOK
  <2>2. HandlerRefs(h)'
    BY <1>3, <1>4, <2>1
  <2>3. Grows /\ MadeByCreator(h) /\ AuthzsMade' /\ ChallengesMade' /\ CertificatesMade'
    <3>1. c.status = "pending" /\ challenge' = [challenge EXCEPT ![Id(h)] = c]
      BY <1>4
    <3>2. challenge[Id(h)].status \in {"absent", "pending"}
      <4>1. ~Exists(loc[h].o)
        BY <1>1 DEF IInv, HandlerOK, CreatorOK, Creating
      <4> QED
        BY <1>1, <4>1, IdType DEF RefInv, ChallengesMade
    <3> HIDE DEF c
    <3> QED
      BY <1>1, <3>1, <3>2, ChallengeRefs
  <2> QED
    BY <1>1, <2>2, <2>3, RefStep
<1>5. CASE /\ Local(h, [loc[h] EXCEPT !.az.chal = "none"])
           /\ Goto(h, "createAuthz")
           /\ UNCHANGED challenge
  BY <1>1, <1>3, <1>5, NothingStored DEF storage
<1> QED
  BY <1>2, <1>4, <1>5 DEF CreateChallenge

LEMMA CreateAuthorizationRefs ==
  ASSUME IInv, RefInv, NEW h \in Handlers, CreateAuthorization(h)
  PROVE  RefInv' /\ Grows
<1> DEFINE o == loc[h].o
           i == loc[h].i
           n == loc[h].ord.n
           a == loc[h].az
<1>1. /\ pc[h] = "createAuthz" /\ TypeOK /\ loc[h] \in Locals /\ Id(h) \in AuthzIds
      /\ Id(h) = <<o, i>> /\ o \in OrderIds /\ i \in 1 .. MaxIdents
      /\ Others(h) /\ CreatorRefs(h) /\ HandlerOK(h)
      /\ UNCHANGED <<challenge, order, cert, notified>>
  <2>1. pc[h] = "createAuthz" /\ UNCHANGED <<challenge, order, cert, notified>>
    BY DEF CreateAuthorization, history
  <2> QED
    BY <2>1, IdType, OnlyItself DEF Continue, RefInv, HandlerRefs
<1>2. CASE Finish(h) /\ UNCHANGED authz
  BY <1>1, <1>2, FinishRefs, NothingStored DEF storage
<1>3. CASE /\ authz' = [authz EXCEPT ![Id(h)] = loc[h].az]
           /\ \/ /\ ~LastRound(h)
                 /\ Local(h, [loc[h] EXCEPT !.i = @ + 1])
                 /\ Goto(h, "createChallenge")
              \/ /\ LastRound(h)
                 /\ Goto(h, "createOrder")
                 /\ UNCHANGED loc
  <2>1. /\ ~Exists(o) /\ a.status = "pending" /\ a.acct = loc[h].acct
        /\ loc[h].ord.cert = None /\ loc[h].ord.acct = loc[h].acct
        /\ i <= n /\ n \in 0 .. MaxIdents
        /\ a.chal # "none" => challenge[Id(h)].status # "absent"
        /\ \A j \in 1 .. MaxIdents :
             /\ Made(<<o, j>>) <=> j < i
             /\ Made(<<o, j>>) => authz[<<o, j>>].acct = loc[h].acct
    <3>1. loc[h].ord \in Orders
      BY <1>1 DEF Locals
    <3> QED
      BY <1>1, <3>1 DEF HandlerOK, CreatorOK, LocalsOK, Copying, Creating, CreatorRefs, Orders
  <2>2. ~Made(<<o, i>>)
    BY <1>1, <2>1
  <2>3. Grows /\ MadeByCreator(h) /\ AuthzsMade' /\ ChallengesMade' /\ CertificatesMade'
    <3>1. pc[h] \in Creating
      BY <1>1 DEF Creating
    <3> HIDE DEF o, i, n, a
    <3>2. authz' = [authz EXCEPT ![<<o, i>>] = a] /\ <<o, i>>[1] = loc[h].o
      BY <1>1, <1>3 DEF o, a
    <3> QED
      BY <1>1, <2>1, <2>2, <3>1, <3>2, AuthzRefs DEF o
  <2>4. \A j \in 1 .. MaxIdents :
          /\ authz'[<<o, j>>].status # "absent" <=> j <= i
          /\ authz'[<<o, j>>].status # "absent" => authz'[<<o, j>>].acct = loc[h].acct
    <3> HIDE DEF o, i, n, a
    <3> SUFFICES ASSUME NEW j \in 1 .. MaxIdents
                 PROVE  /\ authz'[<<o, j>>].status # "absent" <=> j <= i
                        /\ authz'[<<o, j>>].status # "absent" =>
                             authz'[<<o, j>>].acct = loc[h].acct
      OBVIOUS
    <3>1. authz'[<<o, j>>] = IF j = i THEN a ELSE authz[<<o, j>>]
      BY <1>1, <1>3 DEF TypeOK, AuthzIds, a
    <3>2. (j <= i) <=> (j < i \/ j = i)
      BY <1>1, OrderFlowAssumption
    <3> QED
      BY <2>1, <3>1, <3>2 DEF Made
  <2>5. HandlerRefs(h)'
    <3>1. CASE ~LastRound(h) /\ Local(h, [loc[h] EXCEPT !.i = @ + 1]) /\ Goto(h, "createChallenge")
      <4> DEFINE l == [loc[h] EXCEPT !.i = @ + 1]
      <4>1. pc'[h] = "createChallenge" /\ loc'[h] = l
        BY <1>1, <3>1, GotoStep, LocalVarsStep
      <4>2. /\ l.o = o /\ l.i = i + 1 /\ l.acct = loc[h].acct /\ l.ord = loc[h].ord
            /\ l.az = a
        BY <1>1 DEF Locals
      <4>3. \A j \in 1 .. MaxIdents : j < i + 1 <=> j <= i
        BY <1>1, OrderFlowAssumption
      <4> HIDE DEF l
      <4> QED
        BY <2>1, <2>4, <4>1, <4>2, <4>3
        DEF HandlerRefs, CreatorRefs, CopyRefs, Copying, Creating, Finalizing, Made
    <3>2. CASE LastRound(h) /\ Goto(h, "createOrder") /\ UNCHANGED loc
      <4>1. pc'[h] = "createOrder" /\ loc'[h] = loc[h] /\ i = n
        BY <1>1, <3>2, GotoStep DEF LastRound
      <4> QED
        BY <2>1, <2>4, <4>1
        DEF HandlerRefs, CreatorRefs, CopyRefs, Copying, Creating, Finalizing, Made
    <3> QED
      BY <1>3, <3>1, <3>2
  <2> QED
    BY <1>1, <2>3, <2>5, RefStep
<1> QED
  BY <1>2, <1>3 DEF CreateAuthorization

LEMMA CreateOrderRefs ==
  ASSUME IInv, RefInv, NEW h \in Handlers, CreateOrder(h)
  PROVE  RefInv' /\ Grows
<1> DEFINE o == loc[h].o
           r == loc[h].ord
<1>1. /\ pc[h] = "createOrder" /\ o \in OrderIds /\ Others(h) /\ HandlerRefs(h)'
      /\ CreatorRefs(h) /\ HandlerOK(h) /\ UNCHANGED <<challenge, authz, cert, notified>>
  <2>1. pc[h] = "createOrder" /\ Finish(h) /\ UNCHANGED <<challenge, authz, cert, notified>>
    BY DEF CreateOrder, history
  <2> QED
    BY <2>1, IdType, OnlyItself, FinishRefs DEF Continue, RefInv, HandlerRefs
<1>2. CASE UNCHANGED order
  BY <1>1, <1>2, NothingStored DEF storage
<1>3. CASE order' = [order EXCEPT ![o] = r]
  <2>1. /\ ~Exists(o) /\ r.status = "pending" /\ r.cert = None /\ r.acct = loc[h].acct
        /\ \A i \in 1 .. MaxIdents :
             /\ Made(<<o, i>>) <=> i <= r.n
             /\ Made(<<o, i>>) => authz[<<o, i>>].acct = r.acct
    BY <1>1 DEF HandlerOK, CreatorOK, Creating, CreatorRefs
  <2> HIDE DEF o, r
  <2>2. Grows /\ MadeByCreator(h) /\ AuthzsMade' /\ ChallengesMade' /\ CertificatesMade'
    BY <1>1, <1>3, <2>1, OrderRefs
  <2> QED
    BY <1>1, <2>2, RefStep
<1> QED
  BY <1>2, <1>3 DEF CreateOrder

-----------------------------------------------------------------------------
(* The response to a challenge.                                            *)

LEMMA SetChallengeProcessingRefs ==
  ASSUME IInv, RefInv, NEW h \in Handlers, NEW a \in Accounts, NEW id \in AuthzIds,
         NEW sub \in Submissions, SetChallengeProcessing(h, a, id, sub)
  PROVE  RefInv' /\ Grows
<1> DEFINE c == [challenge[id] EXCEPT !.status = "processing"]
<1>1. /\ TypeOK /\ Exists(id[1]) /\ challenge' = [challenge EXCEPT ![id] = c]
      /\ UNCHANGED <<authz, order, cert, notified>> /\ pc'[h] = "judge" /\ Others(h)
  <2>1. Others(h)
    BY OnlyItself DEF Begin, IInv
  <2> QED
    BY <2>1, GotoStep DEF IInv, SetChallengeProcessing, UpdateChallengeStatus, Exists, history
<1>2. c.status = "processing"
  BY <1>1 DEF TypeOK, Challenges
<1> HIDE DEF c
<1>3. Grows /\ MadeByCreator(h) /\ AuthzsMade' /\ ChallengesMade' /\ CertificatesMade'
  BY <1>1, <1>2, ChallengeRefs DEF Responded
<1>4. HandlerRefs(h)'
  BY <1>1, NoRefs DEF Judging
<1> QED
  BY <1>1, <1>3, <1>4, RefStep

LEMMA JudgeRefs ==
  ASSUME IInv, RefInv, NEW h \in Handlers, Judge(h)
  PROVE  RefInv' /\ Grows
<1>1. Others(h) /\ UNCHANGED <<storage, notified>>
  BY OnlyItself DEF IInv, Continue, Judge
<1>2. pc'[h] \in Judging
  BY GotoStep DEF IInv, Judge, VerdictCall, Judging
<1> QED
  BY <1>1, <1>2, NoRefs, NothingStored

\* Writing the verdict.
LEMMA VerdictRefs ==
  ASSUME IInv, RefInv, NEW h \in Handlers, pc[h] \in Judging, Others(h), NEW c,
         challenge' = [challenge EXCEPT ![Id(h)] = c], c.status \in Responded,
         UNCHANGED <<authz, order, cert, notified>>, HandlerRefs(h)'
  PROVE  RefInv' /\ Grows
<1>1. pc[h] \in Deciding
  BY DEF Deciding
<1>2. Id(h) \in AuthzIds /\ Exists(Id(h)[1])
  BY <1>1, InCharge
<1>3. Grows /\ MadeByCreator(h) /\ AuthzsMade' /\ ChallengesMade' /\ CertificatesMade'
  BY <1>2, ChallengeRefs
<1> QED
  BY <1>3, RefStep

LEMMA SetChallengeValidRefs ==
  ASSUME IInv, RefInv, NEW h \in Handlers, SetChallengeValid(h)
  PROVE  RefInv' /\ Grows
<1> DEFINE c == [status |-> "valid", att |-> AsStored(loc[h].sub.att)]
<1>1. pc[h] \in Judging /\ Others(h) /\ UNCHANGED <<authz, order, cert, notified>>
  BY OnlyItself DEF IInv, Continue, SetChallengeValid, Judging, history
<1>2. CASE Finish(h) /\ UNCHANGED challenge
  BY <1>1, <1>2, FinishRefs, NothingStored DEF storage
<1>3. CASE challenge' = [challenge EXCEPT ![Id(h)] = c] /\ Goto(h, "readAuthz")
  <2>1. c.status = "valid" /\ challenge' = [challenge EXCEPT ![Id(h)] = c]
    BY <1>3
  <2>2. HandlerRefs(h)'
    BY <1>3, GotoStep, NoRefs DEF IInv
  <2> HIDE DEF c
  <2> QED
    BY <1>1, <2>1, <2>2, VerdictRefs DEF Responded
<1> QED
  BY <1>2, <1>3 DEF SetChallengeValid, UpdateChallengeStatus

LEMMA SetChallengeInvalidRefs ==
  ASSUME IInv, RefInv, NEW h \in Handlers, SetChallengeInvalid(h)
  PROVE  RefInv' /\ Grows
<1> DEFINE c == [challenge[Id(h)] EXCEPT !.status = "invalid"]
<1>1. /\ pc[h] \in Judging /\ Others(h) /\ UNCHANGED <<authz, order, cert, notified>>
      /\ HandlerRefs(h)'
  BY OnlyItself, GotoStep, NoRefs DEF IInv, Continue, SetChallengeInvalid, Judging, history
<1>2. CASE UNCHANGED challenge
  BY <1>1, <1>2, NothingStored DEF storage
<1>3. CASE challenge' = [challenge EXCEPT ![Id(h)] = c]
  <2>1. c.status = "invalid" /\ challenge' = [challenge EXCEPT ![Id(h)] = c]
    <3>1. challenge[Id(h)] \in Challenges
      BY <1>1, InCharge DEF Deciding, TypeOK
    <3> QED
      BY <1>3, <3>1 DEF Challenges
  <2> HIDE DEF c
  <2> QED
    BY <1>1, <2>1, VerdictRefs DEF Responded
<1> QED
  BY <1>2, <1>3 DEF SetChallengeInvalid, UpdateChallengeStatus

LEMMA ReadAuthorizationRefs ==
  ASSUME IInv, RefInv, NEW h \in Handlers, ReadAuthorization(h)
  PROVE  RefInv' /\ Grows
<1>1. /\ pc[h] = "readAuthz" /\ TypeOK /\ loc[h] \in Locals /\ Others(h)
      /\ UNCHANGED <<storage, notified>>
  BY IdType, OnlyItself DEF IInv, Continue, ReadAuthorization, history
<1>2. CASE Finish(h)
  BY <1>1, <1>2, FinishRefs, NothingStored
<1>3. CASE Local(h, [loc[h] EXCEPT !.az = authz[Id(h)]]) /\ Goto(h, "refreshChallenge")
  <2> DEFINE l == [loc[h] EXCEPT !.az = authz[Id(h)]]
  <2>1. pc'[h] = "refreshChallenge" /\ loc'[h] = l
    BY <1>1, <1>3, GotoStep, LocalVarsStep
  <2>2. l.o = loc[h].o /\ l.i = loc[h].i /\ l.az = authz[Id(h)]
    BY <1>1 DEF Locals
  <2> HIDE DEF l
  <2>3. Id(h)' = Id(h)
    BY <2>1, <2>2 DEF Id
  <2>4. HandlerRefs(h)'
    BY <1>1, <2>1, <2>2, <2>3
    DEF HandlerRefs, CreatorRefs, CopyRefs, Copying, Creating, Finalizing, storage
  <2> QED
    BY <1>1, <2>4, NothingStored
<1> QED
  BY <1>2, <1>3 DEF ReadAuthorization

LEMMA RefreshChallengeRefs ==
  ASSUME IInv, RefInv, NEW h \in Handlers, RefreshChallenge(h)
  PROVE  RefInv' /\ Grows
<1> DEFINE current == challenge[Id(h)].status
           l == [loc[h] EXCEPT !.az.chal = current, !.az.status = AuthzStatus(current)]
<1>1. /\ pc[h] = "refreshChallenge" /\ TypeOK /\ loc[h] \in Locals /\ Others(h)
      /\ UNCHANGED <<storage, notified>> /\ pc'[h] = "writeAuthz"
  BY IdType, OnlyItself, GotoStep DEF IInv, Continue, RefreshChallenge, history
<1>2. loc'[h].o = loc[h].o /\ loc'[h].i = loc[h].i /\ loc'[h].az.acct = loc[h].az.acct
  <2>1. CASE UNCHANGED loc
    BY <2>1
  <2>2. CASE Local(h, l)
    <3>1. l.o = loc[h].o /\ l.i = loc[h].i /\ l.az.acct = loc[h].az.acct
      BY <1>1 DEF Locals, Authzs
    <3> HIDE DEF l
    <3> QED
      BY <1>1, <2>2, <3>1, LocalVarsStep
  <2> QED
    BY <2>1, <2>2 DEF RefreshChallenge
<1>3. Id(h)' = Id(h)
  BY <1>2 DEF Id
<1>4. loc[h].az.acct = authz[Id(h)].acct
  BY <1>1 DEF RefInv, HandlerRefs, CopyRefs
<1>5. HandlerRefs(h)'
  BY <1>1, <1>2, <1>3, <1>4
  DEF HandlerRefs, CreatorRefs, CopyRefs, Copying, Creating, Finalizing, storage
<1> QED
  BY <1>1, <1>5, NothingStored

LEMMA UpdateAuthorizationRefs ==
  ASSUME IInv, RefInv, NEW h \in Handlers, UpdateAuthorization(h)
  PROVE  RefInv' /\ Grows
<1> DEFINE a == loc[h].az
<1>1. /\ pc[h] = "writeAuthz" /\ pc[h] \in Deciding /\ Others(h)
      /\ UNCHANGED <<challenge, order, cert, notified>>
  BY OnlyItself DEF IInv, Continue, UpdateAuthorization, Deciding, history
<1>2. HandlerOK(h) /\ Id(h) \in AuthzIds
  BY <1>1, InCharge
<1>3. HandlerRefs(h)'
  <2>1. CASE Finish(h)
    BY <2>1, FinishRefs
  <2>2. CASE Goto(h, "readOrder")
    BY <2>2, GotoStep, NoRefs DEF IInv
  <2> QED
    BY <2>1, <2>2 DEF UpdateAuthorization
<1>4. /\ a.status # "absent" /\ Made(Id(h)) /\ a.acct = authz[Id(h)].acct
      /\ challenge[Id(h)].status # "absent"
  BY <1>1, <1>2 DEF HandlerOK, ProcessorOK, Made, RefInv, HandlerRefs, CopyRefs
<1> HIDE DEF a
<1>5. CASE authz' = [authz EXCEPT ![Id(h)] = a]
  <2>1. Grows /\ MadeByCreator(h) /\ AuthzsMade' /\ ChallengesMade' /\ CertificatesMade'
    BY <1>1, <1>2, <1>4, <1>5, AuthzRefs
  <2> QED
    BY <1>1, <1>3, <2>1, RefStep
<1>6. CASE UNCHANGED authz
  BY <1>1, <1>3, <1>6, NothingStored DEF storage
<1> QED
  BY <1>5, <1>6 DEF UpdateAuthorization, a

-----------------------------------------------------------------------------
(* updateOrderStatus.                                                      *)

LEMMA ReadOrderRefs ==
  ASSUME IInv, RefInv, NEW h \in Handlers, ReadOrder(h)
  PROVE  RefInv' /\ Grows
<1>1. /\ pc[h] = "readOrder" /\ TypeOK /\ loc[h] \in Locals /\ loc[h].o \in OrderIds
      /\ Others(h) /\ UNCHANGED <<storage, notified>>
  BY IdType, OnlyItself DEF IInv, Continue, ReadOrder, history
<1>2. CASE Finish(h)
  BY <1>1, <1>2, FinishRefs, NothingStored
<1>3. CASE /\ order[loc[h].o].status \notin Final \cup {"absent"}
           /\ Local(h, [loc[h] EXCEPT !.ord = order[loc[h].o], !.i = 1, !.allValid = TRUE])
           /\ Goto(h, "checkAuthz")
  <2> DEFINE l == [loc[h] EXCEPT !.ord = order[loc[h].o], !.i = 1, !.allValid = TRUE]
  <2>1. pc'[h] = "checkAuthz" /\ loc'[h] = l
    BY <1>1, <1>3, GotoStep, LocalVarsStep
  <2>2. l.o = loc[h].o /\ l.ord = order[loc[h].o]
    BY <1>1 DEF Locals
  <2> HIDE DEF l
  <2>3. order[loc[h].o].cert = None
    BY <1>1, <1>3 DEF Final, RefInv, CertificatesMade, CertificateUrlResolves
  <2>4. HandlerRefs(h)'
    BY <1>1, <2>1, <2>2, <2>3
    DEF HandlerRefs, CreatorRefs, CopyRefs, Copying, Creating, Finalizing, storage
  <2> QED
    BY <1>1, <2>4, NothingStored
<1> QED
  BY <1>2, <1>3 DEF ReadOrder

\* The copy of the order that updateOrderStatus works on keeps its account, and names no
\* certificate, whatever status it is given.
LEMMA CheckAuthorizationLocals ==
  ASSUME IInv, NEW h \in Handlers, CheckAuthorization(h)
  PROVE  /\ pc'[h] \in {"checkAuthz", "writeOrder"} /\ loc'[h].o = loc[h].o
         /\ loc'[h].ord.acct = loc[h].ord.acct /\ loc'[h].ord.cert = loc[h].ord.cert
         /\ loc'[h].ord.n = loc[h].ord.n
<1>1. /\ pc[h] = "checkAuthz" /\ TypeOK /\ loc[h] \in Locals /\ loc[h].ord \in Orders
      /\ loc[h].i \in 1 .. MaxIdents
  BY IdType DEF CheckAuthorization, Locals
<1>2. PICK seen \in {authz[Id(h)].status} \cup (IF MayFail THEN {"error"} ELSE {}) :
        \/ /\ Local(h, [loc[h] EXCEPT !.ord.status = "invalid"])
           /\ Goto(h, "writeOrder")
        \/ /\ Local(h, [loc[h] EXCEPT !.i = @ + 1, !.allValid = AllValid(h, seen)])
           /\ UNCHANGED pc
        \/ /\ Local(h, [loc[h] EXCEPT !.allValid = AllValid(h, seen),
                                      !.ord.status = IF AllValid(h, seen) THEN "ready"
                                                     ELSE loc[h].ord.status])
           /\ Goto(h, "writeOrder")
  BY Zenon DEF CheckAuthorization
<1>4. CASE Local(h, [loc[h] EXCEPT !.ord.status = "invalid"]) /\ Goto(h, "writeOrder")
  <2> DEFINE l == [loc[h] EXCEPT !.ord.status = "invalid"]
  <2>1. /\ l.o = loc[h].o /\ l.ord.acct = loc[h].ord.acct
        /\ l.ord.cert = loc[h].ord.cert /\ l.ord.n = loc[h].ord.n
    BY <1>1 DEF Locals, Orders
  <2> HIDE DEF l
  <2> QED
    BY <1>1, <1>4, <2>1, GotoStep, LocalVarsStep DEF l
<1>5. CASE Local(h, [loc[h] EXCEPT !.i = @ + 1, !.allValid = AllValid(h, seen)]) /\ UNCHANGED pc
  <2> DEFINE l == [loc[h] EXCEPT !.i = @ + 1, !.allValid = AllValid(h, seen)]
  <2>1. l.o = loc[h].o /\ l.ord = loc[h].ord
    BY <1>1 DEF Locals
  <2> HIDE DEF l
  <2> QED
    BY <1>1, <1>5, <2>1, LocalVarsStep DEF l
<1>6. CASE /\ Local(h, [loc[h] EXCEPT !.allValid = AllValid(h, seen),
                                      !.ord.status = IF AllValid(h, seen) THEN "ready"
                                                     ELSE loc[h].ord.status])
           /\ Goto(h, "writeOrder")
  <2> DEFINE st == IF AllValid(h, seen) THEN "ready" ELSE loc[h].ord.status
             l == [loc[h] EXCEPT !.allValid = AllValid(h, seen), !.ord.status = st]
  <2>1. /\ l.o = loc[h].o /\ l.ord.acct = loc[h].ord.acct
        /\ l.ord.cert = loc[h].ord.cert /\ l.ord.n = loc[h].ord.n
    <3> HIDE DEF st
    <3> QED
      BY <1>1 DEF Locals, Orders
  <2>2. Local(h, l) /\ Goto(h, "writeOrder")
    BY <1>6
  <2> HIDE DEF l
  <2> QED
    BY <1>1, <2>1, <2>2, GotoStep, LocalVarsStep
<1> QED
  BY <1>2, <1>4, <1>5, <1>6

LEMMA CheckAuthorizationRefs ==
  ASSUME IInv, RefInv, NEW h \in Handlers, CheckAuthorization(h)
  PROVE  RefInv' /\ Grows
<1>1. /\ pc[h] = "checkAuthz" /\ loc[h].o \in OrderIds
      /\ Others(h) /\ UNCHANGED <<storage, notified>>
  BY IdType, OnlyItself DEF IInv, Continue, CheckAuthorization, history
<1>2. HandlerRefs(h)'
  BY <1>1, CheckAuthorizationLocals
  DEF RefInv, HandlerRefs, CreatorRefs, CopyRefs, Copying, Creating, Finalizing, storage
<1> QED
  BY <1>1, <1>2, NothingStored

LEMMA UpdateOrderRefs ==
  ASSUME IInv, RefInv, NEW h \in Handlers, UpdateOrder(h)
  PROVE  RefInv' /\ Grows
<1> DEFINE o == loc[h].o
           r == loc[h].ord
<1>1. /\ pc[h] = "writeOrder" /\ o \in OrderIds /\ Exists(o) /\ HandlerOK(h)
      /\ Others(h) /\ HandlerRefs(h)' /\ UNCHANGED <<challenge, authz, cert, notified>>
  <2>1. pc[h] = "writeOrder" /\ Finish(h) /\ UNCHANGED <<challenge, authz, cert, notified>>
    BY DEF UpdateOrder, history
  <2> QED
    BY <2>1, AtWork, OnlyItself, FinishRefs DEF IInv, Continue, Creating
<1>2. CASE UNCHANGED order
  BY <1>1, <1>2, NothingStored DEF storage
<1>3. CASE order' = [order EXCEPT ![o] = r]
  <2>1. /\ r.status \in {"pending", "ready", "invalid"} /\ r.cert = None
        /\ r.n = order[o].n /\ r.acct = order[o].acct
    BY <1>1 DEF HandlerOK, CopyOK, Copying, Creating, RefInv, HandlerRefs, CopyRefs
  <2> HIDE DEF o, r
  <2>2. Grows /\ MadeByCreator(h) /\ AuthzsMade' /\ ChallengesMade' /\ CertificatesMade'
    BY <1>1, <1>3, <2>1, OrderRefs
  <2> QED
    BY <1>1, <2>2, RefStep
<1> QED
  BY <1>2, <1>3 DEF UpdateOrder

-----------------------------------------------------------------------------
(* Finalize.                                                               *)

LEMMA FinalizeRefs ==
  ASSUME IInv, RefInv, NEW h \in Handlers, NEW a \in Accounts, NEW o \in OrderIds,
         Finalize(h, a, o)
  PROVE  RefInv' /\ Grows
<1> DEFINE l == [NoLocals EXCEPT !.acct = a, !.o = o, !.ord = order[o]]
<1>1. /\ TypeOK /\ order[o].status = "ready" /\ order[o].acct = a
      /\ Local(h, l) /\ Goto(h, "collect") /\ UNCHANGED <<storage, notified>>
  BY DEF IInv, Finalize, Finalizable, history
<1>2. Others(h) /\ pc'[h] = "collect" /\ loc'[h] = l
  BY <1>1, GotoStep, LocalVarsStep DEF Others
<1>3. l.o = o /\ l.acct = a /\ l.ord = order[o]
  BY DEF NoLocals
<1> HIDE DEF l
<1>4. order[o].cert = None
  BY <1>1 DEF RefInv, CertificatesMade, CertificateUrlResolves
<1>5. HandlerRefs(h)'
  BY <1>1, <1>2, <1>3, <1>4
  DEF HandlerRefs, CreatorRefs, CopyRefs, Copying, Creating, Finalizing, storage
<1> QED
  BY <1>1, <1>2, <1>5, NothingStored

\* Reading the devices leaves the order at hand and its copy alone.
LEMMA CollectDeviceLocals ==
  ASSUME IInv, NEW h \in Handlers, CollectDevice(h)
  PROVE  /\ pc'[h] \in {"collect", "issue"}
         /\ loc'[h].o = loc[h].o /\ loc'[h].acct = loc[h].acct /\ loc'[h].ord = loc[h].ord
<1>1. pc[h] = "collect" /\ TypeOK /\ loc[h] \in Locals
  BY IdType DEF IInv, CollectDevice
<1>2. PICK devs \in SUBSET AuthzIds :
        \/ Local(h, [loc[h] EXCEPT !.i = @ + 1, !.devs = devs]) /\ UNCHANGED pc
        \/ Local(h, [loc[h] EXCEPT !.devs = devs]) /\ Goto(h, "issue")
  <2>1. loc[h].devs \in SUBSET AuthzIds /\ Id(h) \in AuthzIds
    BY <1>1, IdType DEF Locals
  <2> QED
    BY <2>1 DEF CollectDevice
<1>3. CASE Local(h, [loc[h] EXCEPT !.i = @ + 1, !.devs = devs]) /\ UNCHANGED pc
  <2> DEFINE l == [loc[h] EXCEPT !.i = @ + 1, !.devs = devs]
  <2>1. l.o = loc[h].o /\ l.acct = loc[h].acct /\ l.ord = loc[h].ord
    BY <1>1 DEF Locals
  <2> HIDE DEF l
  <2> QED
    BY <1>1, <1>3, <2>1, LocalVarsStep DEF l
<1>4. CASE Local(h, [loc[h] EXCEPT !.devs = devs]) /\ Goto(h, "issue")
  <2> DEFINE l == [loc[h] EXCEPT !.devs = devs]
  <2>1. l.o = loc[h].o /\ l.acct = loc[h].acct /\ l.ord = loc[h].ord
    BY <1>1 DEF Locals
  <2> HIDE DEF l
  <2> QED
    BY <1>1, <1>4, <2>1, GotoStep, LocalVarsStep DEF l
<1> QED
  BY <1>2, <1>3, <1>4

LEMMA CollectDeviceRefs ==
  ASSUME IInv, RefInv, NEW h \in Handlers, CollectDevice(h)
  PROVE  RefInv' /\ Grows
<1>1. /\ pc[h] = "collect" /\ loc[h].o \in OrderIds
      /\ Others(h) /\ UNCHANGED <<storage, notified>>
  BY IdType, OnlyItself DEF IInv, Continue, CollectDevice, history
<1>2. HandlerRefs(h)'
  BY <1>1, CollectDeviceLocals
  DEF RefInv, HandlerRefs, CreatorRefs, CopyRefs, Copying, Creating, Finalizing, storage
<1> QED
  BY <1>1, <1>2, NothingStored

LEMMA IssueCertificateRefs ==
  ASSUME IInv, RefInv, NEW h \in Handlers, IssueCertificate(h)
  PROVE  RefInv' /\ Grows
<1> DEFINE o == loc[h].o
<1>1. /\ pc[h] = "issue" /\ TypeOK /\ loc[h] \in Locals /\ loc[h].ord \in Orders /\ o \in OrderIds
      /\ Others(h) /\ UNCHANGED <<challenge, authz, order, notified>>
  <2>1. pc[h] = "issue" /\ UNCHANGED <<challenge, authz, order, notified>>
    BY DEF IssueCertificate, history
  <2> QED
    BY <2>1, IdType, OnlyItself DEF Continue, Locals
<1>2. CASE Finish(h) /\ UNCHANGED cert
  BY <1>1, <1>2, FinishRefs, NothingStored DEF storage
<1>3. CASE \E s \in FreeSerials :
             /\ cert' = [cert EXCEPT ![s] = [order |-> o, acct |-> loc[h].acct, devs |-> loc[h].devs]]
             /\ Local(h, [loc[h] EXCEPT !.ord.status = "valid", !.ord.cert = s])
             /\ Goto(h, "updateOrder")
  <2>1. PICK s \in Serials :
          /\ cert[s] = NoCertificate
          /\ cert' = [cert EXCEPT ![s] = [order |-> o, acct |-> loc[h].acct, devs |-> loc[h].devs]]
          /\ Local(h, [loc[h] EXCEPT !.ord.status = "valid", !.ord.cert = s])
          /\ Goto(h, "updateOrder")
    BY <1>3 DEF FreeSerials
  <2> DEFINE l == [loc[h] EXCEPT !.ord.status = "valid", !.ord.cert = s]
             c == [order |-> o, acct |-> loc[h].acct, devs |-> loc[h].devs]
  <2>2. /\ l.o = o /\ l.acct = loc[h].acct /\ l.ord.acct = loc[h].ord.acct
        /\ l.ord.status = "valid" /\ l.ord.cert = s
    BY <1>1 DEF Locals, Orders
  <2>3. pc'[h] = "updateOrder" /\ loc'[h] = l
    BY <1>1, <2>1, GotoStep, LocalVarsStep
  <2>4. c.order = o /\ c.acct = loc[h].acct
    OBVIOUS
  <2>5. \A t \in Serials : cert'[t] = IF t = s THEN c ELSE cert[t]
    BY <1>1, <2>1 DEF TypeOK
  <2>6. loc[h].ord.acct = order[o].acct /\ loc[h].acct = loc[h].ord.acct
    BY <1>1 DEF RefInv, HandlerRefs, CopyRefs, Copying, Finalizing, Creating
  <2> HIDE DEF l, c, o
  <2>7. \A t \in Serials : Stored(t) => t # s /\ cert'[t] = cert[t]
    BY <2>1, <2>5 DEF Stored, NoCertificate
  <2>8. Grows /\ MadeByCreator(h)
    BY <1>1, <2>7 DEF Grows, MadeByCreator, Made, Exists
  <2>9. AuthzsMade' /\ ChallengesMade'
    BY <1>1 DEF RefInv, AuthzsMade, ChallengesMade, Made, Exists
  <2>10. CertificatesMade'
    <3>1. /\ \A p \in OrderIds :
               /\ order'[p].status = "valid" <=> order'[p].cert # None
               /\ order'[p].cert # None => cert'[order'[p].cert].order = p
          /\ \A t \in notified : Stored(t)'
      <4>1. \A p \in OrderIds : order[p].cert # None =>
              order[p].cert \in Serials /\ Stored(order[p].cert)
        BY <1>1, OrderFlowAssumption
        DEF RefInv, CertificatesMade, CertificateUrlResolves, Stored, TypeOK, Orders
      <4>2. \A t \in notified : t \in Serials /\ Stored(t)
        BY <1>1 DEF TypeOK, RefInv, CertificatesMade, CertificateUrlResolves
      <4> QED
        BY <1>1, <2>7, <4>1, <4>2 DEF RefInv, CertificatesMade, CertificateUrlResolves, Stored
    <3>2. ASSUME NEW t \in Serials, Stored(t)'
          PROVE  cert'[t].acct = order'[cert'[t].order].acct
      <4>1. CASE t = s
        BY <1>1, <2>4, <2>5, <2>6, <4>1 DEF o
      <4>2. CASE t # s
        BY <1>1, <2>5, <3>2, <4>2 DEF RefInv, CertificatesMade, Stored
      <4> QED
        BY <4>1, <4>2
    <3> QED
      BY <1>1, <3>1, <3>2 DEF CertificatesMade, CertificateUrlResolves
  <2>11. HandlerRefs(h)'
    BY <1>1, <2>2, <2>3, <2>4, <2>5, <2>6
    DEF HandlerRefs, CreatorRefs, CopyRefs, Copying, Creating, Finalizing
  <2> QED
    BY <1>1, <2>8, <2>9, <2>10, <2>11, RefStep
<1> QED
  BY <1>2, <1>3 DEF IssueCertificate

LEMMA UpdateFinalizedOrderRefs ==
  ASSUME IInv, RefInv, NEW h \in Handlers, UpdateFinalizedOrder(h)
  PROVE  RefInv' /\ Grows
<1> DEFINE o == loc[h].o
           r == loc[h].ord
<1>1. /\ pc[h] = "updateOrder" /\ o \in OrderIds /\ Exists(o) /\ HandlerOK(h)
      /\ Others(h) /\ UNCHANGED <<challenge, authz, cert, notified>>
  <2>1. pc[h] = "updateOrder" /\ UNCHANGED <<challenge, authz, cert, notified>>
    BY DEF UpdateFinalizedOrder, history
  <2> QED
    BY <2>1, AtWork, OnlyItself DEF IInv, Continue, Creating
<1>2. CASE Finish(h) /\ UNCHANGED order
  BY <1>1, <1>2, FinishRefs, NothingStored DEF storage
<1>3. CASE order' = [order EXCEPT ![o] = r] /\ Goto(h, "notify") /\ UNCHANGED loc
  <2>1. /\ r.status = "valid" /\ r.cert \in Serials /\ cert[r.cert].order = o
        /\ r.n = order[o].n /\ r.acct = order[o].acct
    BY <1>1
    DEF HandlerOK, LocalsOK, CopyOK, Copying, Creating, Finalizing, RefInv, HandlerRefs, CopyRefs
  <2>2. pc'[h] = "notify" /\ loc'[h] = loc[h]
    BY <1>3, GotoStep DEF IInv
  <2>3. HandlerRefs(h)'
    BY <1>1, <2>1, <2>2
    DEF HandlerRefs, CreatorRefs, CopyRefs, Copying, Creating, Finalizing
  <2> HIDE DEF o, r
  <2>4. Grows /\ MadeByCreator(h) /\ AuthzsMade' /\ ChallengesMade' /\ CertificatesMade'
    BY <1>1, <1>3, <2>1, OrderFlowAssumption, OrderRefs
  <2> QED
    BY <1>1, <2>3, <2>4, RefStep
<1> QED
  BY <1>2, <1>3 DEF UpdateFinalizedOrder

LEMMA NotifyObserversRefs ==
  ASSUME IInv, RefInv, NEW h \in Handlers, NotifyObservers(h)
  PROVE  RefInv' /\ Grows
<1>1. /\ pc[h] = "notify" /\ HandlerOK(h) /\ loc[h].o \in OrderIds /\ Others(h)
      /\ pc'[h] = "reread" /\ UNCHANGED storage /\ notified' = notified \cup {loc[h].ord.cert}
  BY IdType, OnlyItself, GotoStep DEF IInv, Continue, NotifyObservers
<1>2. Stored(loc[h].ord.cert)
  BY <1>1, OrderFlowAssumption DEF RefInv, HandlerRefs, CopyRefs, Stored
<1>3. HandlerRefs(h)'
  BY <1>1, NoRefs
<1>4. Grows /\ MadeByCreator(h) /\ AuthzsMade' /\ ChallengesMade'
  BY <1>1 DEF RefInv, AuthzsMade, ChallengesMade, Grows, MadeByCreator, Made, Exists, storage
<1>5. CertificatesMade'
  BY <1>1, <1>2 DEF RefInv, CertificatesMade, CertificateUrlResolves, Stored, storage
<1> QED
  BY <1>1, <1>3, <1>4, <1>5, RefStep

LEMMA RereadOrderRefs ==
  ASSUME IInv, RefInv, NEW h \in Handlers, RereadOrder(h)
  PROVE  RefInv' /\ Grows
<1>1. Others(h) /\ UNCHANGED <<storage, notified>>
  BY OnlyItself DEF IInv, Continue, RereadOrder, history
<1>2. HandlerRefs(h)'
  BY FinishRefs, GotoStep, NoRefs DEF IInv, RereadOrder
<1> QED
  BY <1>1, <1>2, NothingStored

LEMMA AnswerRefs ==
  ASSUME IInv, RefInv, NEW h \in Handlers, Answer(h)
  PROVE  RefInv' /\ Grows
<1>1. Others(h) /\ UNCHANGED <<storage, notified>> /\ Finish(h)
  BY OnlyItself DEF IInv, Continue, Answer, history
<1> QED
  BY <1>1, FinishRefs, NothingStored

-----------------------------------------------------------------------------
(* The invariant.                                                          *)

\* A restart leaves what is stored, and no handler with a reference.
LEMMA CrashRefs ==
  ASSUME IInv, RefInv, Crash
  PROVE  RefInv' /\ Grows
<1>1. /\ UNCHANGED <<storage, notified>>
      /\ \A h \in Handlers : pc'[h] = "idle"
  BY DEF Crash, history
<1>2. AuthzsMade' /\ ChallengesMade' /\ CertificatesMade'
  BY <1>1 DEF RefInv, AuthzsMade, ChallengesMade, CertificatesMade, CertificateUrlResolves,
              Made, Exists, Stored, storage
<1>3. Grows
  BY <1>1 DEF Grows, Made, Exists, storage
<1> QED
  BY <1>1, <1>2, <1>3, NoRefs DEF RefInv

\* Nothing refers to anything at the start.
LEMMA InitRefs == Init => RefInv
<1> SUFFICES ASSUME Init PROVE RefInv
  OBVIOUS
<1>1. AuthzsMade /\ ChallengesMade
  BY DEF Init, AuthzsMade, ChallengesMade, Exists, NoOrder, NoAuthz, NoChallenge, AuthzIds
<1>2. CertificatesMade
  BY DEF Init, CertificatesMade, CertificateUrlResolves, Stored, NoOrder, NoCertificate
<1>3. \A h \in Handlers : HandlerRefs(h)
  BY DEF Init, HandlerRefs, CreatorRefs, CopyRefs, Creating, Copying, Finalizing
<1> QED
  BY <1>1, <1>2, <1>3 DEF RefInv

\* Every step keeps the invariant.
LEMMA RefNextStep == IInv /\ RefInv /\ [Next]_vars => RefInv' /\ Grows
<1> SUFFICES ASSUME IInv, RefInv, [Next]_vars PROVE RefInv' /\ Grows
  OBVIOUS
<1>1. CASE Crash
  BY <1>1, CrashRefs
<1>2. ASSUME NEW h \in Handlers, Begin(h)
      PROVE  RefInv' /\ Grows
  BY <1>2, NewOrderRefs, SetChallengeProcessingRefs, FinalizeRefs DEF Begin
<1>3. ASSUME NEW h \in Handlers, Continue(h)
      PROVE  RefInv' /\ Grows
  <2>1. CASE CreateChallenge(h) \/ CreateAuthorization(h) \/ CreateOrder(h)
    BY <2>1, CreateChallengeRefs, CreateAuthorizationRefs, CreateOrderRefs
  <2>2. CASE Judge(h) \/ SetChallengeValid(h) \/ SetChallengeInvalid(h)
    BY <2>2, JudgeRefs, SetChallengeValidRefs, SetChallengeInvalidRefs
  <2>3. CASE ReadAuthorization(h) \/ RefreshChallenge(h) \/ UpdateAuthorization(h)
    BY <2>3, ReadAuthorizationRefs, RefreshChallengeRefs, UpdateAuthorizationRefs
  <2>4. CASE ReadOrder(h) \/ CheckAuthorization(h) \/ UpdateOrder(h)
    BY <2>4, ReadOrderRefs, CheckAuthorizationRefs, UpdateOrderRefs
  <2>5. CASE CollectDevice(h) \/ IssueCertificate(h) \/ UpdateFinalizedOrder(h)
    BY <2>5, CollectDeviceRefs, IssueCertificateRefs, UpdateFinalizedOrderRefs
  <2>6. CASE NotifyObservers(h) \/ RereadOrder(h) \/ Answer(h)
    BY <2>6, NotifyObserversRefs, RereadOrderRefs, AnswerRefs
  <2> QED
    BY <1>3, <2>1, <2>2, <2>3, <2>4, <2>5, <2>6 DEF Continue
<1>4. CASE UNCHANGED vars
  <2>1. UNCHANGED <<storage, notified, pc, loc>>
    BY <1>4 DEF vars, history
  <2>2. AuthzsMade' /\ ChallengesMade' /\ CertificatesMade'
    BY <2>1 DEF RefInv, AuthzsMade, ChallengesMade, CertificatesMade, CertificateUrlResolves,
                Made, Exists, Stored, storage
  <2>3. \A h \in Handlers : HandlerRefs(h)'
    BY <2>1 DEF RefInv, HandlerRefs, CreatorRefs, CopyRefs, Made, Id, storage
  <2>4. Grows
    BY <2>1 DEF Grows, Made, Exists, storage
  <2> QED
    BY <2>2, <2>3, <2>4 DEF RefInv
<1> QED
  BY <1>1, <1>2, <1>3, <1>4 DEF Next

\* The references between stored objects, and those the handlers hold, are right in
\* every reachable state.
THEOREM ReferenceInvariance == Spec => []RefInv
BY Invariance, InitRefs, RefNextStep, PTL DEF Spec

\* The certificate an order names is stored, and was issued for that order, whichever
\* writes fail and however the requests to finalize it overlap.
THEOREM CertificateUrlsResolve == Spec => []CertificateUrlResolves
<1>1. RefInv => CertificateUrlResolves
  BY DEF RefInv, CertificatesMade
<1> QED
  BY <1>1, ReferenceInvariance, PTL

\* A certificate can be downloaded by nobody but the account that finalized its order,
\* which is the one that placed it.
THEOREM DownloadsByOwner == Spec => []DownloadByOwner
<1>1. IInv /\ RefInv => DownloadByOwner
  <2> SUFFICES ASSUME IInv, RefInv, NEW a \in Accounts, NEW s \in Serials, Downloadable(a, s)
               PROVE  cert[s].acct = a /\ order[cert[s].order].acct = a
    BY DEF DownloadByOwner
  <2>1. PICK o \in OrderIds : order[o].acct = a /\ order[o].cert = s
    BY DEF Downloadable
  <2>2. cert[s].order = o /\ Stored(s)
    BY <2>1, OrderFlowAssumption DEF RefInv, CertificatesMade, CertificateUrlResolves, Stored
  <2> QED
    BY <2>1, <2>2 DEF RefInv, CertificatesMade
<1> QED
  BY <1>1, Invariance, ReferenceInvariance, PTL

\* Every authorization of an order exists and is of its account, and so does the
\* challenge an authorization shows.
THEOREM ReferencesHold == Spec => []ReferentialIntegrity
<1>1. IInv /\ RefInv => ReferentialIntegrity
  <2> SUFFICES ASSUME IInv, RefInv
               PROVE  ReferentialIntegrity
    OBVIOUS
  <2>1. ASSUME NEW o \in OrderIds, Exists(o), NEW id \in AuthzsOf(o)
        PROVE  authz[id].status # "absent" /\ authz[id].acct = order[o].acct
    <3>1. PICK i \in 1 .. order[o].n : id = <<o, i>>
      BY <2>1 DEF AuthzsOf
    <3>2. i \in 1 .. MaxIdents /\ i <= order[o].n
      <4>1. order[o].n \in 0 .. MaxIdents
        BY DEF IInv, TypeOK, Orders
      <4> QED
        BY <4>1, OrderFlowAssumption
    <3> QED
      BY <2>1, <3>1, <3>2 DEF RefInv, AuthzsMade, Made
  <2> QED
    BY <2>1 DEF ReferentialIntegrity, RefInv, ChallengesMade
<1> QED
  BY <1>1, Invariance, ReferenceInvariance, PTL

-----------------------------------------------------------------------------
(* Verdicts.                                                               *)

VerdictsKept ==
  \A id \in AuthzIds :
    /\ challenge[id].status \in Final => challenge'[id] = challenge[id]
    /\ authz[id].status \in Final => authz'[id] = authz[id]

\* A challenge or an authorization that is written is not decided yet.
LEMMA WriteUndecided ==
  ASSUME IInv, NEW id \in AuthzIds,
         \/ UNCHANGED challenge
         \/ challenge[id].status \notin Final /\ \E c : challenge' = [challenge EXCEPT ![id] = c],
         \/ UNCHANGED authz
         \/ authz[id].status \notin Final /\ \E a : authz' = [authz EXCEPT ![id] = a]
  PROVE  VerdictsKept
<1>1. \A j \in AuthzIds : challenge[j].status \in Final => challenge'[j] = challenge[j]
  BY DEF IInv, TypeOK
<1>2. \A j \in AuthzIds : authz[j].status \in Final => authz'[j] = authz[j]
  BY DEF IInv, TypeOK
<1> QED
  BY <1>1, <1>2 DEF VerdictsKept

\* The creator of an order writes challenges and authorizations that are new.
LEMMA CreatorKeepsVerdicts ==
  ASSUME IInv, RefInv, NEW h \in Handlers, CreateChallenge(h) \/ CreateAuthorization(h)
  PROVE  VerdictsKept
<1>1. /\ pc[h] \in Creating /\ pc[h] # "idle"
      /\ Id(h) = <<loc[h].o, loc[h].i>> /\ Id(h) \in AuthzIds
      /\ loc[h].o \in OrderIds /\ loc[h].i \in 1 .. MaxIdents
  <2>1. pc[h] \in Creating /\ pc[h] # "idle"
    BY DEF CreateChallenge, CreateAuthorization, Creating
  <2> QED
    BY <2>1, IdType
<1>2. ~Exists(loc[h].o)
  BY <1>1 DEF IInv, HandlerOK, CreatorOK
<1>3. challenge[Id(h)].status \notin Final /\ authz[Id(h)].status \notin Final
  BY <1>1, <1>2 DEF RefInv, ChallengesMade, IInv, OrderLast, Final
<1>4. CASE CreateChallenge(h)
  BY <1>1, <1>3, <1>4, WriteUndecided, Zenon DEF CreateChallenge
<1>5. CASE CreateAuthorization(h)
  BY <1>1, <1>3, <1>5, WriteUndecided, Zenon DEF CreateAuthorization
<1> QED
  BY <1>4, <1>5

\* A response compares the status of the challenge as it sets it, and decides the
\* authorization no second time.
LEMMA ResponseKeepsVerdicts ==
  ASSUME IInv, NEW h \in Handlers,
         SetChallengeValid(h) \/ SetChallengeInvalid(h) \/ UpdateAuthorization(h)
  PROVE  VerdictsKept
<1>1. pc[h] \in Deciding
  BY DEF SetChallengeValid, SetChallengeInvalid, UpdateAuthorization, Deciding, Judging
<1>2. HandlerOK(h) /\ Id(h) \in AuthzIds
  BY <1>1, InCharge
<1>3. authz[Id(h)].status \notin Final /\ "processing" \notin Final
  BY <1>1, <1>2 DEF HandlerOK, ProcessorOK, Final
<1>4. CASE SetChallengeValid(h)
  BY <1>2, <1>3, <1>4, WriteUndecided, Zenon DEF SetChallengeValid, UpdateChallengeStatus
<1>5. CASE SetChallengeInvalid(h)
  BY <1>2, <1>3, <1>5, WriteUndecided, Zenon DEF SetChallengeInvalid, UpdateChallengeStatus
<1>6. CASE UpdateAuthorization(h)
  BY <1>2, <1>3, <1>6, WriteUndecided, Zenon DEF UpdateAuthorization
<1> QED
  BY <1>4, <1>5, <1>6

\* No step changes a decided challenge or authorization.
LEMMA VerdictsStep == IInv /\ RefInv /\ [Next]_vars => VerdictsKept
<1> SUFFICES ASSUME IInv, RefInv, [Next]_vars PROVE VerdictsKept
  OBVIOUS
<1>1. UNCHANGED <<challenge, authz>> => VerdictsKept
  BY DEF VerdictsKept
<1>2. CASE Crash \/ UNCHANGED vars
  BY <1>1, <1>2 DEF Crash, vars, storage
<1>3. ASSUME NEW h \in Handlers, Begin(h)
      PROVE  VerdictsKept
  <2>1. CASE \E a \in Accounts, o \in OrderIds, n \in 1 .. MaxIdents : NewOrder(h, a, o, n)
    BY <1>1, <2>1 DEF NewOrder, storage
  <2>2. CASE \E a \in Accounts, id \in AuthzIds, sub \in Submissions :
               SetChallengeProcessing(h, a, id, sub)
    BY <2>2, WriteUndecided DEF SetChallengeProcessing, UpdateChallengeStatus, Final
  <2>3. CASE \E a \in Accounts, o \in OrderIds : Finalize(h, a, o)
    BY <1>1, <2>3 DEF Finalize, storage
  <2> QED
    BY <1>3, <2>1, <2>2, <2>3 DEF Begin
<1>4. ASSUME NEW h \in Handlers, Continue(h)
      PROVE  VerdictsKept
  <2>1. CASE CreateOrder(h) \/ Judge(h) \/ ReadAuthorization(h) \/ RefreshChallenge(h)
    BY <1>1, <2>1 DEF CreateOrder, Judge, ReadAuthorization, RefreshChallenge, storage
  <2>2. CASE ReadOrder(h) \/ CheckAuthorization(h) \/ UpdateOrder(h)
    BY <1>1, <2>2 DEF ReadOrder, CheckAuthorization, UpdateOrder, storage
  <2>3. CASE CollectDevice(h) \/ IssueCertificate(h) \/ UpdateFinalizedOrder(h)
    BY <1>1, <2>3 DEF CollectDevice, IssueCertificate, UpdateFinalizedOrder, storage
  <2>4. CASE NotifyObservers(h) \/ RereadOrder(h) \/ Answer(h)
    BY <1>1, <2>4 DEF NotifyObservers, RereadOrder, Answer, storage
  <2> QED
    BY <1>4, <2>1, <2>2, <2>3, <2>4, CreatorKeepsVerdicts, ResponseKeepsVerdicts DEF Continue
<1> QED
  BY <1>2, <1>3, <1>4 DEF Next

\* A verdict is final: once decided, a challenge with its statement and an authorization
\* stay as they are, through retries, late requests, failures and restarts.
THEOREM VerdictsAreFinal == Spec => VerdictFinal
<1>1. IInv /\ RefInv /\ [Next]_vars =>
        [\A id \in AuthzIds :
           /\ challenge[id].status \in Final => challenge'[id] = challenge[id]
           /\ authz[id].status \in Final => authz'[id] = authz[id]]_vars
  BY VerdictsStep DEF VerdictsKept
<1> QED
  BY <1>1, Invariance, ReferenceInvariance, PTL DEF Spec, VerdictFinal
==============================================================================
