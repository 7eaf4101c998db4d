------------------------ MODULE OrderSettlementProofs ------------------------
(***************************************************************************)
(* Proofs that SettleInv is an invariant of OrderFlow, that the orders     *)
(* which no two requests look at side by side keep their final states, and *)
(* that an order keeps the promises of OrderLifecycle if all are such.     *)
(***************************************************************************)
EXTENDS OrderSettlement, OrderReferencesProofs

-----------------------------------------------------------------------------
(* The course of a handler.                                                *)

\* From one call of a request to the next.
Course(h) ==
  \/ pc'[h] = "idle"
  \/ /\ loc'[h].o = loc[h].o
     /\ \/ pc[h] \in Creating /\ pc'[h] \in Creating
        \/ pc[h] \in Deciding /\ pc'[h] \in Deciding \cup {"readOrder"} /\ UNCHANGED order
        \/ /\ pc[h] = "readOrder" /\ pc'[h] = "checkAuthz" /\ UNCHANGED order
           /\ order[loc[h].o].status \notin Final \cup {"absent"}
        \/ pc[h] = "checkAuthz" /\ pc'[h] \in {"checkAuthz", "writeOrder"} /\ UNCHANGED order
        \/ pc[h] \in Finalizing /\ pc'[h] \in Finalizing /\ UNCHANGED order
        \/ /\ pc[h] = "updateOrder" /\ pc'[h] = "notify"
           /\ order' = [order EXCEPT ![loc[h].o] = loc[h].ord]
        \/ pc[h] = "notify" /\ pc'[h] = "reread" /\ UNCHANGED order
        \/ /\ pc[h] = "reread" /\ pc'[h] = "answer" /\ UNCHANGED order
           /\ loc'[h].ord = order[loc[h].o]

LEMMA CreatorsCourse ==
  ASSUME IInv, NEW h \in Handlers,
         CreateChallenge(h) \/ CreateAuthorization(h) \/ CreateOrder(h)
  PROVE  Course(h)
<1>1. /\ TypeOK /\ loc[h] \in Locals /\ pc[h] \in Creating
      /\ Finish(h) => Course(h)
  BY FinishStep, IdType DEF IInv, CreateChallenge, CreateAuthorization, CreateOrder, Creating, Course
<1>2. CASE CreateChallenge(h)
  <2>1. ASSUME NEW c, Local(h, [loc[h] EXCEPT !.az.chal = c]), Goto(h, "createAuthz")
        PROVE  Course(h)
    <3>1. [loc[h] EXCEPT !.az.chal = c].o = loc[h].o
      BY <1>1 DEF Locals
    <3> DEFINE l == [loc[h] EXCEPT !.az.chal = c]
    <3>2. pc'[h] = "createAuthz" /\ loc'[h] = l
      BY <1>1, <2>1, GotoStep, LocalVarsStep
    <3> QED
      BY <1>1, <3>1, <3>2 DEF Course, Creating
  <2> QED
    BY <1>1, <1>2, <2>1 DEF CreateChallenge
<1>3. CASE CreateAuthorization(h)
  <2>1. CASE Local(h, [loc[h] EXCEPT !.i = @ + 1]) /\ Goto(h, "createChallenge")
    BY <1>1, <2>1, GotoStep, LocalVarsStep DEF Locals, Course, Creating
  <2>2. CASE UNCHANGED loc /\ Goto(h, "createOrder")
    BY <1>1, <2>2, GotoStep DEF Course, Creating
  <2> QED
    BY <1>1, <1>3, <2>1, <2>2 DEF CreateAuthorization
<1>4. CASE CreateOrder(h)
  BY <1>1, <1>4 DEF CreateOrder
<1> QED
  BY <1>2, <1>3, <1>4

LEMMA RespondersCourse ==
  ASSUME IInv, NEW h \in Handlers,
         \/ Judge(h) \/ SetChallengeValid(h) \/ SetChallengeInvalid(h)
         \/ ReadAuthorization(h) \/ RefreshChallenge(h) \/ UpdateAuthorization(h)
  PROVE  Course(h)
<1>1. /\ TypeOK /\ loc[h] \in Locals /\ pc[h] \in Deciding /\ UNCHANGED order
      /\ Finish(h) => Course(h)
  <2>1. pc[h] \in Deciding /\ pc[h] # "idle" /\ UNCHANGED order
    BY DEF Judge, SetChallengeValid, SetChallengeInvalid, ReadAuthorization, RefreshChallenge,
           UpdateAuthorization, Deciding, Judging, storage
  <2> QED
    BY <2>1, FinishStep, IdType DEF IInv, Course
<1>2. ASSUME NEW p \in Deciding \cup {"readOrder"}, Goto(h, p), loc'[h].o = loc[h].o
      PROVE  Course(h)
  BY <1>1, <1>2, GotoStep DEF Course
<1>3. CASE Judge(h) \/ SetChallengeValid(h) \/ SetChallengeInvalid(h)
  BY <1>1, <1>2, <1>3
  DEF Judge, VerdictCall, SetChallengeValid, SetChallengeInvalid, Deciding, Judging
<1>4. CASE ReadAuthorization(h)
  <2>1. CASE Local(h, [loc[h] EXCEPT !.az = authz[Id(h)]]) /\ Goto(h, "refreshChallenge")
    BY <1>1, <1>2, <2>1, LocalVarsStep DEF Locals, Deciding
  <2> QED
    BY <1>1, <1>4, <2>1 DEF ReadAuthorization
<1>5. CASE RefreshChallenge(h)
  <2> DEFINE current == challenge[Id(h)].status
             l == [loc[h] EXCEPT !.az.chal = current, !.az.status = AuthzStatus(current)]
  <2>1. l.o = loc[h].o
    BY <1>1 DEF Locals
  <2>2. Goto(h, "writeAuthz") /\ (Local(h, l) \/ UNCHANGED loc)
    BY <1>5 DEF RefreshChallenge
  <2> HIDE DEF l
  <2> QED
    BY <1>1, <1>2, <2>1, <2>2, LocalVarsStep DEF Deciding
<1>6. CASE UpdateAuthorization(h)
  BY <1>1, <1>2, <1>6 DEF UpdateAuthorization
<1> QED
  BY <1>3, <1>4, <1>5, <1>6

LEMMA SettlersCourse ==
  ASSUME IInv, NEW h \in Handlers, ReadOrder(h) \/ CheckAuthorization(h) \/ UpdateOrder(h)
  PROVE  Course(h)
<1>1. TypeOK /\ loc[h] \in Locals /\ (Finish(h) => Course(h))
  BY FinishStep, IdType DEF IInv, ReadOrder, CheckAuthorization, UpdateOrder, Course
<1>2. CASE ReadOrder(h)
  <2>1. CASE /\ order[loc[h].o].status \notin Final \cup {"absent"}
             /\ Local(h, [loc[h] EXCEPT !.ord = order[loc[h].o], !.i = 1, !.allValid = TRUE])
             /\ Goto(h, "checkAuthz")
    <3> DEFINE l == [loc[h] EXCEPT !.ord = order[loc[h].o], !.i = 1, !.allValid = TRUE]
    <3>1. pc[h] = "readOrder" /\ UNCHANGED order
      BY <1>2 DEF ReadOrder, storage
    <3>2. l.o = loc[h].o
      BY <1>1 DEF Locals
    <3> HIDE DEF l
    <3>3. pc'[h] = "checkAuthz" /\ loc'[h] = l
      BY <1>1, <2>1, GotoStep, LocalVarsStep DEF l
    <3> QED
      BY <2>1, <3>1, <3>2, <3>3 DEF Course
  <2> QED
    BY <1>1, <1>2, <2>1 DEF ReadOrder
<1>3. CASE CheckAuthorization(h)
  <2>1. pc[h] = "checkAuthz" /\ UNCHANGED order
    BY <1>3 DEF CheckAuthorization, storage
  <2> QED
    BY <1>3, <2>1, CheckAuthorizationLocals DEF Course
<1>4. CASE UpdateOrder(h)
  BY <1>1, <1>4 DEF UpdateOrder
<1> QED
  BY <1>2, <1>3, <1>4

LEMMA FinalizersCourse ==
  ASSUME IInv, NEW h \in Handlers,
         \/ CollectDevice(h) \/ IssueCertificate(h) \/ UpdateFinalizedOrder(h)
         \/ NotifyObservers(h) \/ RereadOrder(h) \/ Answer(h)
  PROVE  Course(h)
<1>1. TypeOK /\ loc[h] \in Locals /\ (Finish(h) => Course(h))
  BY FinishStep, IdType
  DEF IInv, CollectDevice, IssueCertificate, UpdateFinalizedOrder, NotifyObservers, RereadOrder,
      Answer, Course
<1>2. CASE CollectDevice(h)
  BY <1>2, CollectDeviceLocals DEF CollectDevice, Course, Finalizing, storage
<1>3. CASE IssueCertificate(h)
  <2>1. pc[h] = "issue" /\ UNCHANGED order
    BY <1>3 DEF IssueCertificate
  <2>2. ASSUME NEW s, Local(h, [loc[h] EXCEPT !.ord.status = "valid", !.ord.cert = s]),
               Goto(h, "updateOrder")
        PROVE  Course(h)
    <3> DEFINE l == [loc[h] EXCEPT !.ord.status = "valid", !.ord.cert = s]
    <3>1. l.o = loc[h].o
      BY <1>1 DEF Locals
    <3>2. pc'[h] = "updateOrder" /\ loc'[h] = l
      BY <1>1, <2>2, GotoStep, LocalVarsStep
    <3> QED
      BY <2>1, <3>1, <3>2 DEF Course, Finalizing
  <2> QED
    BY <1>1, <1>3, <2>2 DEF IssueCertificate
<1>4. CASE UpdateFinalizedOrder(h)
  BY <1>1, <1>4, GotoStep DEF UpdateFinalizedOrder, Course
<1>5. CASE NotifyObservers(h)
  BY <1>1, <1>5, GotoStep DEF NotifyObservers, Course, storage
<1>6. CASE RereadOrder(h)
  <2>1. CASE Local(h, [loc[h] EXCEPT !.ord = order[loc[h].o]]) /\ Goto(h, "answer")
    <3>1. pc[h] = "reread" /\ UNCHANGED order
      BY <1>6 DEF RereadOrder, storage
    <3> QED
      BY <1>1, <2>1, <3>1, GotoStep, LocalVarsStep DEF Locals, Course
  <2> QED
    BY <1>1, <1>6, <2>1 DEF RereadOrder
<1>7. CASE Answer(h)
  BY <1>1, <1>7 DEF Answer
<1> QED
  BY <1>2, <1>3, <1>4, <1>5, <1>6, <1>7

\* Every step of a request under way follows its course.
LEMMA ContinueCourse ==
  ASSUME IInv, NEW h \in Handlers, Continue(h)
  PROVE  Course(h)
BY CreatorsCourse, RespondersCourse, SettlersCourse, FinalizersCourse DEF Continue

\* An order is written by the three calls that write a copy of it.
LEMMA OrderWrites ==
  ASSUME NEW h \in Handlers, Begin(h) \/ Continue(h)
  PROVE  \/ UNCHANGED order
         \/ /\ pc[h] \in {"createOrder", "writeOrder", "updateOrder"}
            /\ order' = [order EXCEPT ![loc[h].o] = loc[h].ord]
<1>1. CASE Begin(h)
  BY <1>1 DEF Begin, NewOrder, SetChallengeProcessing, Finalize, storage
<1>2. CASE Continue(h)
  <2>1. CASE \/ CreateChallenge(h) \/ CreateAuthorization(h) \/ Judge(h)
             \/ SetChallengeValid(h) \/ SetChallengeInvalid(h)
             \/ ReadAuthorization(h) \/ RefreshChallenge(h) \/ UpdateAuthorization(h)
    BY <2>1 DEF CreateChallenge, CreateAuthorization, Judge, SetChallengeValid,
                SetChallengeInvalid, ReadAuthorization, RefreshChallenge, UpdateAuthorization,
                storage
  <2>2. CASE \/ ReadOrder(h) \/ CheckAuthorization(h) \/ CollectDevice(h) \/ IssueCertificate(h)
             \/ NotifyObservers(h) \/ RereadOrder(h) \/ Answer(h)
    BY <2>2 DEF ReadOrder, CheckAuthorization, CollectDevice, IssueCertificate, NotifyObservers,
                RereadOrder, Answer, storage
  <2>3. CASE CreateOrder(h) \/ UpdateOrder(h) \/ UpdateFinalizedOrder(h)
    BY <2>3 DEF CreateOrder, UpdateOrder, UpdateFinalizedOrder
  <2> QED
    BY <1>2, <2>1, <2>2, <2>3 DEF Continue
<1> QED
  BY <1>1, <1>2

\* An order that is there is written only as its status allows: while it is pending, by
\* the one request that settles it, or to make it valid, once it is ready.
LEMMA AloneWrites ==
  ASSUME IInv, RefInv, SettleInv, NEW h \in Handlers, Begin(h) \/ Continue(h),
         NEW o \in OrderIds, Exists(o), Alone(o)
  PROVE  \/ order'[o] = order[o]
         \/ /\ pc[h] = "writeOrder" /\ loc[h].o = o /\ order[o].status = "pending"
            /\ order'[o] = loc[h].ord
         \/ /\ pc[h] = "updateOrder" /\ loc[h].o = o /\ order[o].status \in {"ready", "valid"}
            /\ order'[o] = loc[h].ord /\ loc[h].ord.status = "valid"
<1>1. CASE UNCHANGED order
  BY <1>1
<1>2. CASE /\ pc[h] \in {"createOrder", "writeOrder", "updateOrder"}
           /\ order' = [order EXCEPT ![loc[h].o] = loc[h].ord]
  <2>1. order'[o] = IF o = loc[h].o THEN loc[h].ord ELSE order[o]
    BY <1>2 DEF IInv, TypeOK
  <2>2. pc[h] = "createOrder" => ~Exists(loc[h].o)
    BY DEF IInv, HandlerOK, CreatorOK, Creating
  <2>3. /\ pc[h] = "writeOrder" /\ loc[h].o = o => order[o].status = "pending"
        /\ pc[h] = "updateOrder" /\ loc[h].o = o => order[o].status \in {"ready", "valid"}
    BY DEF SettleInv, StillTrue, Finalizing
  <2>4. pc[h] = "updateOrder" => loc[h].ord.status = "valid"
    BY DEF RefInv, HandlerRefs, CopyRefs
  <2> QED
    BY <1>2, <2>1, <2>2, <2>3, <2>4
<1> QED
  BY <1>1, <1>2, OrderWrites

-----------------------------------------------------------------------------
(* The invariant.                                                          *)

\* What Alone says of an order that exists does not change.
LEMMA AloneStable ==
  ASSUME Grows, NEW o \in OrderIds, Exists(o)
  PROVE  Exists(o)' /\ (Alone(o)' <=> Alone(o)) /\ order'[o].n = order[o].n
BY DEF Grows, Alone, OneAtATime

\* What a handler relies on of an order, no other handler undoes.
LEMMA OthersStillTrue ==
  ASSUME IInv, RefInv, SettleInv, NEW h \in Handlers, Begin(h) \/ Continue(h), Others(h), Grows,
         NEW g \in Handlers, g # h
  PROVE  StillTrue(g)'
<1> SUFFICES ASSUME pc'[g] # "idle", Alone(loc[g].o)'
             PROVE  StillTrue(g)'
  BY DEF StillTrue, Alone
<1>1. pc'[g] = pc[g] /\ loc'[g] = loc[g] /\ pc[g] # "idle"
  BY DEF Others
<1>2. CASE pc[g] \in Creating
  BY <1>1, <1>2 DEF StillTrue, Creating, Deciding, Judging, Finalizing, Answering
<1>3. CASE pc[g] \notin Creating
  <2> DEFINE o == loc[g].o
  <2>1. o \in OrderIds /\ Exists(o)
    BY <1>1, <1>3, IdType DEF HandlerOK, CreatorOK
  <2>2. Alone(o) /\ StillTrue(g)
    BY <1>1, <2>1, AloneStable DEF SettleInv, Alone, OneAtATime
  <2>3. CASE order'[o].status = order[o].status
    <3>1. pc[g] = "answer" => Stored(loc[g].ord.cert)'
      BY <1>1, <2>2 DEF StillTrue, Grows, Stored
    <3> QED
      BY <1>1, <2>2, <2>3, <3>1 DEF StillTrue
  <2>4. CASE pc[h] = "writeOrder" /\ loc[h].o = o /\ order[o].status = "pending"
    <3>1. pc[g] \notin Responding
      BY <2>2, <2>4 DEF SettleInv, SoleResponse, Responding, Settling
    <3>2. pc[g] \notin Finalizing \cup Answering
      BY <1>1, <2>2, <2>4 DEF StillTrue
    <3> QED
      BY <1>1, <1>3, <3>1, <3>2
      DEF StillTrue, Responding, Deciding, Judging, Settling, Finalizing, Answering
  <2>5. CASE /\ order[o].status \in {"ready", "valid"} /\ order'[o].status = "valid"
    <3>1. pc[g] \notin Deciding \cup Settling
      BY <1>1, <2>2, <2>5 DEF StillTrue, Settling
    <3>2. pc[g] = "answer" => Stored(loc[g].ord.cert)'
      BY <1>1, <2>2 DEF StillTrue, Grows, Stored
    <3> QED
      BY <1>1, <2>2, <2>5, <3>1, <3>2 DEF StillTrue, Settling
  <2> HIDE DEF o
  <2> QED
    BY <2>1, <2>2, <2>3, <2>4, <2>5, AloneWrites
<1> QED
  BY <1>2, <1>3

\* Nor does the handler itself, on its course.
LEMMA OwnStillTrue ==
  ASSUME IInv, RefInv, SettleInv, NEW h \in Handlers, pc[h] # "idle", Grows, Course(h)
  PROVE  StillTrue(h)'
<1> SUFFICES ASSUME pc'[h] # "idle", pc'[h] \notin Creating, Alone(loc[h].o)', loc'[h].o = loc[h].o
             PROVE  StillTrue(h)'
  BY DEF Course, StillTrue, Alone, Creating, Deciding, Judging, Finalizing, Answering
<1> DEFINE o == loc[h].o
<1>1. o \in OrderIds /\ Exists(o)
  <2>1. pc[h] \notin Creating
    BY DEF Course, Creating, Deciding, Judging, Settling, Finalizing
  <2> QED
    BY <2>1, IdType DEF HandlerOK, CreatorOK
<1>2. Alone(o) /\ StillTrue(h)
  BY <1>1, AloneStable DEF SettleInv, Alone, OneAtATime
<1>3. CASE UNCHANGED order /\ pc[h] \in Deciding /\ pc'[h] \in Deciding \cup {"readOrder"}
  BY <1>2, <1>3 DEF StillTrue, Deciding, Judging, Finalizing, Answering
<1>4. CASE /\ UNCHANGED order /\ pc[h] = "readOrder" /\ pc'[h] = "checkAuthz"
           /\ order[o].status \notin Final \cup {"absent"}
  BY <1>2, <1>4 DEF StillTrue, Deciding, Judging, Finalizing, Answering, Final
<1>5. CASE UNCHANGED order /\ pc[h] = "checkAuthz" /\ pc'[h] \in {"checkAuthz", "writeOrder"}
  BY <1>2, <1>5 DEF StillTrue, Deciding, Judging, Finalizing, Answering
<1>6. CASE UNCHANGED order /\ pc[h] \in Finalizing /\ pc'[h] \in Finalizing
  BY <1>2, <1>6 DEF StillTrue, Deciding, Judging, Finalizing, Answering
<1>7. CASE pc[h] = "updateOrder" /\ pc'[h] = "notify" /\ order' = [order EXCEPT ![o] = loc[h].ord]
  <2>1. order'[o].status = "valid"
    BY <1>1, <1>7 DEF IInv, TypeOK, RefInv, HandlerRefs, CopyRefs
  <2> QED
    BY <1>7, <2>1 DEF StillTrue, Deciding, Judging, Finalizing, Answering
<1>8. CASE pc[h] = "notify" /\ pc'[h] = "reread" /\ UNCHANGED order
  BY <1>2, <1>8 DEF StillTrue, Deciding, Judging, Finalizing, Answering
<1>9. CASE pc[h] = "reread" /\ pc'[h] = "answer" /\ UNCHANGED order /\ loc'[h].ord = order[o]
  <2>1. order[o].status = "valid"
    BY <1>2, <1>9 DEF StillTrue, Answering
  <2>2. order[o].cert \in Serials /\ Stored(order[o].cert)
    BY <1>1, <2>1, OrderFlowAssumption
    DEF IInv, TypeOK, Orders, RefInv, CertificatesMade, CertificateUrlResolves, Stored
  <2>3. Stored(order[o].cert)'
    BY <1>9, <2>2 DEF Grows, Stored
  <2> QED
    BY <1>9, <2>1, <2>2, <2>3 DEF StillTrue, Deciding, Judging, Finalizing, Answering
<1> QED
  BY <1>3, <1>4, <1>5, <1>6, <1>7, <1>8, <1>9 DEF Course

\* A response that goes on is the sole one of its order, and goes on being it.
LEMMA StillSoleResponse ==
  ASSUME IInv, RefInv, SettleInv, NEW h \in Handlers, Others(h), Grows,
         pc'[h] \in Responding => pc[h] \in Responding /\ loc'[h].o = loc[h].o
  PROVE  SoleResponse'
<1>1. ASSUME NEW g \in Handlers, pc'[g] \in Responding
      PROVE  /\ pc[g] \in Responding /\ loc'[g].o = loc[g].o
             /\ loc[g].o \in OrderIds /\ Exists(loc[g].o)
  <2>1. pc[g] \in Responding /\ loc'[g].o = loc[g].o
    BY <1>1 DEF Others
  <2> QED
    BY <2>1, IdType
    DEF HandlerOK, CreatorOK, Responding, Deciding, Judging, Settling, Creating
<1>2. ASSUME NEW g \in Handlers, pc'[g] \in Responding, order'[loc'[g].o].n = 1
      PROVE  challenge'[<<loc'[g].o, 1>>].status \in Responded
  <2>1. <<loc[g].o, 1>> \in AuthzIds /\ order[loc[g].o].n = 1
    BY <1>1, <1>2, OrderFlowAssumption DEF Grows, AuthzIds
  <2> QED
    BY <1>1, <1>2, <2>1 DEF SettleInv, SoleResponse, Grows
<1>3. ASSUME NEW f \in Handlers, NEW g \in Handlers, pc'[f] \in Responding, pc'[g] \in Responding,
             loc'[f].o = loc'[g].o, Alone(loc[f].o)'
      PROVE  f = g
  <2>1. Alone(loc[f].o)
    BY <1>1, <1>3, AloneStable DEF Alone, OneAtATime
  <2> QED
    BY <1>1, <1>3, <2>1 DEF SettleInv, SoleResponse
<1> QED
  BY <1>2, <1>3 DEF SoleResponse, Alone, OneAtATime

LEMMA ContinueSettle ==
  ASSUME IInv, RefInv, SettleInv, NEW h \in Handlers, Continue(h), Grows
  PROVE  SettleInv'
<1>1. Others(h) /\ Course(h) /\ pc[h] # "idle"
  <2>1. pc[h] # "idle"
    BY DEF Continue, CreateChallenge, CreateAuthorization, CreateOrder, Judge, SetChallengeValid,
           SetChallengeInvalid, ReadAuthorization, RefreshChallenge, UpdateAuthorization,
           ReadOrder, CheckAuthorization, UpdateOrder, CollectDevice, IssueCertificate,
           UpdateFinalizedOrder, NotifyObservers, RereadOrder, Answer
  <2> QED
    BY <2>1, OnlyItself, ContinueCourse DEF IInv
<1>2. \A g \in Handlers : StillTrue(g)'
  BY <1>1, OthersStillTrue, OwnStillTrue
<1>3. pc'[h] \in Responding => pc[h] \in Responding /\ loc'[h].o = loc[h].o
  BY <1>1 DEF Course, Responding, Creating, Deciding, Judging, Settling, Finalizing
<1> QED
  BY <1>1, <1>2, <1>3, StillSoleResponse DEF SettleInv

\* A response begins with a challenge that is pending, so its order is not settled and,
\* if the challenge is the only one, has no other response under way.
LEMMA SetChallengeProcessingSettle ==
  ASSUME IInv, RefInv, SettleInv, NEW h \in Handlers, Grows,
         NEW a \in Accounts, NEW id \in AuthzIds, NEW sub \in Submissions,
         SetChallengeProcessing(h, a, id, sub)
  PROVE  SettleInv'
<1> DEFINE o == id[1]
           l == [NoLocals EXCEPT !.acct = a, !.o = id[1], !.i = id[2], !.sub = sub]
<1>1. /\ TypeOK /\ pc[h] = "idle" /\ Exists(o) /\ authz[id].acct = a
      /\ challenge[id].status = "pending" /\ UNCHANGED order
      /\ Goto(h, "judge") /\ Local(h, l)
      /\ challenge' = [challenge EXCEPT ![id] = [challenge[id] EXCEPT !.status = "processing"]]
  BY DEF IInv, SetChallengeProcessing, UpdateChallengeStatus, Exists
<1>2. l.o = o
  BY DEF NoLocals
<1>3. pc'[h] = "judge" /\ loc'[h].o = o /\ Others(h)
  BY <1>1, <1>2, GotoStep, LocalVarsStep DEF Others
<1> HIDE DEF l
<1>4. o \in OrderIds /\ id[2] \in 1 .. MaxIdents /\ id = <<o, id[2]>>
  BY DEF AuthzIds
<1>5. Made(id) /\ id[2] <= order[o].n
  <2>1. Made(id)
    BY <1>1, <1>4, OrderFlowAssumption DEF IInv, OrderLast, Made
  <2> QED
    BY <1>1, <1>4, <2>1 DEF RefInv, AuthzsMade
<1>6. order[o].status \in {"pending", "invalid"}
  <2>1. order[o].status \in {"ready", "valid"} => authz[id].status = "valid"
    <3>1. id[2] \in 1 .. order[o].n
      BY <1>1, <1>4, <1>5, OrderFlowAssumption DEF TypeOK, Orders
    <3> QED
      BY <1>4, <3>1 DEF IInv, StatusOK, AllAuthzsValid
  <2>2. authz[id].status # "valid"
    BY <1>1 DEF IInv, AuthzJustified, Final
  <2> QED
    BY <1>1, <1>4, <2>1, <2>2 DEF TypeOK, Orders, Exists
<1>7. StillTrue(h)'
  BY <1>1, <1>3, <1>6 DEF StillTrue, Deciding, Judging, Finalizing, Answering
<1>8. \A g \in Handlers : StillTrue(g)'
  BY <1>3, <1>7, OthersStillTrue DEF Begin
<1>9. order[o].n = 1 => id = <<o, 1>>
  BY <1>4, <1>5, OrderFlowAssumption
<1>10. ASSUME NEW g \in Handlers, g # h, pc'[g] \in Responding
       PROVE  /\ pc[g] \in Responding /\ loc'[g].o = loc[g].o /\ loc[g].o \in OrderIds
              /\ ~(loc[g].o = o /\ order[o].n = 1)
  <2>1. pc[g] \in Responding /\ loc'[g].o = loc[g].o
    BY <1>3, <1>10 DEF Others
  <2>2. loc[g].o \in OrderIds
    BY <2>1, IdType DEF Responding, Deciding, Judging, Settling
  <2> QED
    BY <1>1, <1>9, <2>1, <2>2 DEF SettleInv, SoleResponse, Responded
<1>11. SoleResponse'
  <2>1. ASSUME NEW g \in Handlers, pc'[g] \in Responding, order'[loc'[g].o].n = 1
        PROVE  challenge'[<<loc'[g].o, 1>>].status \in Responded
    <3>1. CASE g = h
      BY <1>1, <1>3, <1>9, <2>1, <3>1 DEF TypeOK, Challenges, Responded
    <3>2. CASE g # h
      <4>1. <<loc[g].o, 1>> \in AuthzIds
        BY <1>10, <2>1, <3>2, OrderFlowAssumption DEF AuthzIds
      <4> QED
        BY <1>1, <1>10, <2>1, <3>2, <4>1 DEF SettleInv, SoleResponse, Grows
    <3> QED
      BY <3>1, <3>2
  <2>2. ASSUME NEW f \in Handlers, NEW g \in Handlers, pc'[f] \in Responding,
               pc'[g] \in Responding, loc'[f].o = loc'[g].o, Alone(loc[f].o)'
        PROVE  f = g
    <3>1. CASE OneAtATime
      BY <3>1 DEF OneAtATime
    <3>2. CASE ~OneAtATime
      <4>1. order[loc'[f].o].n = 1
        BY <1>1, <2>2, <3>2 DEF Alone, OneAtATime
      <4> QED
        BY <1>3, <1>10, <2>2, <4>1 DEF SettleInv, SoleResponse, Alone
    <3> QED
      BY <3>1, <3>2
  <2> QED
    BY <2>1, <2>2 DEF SoleResponse, Alone, OneAtATime
<1> QED
  BY <1>8, <1>11 DEF SettleInv

\* The other requests begin with no claim, or with an order that is ready.
LEMMA OtherBeginSettle ==
  ASSUME IInv, RefInv, SettleInv, NEW h \in Handlers, Grows,
         NEW a \in Accounts, NEW o \in OrderIds,
         Finalize(h, a, o) \/ \E n \in 1 .. MaxIdents : NewOrder(h, a, o, n)
  PROVE  SettleInv'
<1>1. Begin(h) /\ Others(h)
  BY OnlyItself DEF Begin, IInv
<1>2. CASE Finalize(h, a, o)
  <2> DEFINE l == [NoLocals EXCEPT !.acct = a, !.o = o, !.ord = order[o]]
  <2>1. /\ order[o].status = "ready" /\ UNCHANGED order
        /\ Goto(h, "collect") /\ Local(h, l)
    BY <1>2 DEF Finalize, Finalizable, storage
  <2>2. l.o = o
    BY DEF NoLocals
  <2> HIDE DEF l
  <2>3. pc'[h] = "collect" /\ loc'[h].o = o
    BY <2>1, <2>2, GotoStep, LocalVarsStep DEF IInv
  <2>4. StillTrue(h)'
    BY <2>1, <2>3 DEF StillTrue, Deciding, Judging, Finalizing, Answering
  <2>5. pc'[h] \notin Responding
    BY <2>3 DEF Responding, Deciding, Judging, Settling
  <2> QED
    BY <1>1, <2>4, <2>5, OthersStillTrue, StillSoleResponse DEF SettleInv
<1>3. CASE \E n \in 1 .. MaxIdents : NewOrder(h, a, o, n)
  <2>1. pc'[h] = "createChallenge"
    BY <1>3, GotoStep DEF NewOrder, IInv
  <2>2. StillTrue(h)' /\ pc'[h] \notin Responding
    BY <2>1 DEF StillTrue, Responding, Deciding, Judging, Settling, Finalizing, Answering
  <2> QED
    BY <1>1, <2>2, OthersStillTrue, StillSoleResponse DEF SettleInv
<1> QED
  BY <1>2, <1>3

LEMMA InitSettle == Init => SettleInv
BY DEF Init, SettleInv, SoleResponse, StillTrue, Responding, Deciding, Judging, Settling

\* Every step keeps the invariant.
LEMMA SettleNextStep == IInv /\ RefInv /\ SettleInv /\ [Next]_vars => SettleInv'
<1> SUFFICES ASSUME IInv, RefInv, SettleInv, [Next]_vars PROVE SettleInv'
  OBVIOUS
<1>1. Grows
  BY RefNextStep
<1>2. CASE Crash
  <2>1. \A h \in Handlers : pc'[h] = "idle"
    BY <1>2 DEF Crash
  <2> QED
    BY <2>1 DEF SettleInv, SoleResponse, StillTrue, Responding, Deciding, Judging, Settling
<1>3. ASSUME NEW h \in Handlers, Begin(h)
      PROVE  SettleInv'
  BY <1>1, <1>3, SetChallengeProcessingSettle, OtherBeginSettle DEF Begin
<1>4. ASSUME NEW h \in Handlers, Continue(h)
      PROVE  SettleInv'
  BY <1>1, <1>4, ContinueSettle
<1>5. CASE UNCHANGED vars
  BY <1>5 DEF vars, storage, SettleInv, SoleResponse, StillTrue, Alone, Stored
<1> QED
  BY <1>2, <1>3, <1>4, <1>5 DEF Next

\* What a request relies on of an order that no other request looks at side by side is
\* true whenever it acts on it.
THEOREM SettlementInvariance == Spec => []SettleInv
BY Invariance, ReferenceInvariance, InitSettle, SettleNextStep, PTL DEF Spec

-----------------------------------------------------------------------------
(* Final states.                                                           *)

\* What the steps of AloneWrites leave of a final state.
LEMMA AloneFinalStep ==
  ASSUME IInv, RefInv, SettleInv, [Next]_vars,
         NEW o \in OrderIds, Alone(o), order[o].status \in Final
  PROVE  order'[o].status = order[o].status
<1>1. CASE Crash \/ UNCHANGED vars
  BY <1>1 DEF Crash, vars, storage
<1>2. ASSUME NEW h \in Handlers, Begin(h) \/ Continue(h)
      PROVE  order'[o].status = order[o].status
  <2>1. Exists(o) /\ order[o].status \notin {"pending", "ready"}
    BY DEF Exists, Final
  <2> QED
    BY <1>2, <2>1, AloneWrites
<1> QED
  BY <1>1, <1>2 DEF Next

\* A valid or an invalid order stays so if no two requests look at it side by side,
\* whatever fails and however finalize requests overlap.
THEOREM AloneOrdersKeepFinalStates == Spec => AloneFinalStates
<1>1. IInv /\ RefInv /\ SettleInv /\ [Next]_vars =>
        [\A o \in OrderIds :
           Alone(o) /\ order[o].status \in Final => order'[o].status = order[o].status]_vars
  BY AloneFinalStep
<1> QED
  BY <1>1, Invariance, ReferenceInvariance, SettlementInvariance, PTL DEF Spec, AloneFinalStates

\* Orders with one identifier, and requests one at a time, are cases of it.
LEMMA EveryOrderIsAlone ==
  ASSUME EveryOrderAlone, IInv, NEW o \in OrderIds, Exists(o)
  PROVE  Alone(o)
<1>1. order[o].n >= 1 /\ order[o].n \in 0 .. MaxIdents
  BY DEF IInv, OrderLast, TypeOK, Orders
<1> QED
  BY <1>1 DEF EveryOrderAlone, Alone

\* "Final states": an order is valid or invalid for good, if orders have one identifier or
\* requests are served one at a time.
THEOREM FinalStatesAreFinal == ASSUME EveryOrderAlone PROVE Spec => OrderFinalStates
<1>1. IInv /\ RefInv /\ SettleInv /\ [Next]_vars =>
        [\A o \in OrderIds :
           order[o].status \in Final => order'[o].status = order[o].status]_vars
  BY AloneFinalStep, EveryOrderIsAlone DEF Exists, Final
<1> QED
  BY <1>1, Invariance, ReferenceInvariance, SettlementInvariance, PTL DEF Spec, OrderFinalStates

\* The order that the answer to finalize shows is valid and its certificate stored,
\* although it is read anew, after other requests may have finalized the order again.
THEOREM FinalizedAnswers == ASSUME EveryOrderAlone PROVE Spec => []FinalizedAnswer
<1>1. IInv /\ SettleInv => FinalizedAnswer
  <2> SUFFICES ASSUME IInv, SettleInv, NEW h \in Handlers, pc[h] = "answer"
               PROVE  loc[h].ord.status = "valid" /\ Stored(loc[h].ord.cert)
    BY DEF FinalizedAnswer
  <2>1. loc[h].o \in OrderIds /\ Exists(loc[h].o)
    BY IdType DEF HandlerOK, CreatorOK, Creating
  <2> QED
    BY <2>1, EveryOrderIsAlone DEF SettleInv, StillTrue
<1> QED
  BY <1>1, Invariance, SettlementInvariance, PTL

-----------------------------------------------------------------------------
(* OrderFlow implements OrderLifecycle.                                    *)

\* A step that leaves what the refinement mapping looks at.
LEMMA LifecycleStutter ==
  UNCHANGED <<authz, order, cert>> => UNCHANGED Lifecycle!vars
BY DEF Lifecycle!vars

\* An authorization that is made is prepared.
LEMMA CreateAuthorizationPrepares ==
  ASSUME IInv, RefInv, NEW h \in Handlers, CreateAuthorization(h)
  PROVE  Lifecycle!Next \/ UNCHANGED Lifecycle!vars
<1> DEFINE a == loc[h].az
           verdict == [j \in AuthzIds |-> authz[j].status]
<1>1. /\ pc[h] = "createAuthz" /\ pc[h] # "idle" /\ pc[h] \in Creating
      /\ UNCHANGED <<order, cert>>
  BY DEF CreateAuthorization, Creating
<1>2. PICK id \in AuthzIds : id = Id(h)
  BY <1>1, IdType
<1>3. TypeOK /\ ~Exists(id[1]) /\ a.status = "pending" /\ ~Made(id) /\ id[1] \in OrderIds
  <2>1. /\ HandlerOK(h) /\ loc[h].i \in 1 .. MaxIdents /\ TypeOK
        /\ id = <<loc[h].o, loc[h].i>> /\ loc[h].o \in OrderIds
    BY <1>1, <1>2, IdType
  <2>2. ~Made(id)
    BY <1>1, <2>1 DEF RefInv, HandlerRefs, CreatorRefs
  <2> QED
    BY <1>1, <2>1, <2>2 DEF HandlerOK, CreatorOK
<1>4. CASE UNCHANGED authz
  BY <1>1, <1>4, LifecycleStutter
<1>5. CASE authz' = [authz EXCEPT ![Id(h)] = loc[h].az]
  <2>1. \A j \in AuthzIds : authz'[j].status = IF j = id THEN "pending" ELSE authz[j].status
    BY <1>2, <1>3, <1>5 DEF TypeOK
  <2>2. verdict' = [verdict EXCEPT ![id] = "pending"] /\ verdict[id] = "absent"
    BY <1>3, <2>1 DEF Made
  <2>3. [p \in OrderIds |-> order[p].status][id[1]] = "absent"
    BY <1>3 DEF Exists
  <2>4. Lifecycle!Prepare(id)
    BY <1>1, <2>2, <2>3 DEF Lifecycle!Prepare
  <2>5. Lifecycle!Next
    BY <1>1, <2>4 DEF Lifecycle!Next, Lifecycle!AuthzIds, AuthzIds
  <2> QED
    BY <2>5
<1> QED
  BY <1>4, <1>5 DEF CreateAuthorization

\* The order is placed with its authorizations pending.
LEMMA CreateOrderPlaces ==
  ASSUME IInv, RefInv, NEW h \in Handlers, CreateOrder(h)
  PROVE  Lifecycle!Next \/ UNCHANGED Lifecycle!vars
<1> DEFINE r == loc[h].ord
           phase == [p \in OrderIds |-> order[p].status]
           size == [p \in OrderIds |-> order[p].n]
           link == [p \in OrderIds |-> order[p].cert]
           verdict == [j \in AuthzIds |-> authz[j].status]
<1>1. /\ pc[h] = "createOrder" /\ pc[h] # "idle" /\ pc[h] \in Creating
      /\ UNCHANGED <<authz, cert>>
  BY DEF CreateOrder, Creating
<1>2. /\ HandlerOK(h) /\ loc[h].o \in OrderIds /\ TypeOK /\ loc[h].i \in 1 .. MaxIdents
      /\ r.n \in 1 .. MaxIdents
  <2>1. /\ HandlerOK(h) /\ loc[h].o \in OrderIds /\ TypeOK /\ loc[h].i \in 1 .. MaxIdents
        /\ r \in Orders
    BY <1>1, IdType DEF Locals
  <2> QED
    BY <1>1, <2>1, OrderFlowAssumption DEF HandlerOK, LocalsOK, Copying, Orders
<1>3. PICK o \in OrderIds, n \in 1 .. MaxIdents : o = loc[h].o /\ n = r.n
  BY <1>2
<1>4. /\ ~Exists(o) /\ r.status = "pending" /\ r.cert = None
      /\ \A i \in 1 .. MaxIdents : Made(<<o, i>>) <=> i <= n
  BY <1>1, <1>2, <1>3 DEF HandlerOK, CreatorOK, RefInv, HandlerRefs, CreatorRefs
<1>5. CASE UNCHANGED order
  BY <1>1, <1>5, LifecycleStutter
<1>6. CASE order' = [order EXCEPT ![loc[h].o] = r]
  <2>1. \A p \in OrderIds : order'[p] = IF p = o THEN r ELSE order[p]
    BY <1>2, <1>3, <1>6 DEF TypeOK
  <2>2. order[o].cert = None /\ order[o].status = "absent"
    BY <1>4 DEF RefInv, CertificatesMade, CertificateUrlResolves, Exists
  <2> HIDE DEF r
  <2>3. phase' = [phase EXCEPT ![o] = "pending"] /\ phase[o] = "absent"
    BY <1>4, <2>1, <2>2
  <2>4. size' = [size EXCEPT ![o] = n]
    BY <1>3, <2>1
  <2>5. link' = link
    BY <1>4, <2>1, <2>2
  <2>6. \A i \in 1 .. n : verdict[<<o, i>>] = "pending"
    <3> SUFFICES ASSUME NEW i \in 1 .. n
                 PROVE  verdict[<<o, i>>] = "pending"
      OBVIOUS
    <3>1. i \in 1 .. MaxIdents /\ i <= n /\ <<o, i>> \in AuthzIds
      BY OrderFlowAssumption DEF AuthzIds
    <3> QED
      BY <1>4, <3>1 DEF Made, IInv, OrderLast
  <2>7. Lifecycle!Place(o, n)
    BY <1>1, <2>3, <2>4, <2>5, <2>6 DEF Lifecycle!Place
  <2>8. Lifecycle!Next
    BY <2>7 DEF Lifecycle!Next
  <2> QED
    BY <2>8
<1> QED
  BY <1>5, <1>6 DEF CreateOrder

\* An authorization is decided, or written as it was.
LEMMA UpdateAuthorizationDecides ==
  ASSUME IInv, RefInv, NEW h \in Handlers, UpdateAuthorization(h)
  PROVE  Lifecycle!Next \/ UNCHANGED Lifecycle!vars
<1> DEFINE a == loc[h].az
           verdict == [j \in AuthzIds |-> authz[j].status]
<1>1. pc[h] = "writeAuthz" /\ pc[h] \in Deciding /\ UNCHANGED <<order, cert>>
  BY DEF UpdateAuthorization, Deciding
<1>2. PICK id \in AuthzIds : id = Id(h)
  BY <1>1, InCharge
<1>3. /\ TypeOK /\ Exists(id[1]) /\ authz[id].status = "pending"
      /\ a.status \in {"pending"} \cup Final
  BY <1>1, <1>2, InCharge DEF HandlerOK, ProcessorOK, IInv, Final
<1>4. CASE UNCHANGED authz
  BY <1>1, <1>4, LifecycleStutter
<1>5. CASE authz' = [authz EXCEPT ![Id(h)] = loc[h].az]
  <2> HIDE DEF a
  <2>1. \A j \in AuthzIds : authz'[j] = IF j = id THEN a ELSE authz[j]
    BY <1>2, <1>3, <1>5 DEF TypeOK, a
  <2>2. verdict' = [verdict EXCEPT ![id] = a.status] /\ verdict[id] = "pending"
    BY <1>3, <2>1
  <2>3. CASE a.status = "pending"
    <3>1. verdict' = verdict
      BY <2>2, <2>3
    <3> QED
      BY <1>1, <3>1 DEF Lifecycle!vars
  <2>4. CASE a.status \in Final
    <3>1. [p \in OrderIds |-> order[p].status][id[1]] # "absent"
      BY <1>3 DEF Exists, AuthzIds
    <3>2. Lifecycle!Decide(id)
      BY <1>1, <2>2, <2>4, <3>1 DEF Lifecycle!Decide, Lifecycle!Final, Final
    <3>3. Lifecycle!Next
      BY <1>1, <3>2 DEF Lifecycle!Next, Lifecycle!AuthzIds, AuthzIds
    <3> QED
      BY <3>3
  <2> QED
    BY <1>3, <2>3, <2>4
<1> QED
  BY <1>4, <1>5 DEF UpdateAuthorization

\* An order that exists has at least one authorization, and those it has exist.
LEMMA VerdictsOfOrder ==
  ASSUME IInv, NEW o \in OrderIds, Exists(o)
  PROVE  /\ AllAuthzsValid(o) => Lifecycle!Verdicts(o) = {"valid"}
         /\ SomeAuthzInvalid(o) => "invalid" \in Lifecycle!Verdicts(o)
<1>1. order[o].n \in 1 .. MaxIdents
  BY OrderFlowAssumption DEF IInv, TypeOK, OrderLast, Orders
<1>2. \A i \in 1 .. order[o].n : <<o, i>> \in AuthzIds
  BY <1>1, OrderFlowAssumption DEF AuthzIds
<1>3. Lifecycle!Verdicts(o) = {authz[<<o, i>>].status : i \in 1 .. order[o].n}
  BY <1>2 DEF Lifecycle!Verdicts
<1>4. 1 \in 1 .. order[o].n
  BY <1>1, OrderFlowAssumption
<1> QED
  BY <1>3, <1>4 DEF AllAuthzsValid, SomeAuthzInvalid

\* The order is settled as its authorizations say, or written as it was.
LEMMA UpdateOrderSettles ==
  ASSUME EveryOrderAlone, IInv, RefInv, SettleInv, NEW h \in Handlers, UpdateOrder(h)
  PROVE  Lifecycle!Next \/ UNCHANGED Lifecycle!vars
<1> DEFINE r == loc[h].ord
           phase == [p \in OrderIds |-> order[p].status]
           size == [p \in OrderIds |-> order[p].n]
           link == [p \in OrderIds |-> order[p].cert]
<1>0. PICK o \in OrderIds : o = loc[h].o
  BY IdType DEF UpdateOrder
<1>1. /\ pc[h] = "writeOrder" /\ UNCHANGED <<authz, cert>> /\ TypeOK
      /\ Exists(o) /\ HandlerOK(h)
  <2>1. pc[h] = "writeOrder" /\ UNCHANGED <<authz, cert>>
    BY DEF UpdateOrder
  <2> QED
    BY <1>0, <2>1, IdType DEF HandlerOK, CreatorOK, Creating
<1>2. /\ order[o].status = "pending" /\ order[o].cert = None
      /\ r.n = order[o].n /\ r.cert = None /\ r.status \in {"pending", "ready", "invalid"}
      /\ r.status = "ready" => AllAuthzsValid(o)
      /\ r.status = "invalid" => SomeAuthzInvalid(o)
  <2>1. order[o].status = "pending"
    BY <1>0, <1>1, EveryOrderIsAlone DEF SettleInv, StillTrue
  <2> QED
    BY <1>0, <1>1, <2>1
    DEF HandlerOK, CopyOK, Copying, Creating, RefInv, HandlerRefs, CopyRefs, CertificatesMade,
        CertificateUrlResolves
<1>3. CASE UNCHANGED order
  BY <1>1, <1>3, LifecycleStutter
<1>4. CASE order' = [order EXCEPT ![loc[h].o] = r]
  <2> HIDE DEF r
  <2>1. \A p \in OrderIds : order'[p] = IF p = o THEN r ELSE order[p]
    BY <1>0, <1>1, <1>4 DEF TypeOK
  <2>2. size' = size /\ link' = link
    BY <1>1, <1>2, <2>1
  <2>3. phase' = [phase EXCEPT ![o] = r.status] /\ phase[o] = "pending"
    BY <1>1, <1>2, <2>1
  <2>4. CASE r.status = "pending"
    <3>1. phase' = phase
      BY <2>3, <2>4
    <3> QED
      BY <1>1, <2>2, <3>1 DEF Lifecycle!vars
  <2>5. CASE r.status \in {"ready", "invalid"}
    <3>1. /\ r.status = "ready" => Lifecycle!Verdicts(o) = {"valid"}
          /\ r.status = "invalid" => "invalid" \in Lifecycle!Verdicts(o)
      BY <1>1, <1>2, VerdictsOfOrder
    <3>2. Lifecycle!Settle(o)
      BY <1>1, <2>2, <2>3, <2>5, <3>1 DEF Lifecycle!Settle
    <3>3. Lifecycle!Next
      BY <1>1, <3>2 DEF Lifecycle!Next
    <3> QED
      BY <3>3
  <2> QED
    BY <1>2, <2>4, <2>5
<1> QED
  BY <1>3, <1>4 DEF UpdateOrder

\* A certificate is issued for an order that is ready, or was when finalize looked at it.
LEMMA IssueCertificateIssues ==
  ASSUME EveryOrderAlone, IInv, RefInv, SettleInv, NEW h \in Handlers, IssueCertificate(h)
  PROVE  Lifecycle!Next \/ UNCHANGED Lifecycle!vars
<1> DEFINE issued == [s \in Serials |-> cert[s].order]
<1>1. pc[h] = "issue" /\ UNCHANGED <<authz, order>> /\ TypeOK
  BY DEF IssueCertificate, IInv
<1>2. PICK o \in OrderIds : o = loc[h].o
  BY <1>1, IdType
<1>3. order[o].status \in {"ready", "valid"}
  <2>1. Exists(o)
    BY <1>1, <1>2, IdType DEF HandlerOK, CreatorOK, Creating
  <2> QED
    BY <1>1, <1>2, <2>1, EveryOrderIsAlone DEF SettleInv, StillTrue, Finalizing
<1>4. CASE UNCHANGED cert
  BY <1>1, <1>4, LifecycleStutter
<1>5. ASSUME NEW s \in Serials, cert[s] = NoCertificate,
             cert' = [cert EXCEPT ![s] = [order |-> loc[h].o, acct |-> loc[h].acct,
                                          devs |-> loc[h].devs]]
      PROVE  Lifecycle!Next
  <2>1. \A t \in Serials : cert'[t].order = IF t = s THEN o ELSE cert[t].order
    BY <1>1, <1>2, <1>5 DEF TypeOK
  <2>2. issued' = [issued EXCEPT ![s] = o] /\ issued[s] = None
    <3>1. cert[s].order = None
      BY <1>5 DEF NoCertificate
    <3> QED
      BY <2>1, <3>1
  <2>3. Lifecycle!Issue(o, s)
    BY <1>1, <1>3, <2>2 DEF Lifecycle!Issue
  <2> QED
    BY <2>3 DEF Lifecycle!Next
<1> QED
  BY <1>4, <1>5 DEF IssueCertificate, FreeSerials

\* The order becomes valid as it names a certificate that was issued for it.
LEMMA UpdateFinalizedOrderFinalizes ==
  ASSUME EveryOrderAlone, IInv, RefInv, SettleInv, NEW h \in Handlers, UpdateFinalizedOrder(h)
  PROVE  Lifecycle!Next \/ UNCHANGED Lifecycle!vars
<1> DEFINE r == loc[h].ord
           phase == [p \in OrderIds |-> order[p].status]
           size == [p \in OrderIds |-> order[p].n]
           link == [p \in OrderIds |-> order[p].cert]
<1>1. pc[h] = "updateOrder" /\ UNCHANGED <<authz, cert>> /\ TypeOK
  BY DEF UpdateFinalizedOrder, IInv
<1>2. HandlerOK(h) /\ loc[h].o \in OrderIds /\ Exists(loc[h].o) /\ r.cert \in Serials
  BY <1>1, IdType DEF HandlerOK, LocalsOK, CreatorOK, Creating
<1>3. PICK o \in OrderIds, s \in Serials : o = loc[h].o /\ s = r.cert
  BY <1>2
<1>4. order[o].status \in {"ready", "valid"}
  BY <1>1, <1>2, <1>3, EveryOrderIsAlone DEF SettleInv, StillTrue, Finalizing
<1>5. r.status = "valid" /\ r.n = order[o].n /\ cert[s].order = o
  BY <1>1, <1>2, <1>3 DEF HandlerOK, CopyOK, Copying, Creating, Finalizing, RefInv, HandlerRefs, CopyRefs
<1>6. CASE UNCHANGED order
  BY <1>1, <1>6, LifecycleStutter
<1>7. CASE order' = [order EXCEPT ![loc[h].o] = r]
  <2>1. \A p \in OrderIds : order'[p] = IF p = o THEN r ELSE order[p]
    BY <1>1, <1>3, <1>7 DEF TypeOK
  <2> HIDE DEF r
  <2>2. size' = size
    BY <1>5, <2>1
  <2>3. phase' = [phase EXCEPT ![o] = "valid"] /\ link' = [link EXCEPT ![o] = s]
    BY <1>3, <1>5, <2>1
  <2>4. [t \in Serials |-> cert[t].order][s] = o
    BY <1>5
  <2>5. Lifecycle!Finalize(o, s)
    BY <1>1, <1>4, <2>2, <2>3, <2>4 DEF Lifecycle!Finalize
  <2>6. Lifecycle!Next
    BY <2>5 DEF Lifecycle!Next
  <2> QED
    BY <2>6
<1> QED
  BY <1>6, <1>7 DEF UpdateFinalizedOrder

\* Every step of OrderFlow is a step of OrderLifecycle or a stutter.
LEMMA LifecycleStep ==
  ASSUME EveryOrderAlone, IInv, RefInv, SettleInv, [Next]_vars
  PROVE  Lifecycle!Next \/ UNCHANGED Lifecycle!vars
<1>1. CASE Crash \/ UNCHANGED vars
  BY <1>1, LifecycleStutter DEF Crash, vars, storage
<1>2. ASSUME NEW h \in Handlers, Begin(h)
      PROVE  Lifecycle!Next \/ UNCHANGED Lifecycle!vars
  BY <1>2, LifecycleStutter DEF Begin, NewOrder, SetChallengeProcessing, Finalize, storage
<1>3. ASSUME NEW h \in Handlers, Continue(h)
      PROVE  Lifecycle!Next \/ UNCHANGED Lifecycle!vars
  <2>1. CASE \/ CreateChallenge(h) \/ Judge(h) \/ SetChallengeValid(h) \/ SetChallengeInvalid(h)
             \/ ReadAuthorization(h) \/ RefreshChallenge(h)
    BY <2>1, LifecycleStutter
    DEF CreateChallenge, Judge, SetChallengeValid, SetChallengeInvalid, ReadAuthorization,
        RefreshChallenge, storage
  <2>2. CASE \/ ReadOrder(h) \/ CheckAuthorization(h) \/ CollectDevice(h)
             \/ NotifyObservers(h) \/ RereadOrder(h) \/ Answer(h)
    BY <2>2, LifecycleStutter
    DEF ReadOrder, CheckAuthorization, CollectDevice, NotifyObservers, RereadOrder, Answer, storage
  <2>3. CASE CreateAuthorization(h) \/ CreateOrder(h) \/ UpdateAuthorization(h)
    BY <2>3, CreateAuthorizationPrepares, CreateOrderPlaces, UpdateAuthorizationDecides
  <2>4. CASE UpdateOrder(h) \/ IssueCertificate(h) \/ UpdateFinalizedOrder(h)
    BY <2>4, UpdateOrderSettles, IssueCertificateIssues, UpdateFinalizedOrderFinalizes
  <2> QED
    BY <1>3, <2>1, <2>2, <2>3, <2>4 DEF Continue
<1> QED
  BY <1>1, <1>2, <1>3 DEF Next

\* The initial states of OrderFlow are initial states of OrderLifecycle.
LEMMA LifecycleInit == Init => Lifecycle!Init
BY DEF Init, Lifecycle!Init, NoOrder, NoAuthz, NoCertificate, AuthzIds, Lifecycle!AuthzIds

\* An order keeps the promises of OrderLifecycle, through failing calls and restarts, if
\* orders have one identifier or requests are served one at a time.
THEOREM LifecycleIsKept == ASSUME EveryOrderAlone PROVE Spec => LifecycleKept
<1>1. IInv /\ RefInv /\ SettleInv /\ [Next]_vars => [Lifecycle!Next]_(Lifecycle!vars)
  BY LifecycleStep
<1> QED
  BY <1>1, LifecycleInit, Invariance, ReferenceInvariance, SettlementInvariance, PTL
  DEF Spec, LifecycleKept, Lifecycle!Spec

-----------------------------------------------------------------------------
(* An order for which a certificate was issued.                            *)

\* A certificate is stored by IssueCertificate, which goes on to make the order name it.
LEMMA StoredByIssue ==
  ASSUME IInv, NEW h \in Handlers, Begin(h) \/ Continue(h),
         NEW s \in Serials, ~Stored(s), Stored(s)'
  PROVE  /\ pc[h] = "issue" /\ pc'[h] = "updateOrder" /\ UNCHANGED order
         /\ cert'[s].order = loc[h].o /\ loc'[h].o = loc[h].o
<1>1. IssueCertificate(h)
  <2>1. cert' # cert
    BY DEF Stored
  <2>2. ~Begin(h)
    BY <2>1 DEF Begin, NewOrder, SetChallengeProcessing, Finalize, storage
  <2>3. ~(CreateChallenge(h) \/ CreateAuthorization(h) \/ CreateOrder(h) \/ Judge(h)
          \/ SetChallengeValid(h) \/ SetChallengeInvalid(h) \/ ReadAuthorization(h)
          \/ RefreshChallenge(h) \/ UpdateAuthorization(h))
    BY <2>1 DEF CreateChallenge, CreateAuthorization, CreateOrder, Judge, SetChallengeValid,
                SetChallengeInvalid, ReadAuthorization, RefreshChallenge, UpdateAuthorization,
                storage
  <2>4. ~(ReadOrder(h) \/ CheckAuthorization(h) \/ UpdateOrder(h) \/ CollectDevice(h)
          \/ UpdateFinalizedOrder(h) \/ NotifyObservers(h) \/ RereadOrder(h) \/ Answer(h))
    BY <2>1 DEF ReadOrder, CheckAuthorization, UpdateOrder, CollectDevice, UpdateFinalizedOrder,
                NotifyObservers, RereadOrder, Answer, storage
  <2> QED
    BY <2>2, <2>3, <2>4 DEF Continue
<1>2. PICK t \in Serials :
        /\ cert' = [cert EXCEPT ![t] = [order |-> loc[h].o, acct |-> loc[h].acct,
                                        devs |-> loc[h].devs]]
        /\ Local(h, [loc[h] EXCEPT !.ord.status = "valid", !.ord.cert = t])
        /\ Goto(h, "updateOrder")
  BY <1>1 DEF IssueCertificate, FreeSerials, Stored
<1>3. pc[h] = "issue" /\ UNCHANGED order
  BY <1>1 DEF IssueCertificate
<1>4. t = s /\ cert'[s].order = loc[h].o
  BY <1>2 DEF IInv, TypeOK, Stored
<1> DEFINE l == [loc[h] EXCEPT !.ord.status = "valid", !.ord.cert = t]
<1>5. l.o = loc[h].o
  BY DEF IInv, TypeOK, Locals
<1>6. Local(h, l) /\ Goto(h, "updateOrder") /\ TypeOK
  BY <1>2 DEF IInv
<1> HIDE DEF l
<1> QED
  BY <1>3, <1>4, <1>5, <1>6, GotoStep, LocalVarsStep

\* A step of a request leaves an order with a certificate ready, or makes it valid.
LEMMA IssuedStep ==
  ASSUME IInv, RefInv, SettleInv, IssuedInv, [Next]_vars
  PROVE  IssuedInv'
<1>1. Grows
  BY RefNextStep
<1>2. CASE UNCHANGED vars
  BY <1>2 DEF vars, storage, IssuedInv, Stored, Alone
<1>3. CASE Crash
  <2>1. Faults # {} /\ UNCHANGED storage
    BY <1>3 DEF Crash
  <2> QED
    BY <2>1 DEF storage, IssuedInv, Stored, Alone
<1>4. ASSUME NEW h \in Handlers, Begin(h) \/ Continue(h), NEW s \in Serials, Stored(s)',
             Alone(cert[s].order)'
      PROVE  /\ order'[cert'[s].order].status \in {"ready", "valid"}
             /\ Faults = {} /\ order'[cert'[s].order].status = "ready" =>
                  \E g \in Handlers : pc'[g] = "updateOrder" /\ loc'[g].o = cert'[s].order
  <2>1. CASE ~Stored(s)
    <3> DEFINE o == loc[h].o
    <3>1. /\ pc[h] = "issue" /\ pc'[h] = "updateOrder" /\ UNCHANGED order
          /\ cert'[s].order = o /\ loc'[h].o = o
      BY <1>4, <2>1, StoredByIssue
    <3>2. Alone(o) /\ StillTrue(h)
      BY <1>4, <3>1 DEF Alone, OneAtATime, SettleInv
    <3>3. order[o].status \in {"ready", "valid"}
      BY <3>1, <3>2 DEF StillTrue, Finalizing
    <3> QED
      BY <3>1, <3>3
  <2>2. CASE Stored(s)
    <3> DEFINE o == cert[s].order
    <3>1. cert'[s] = cert[s] /\ o \in OrderIds /\ Exists(o)
      <4>1. cert[s] \in Certificates
        BY DEF IInv, TypeOK
      <4> QED
        BY <1>1, <2>2, <4>1 DEF Grows, IInv, StatusOK, Stored, Certificates
    <3>2. Alone(o)
      BY <1>1, <1>4, <3>1, AloneStable DEF Alone, OneAtATime
    <3>3. /\ order[o].status \in {"ready", "valid"}
          /\ Faults = {} /\ order[o].status = "ready" =>
               \E g \in Handlers : pc[g] = "updateOrder" /\ loc[g].o = o
      BY <2>2, <3>2 DEF IssuedInv
    <3> HIDE DEF o
    <3>4. CASE order'[o].status = "valid"
      BY <3>1, <3>4 DEF o
    <3>5. CASE order'[o].status # "valid"
      <4>1. order'[o] = order[o] /\ order[o].status = "ready"
        BY <1>4, <3>1, <3>2, <3>3, <3>5, AloneWrites
      <4>2. ASSUME Faults = {}
            PROVE  \E g \in Handlers : pc'[g] = "updateOrder" /\ loc'[g].o = o
        <5>1. PICK g \in Handlers : pc[g] = "updateOrder" /\ loc[g].o = o
          BY <3>3, <4>1, <4>2
        <5>2. g # h
          <6> SUFFICES ASSUME g = h PROVE FALSE
            OBVIOUS
          <6>1. UpdateFinalizedOrder(h)
            BY <1>4, <5>1
            DEF Begin, NewOrder, SetChallengeProcessing, Finalize, Continue, CreateChallenge,
                CreateAuthorization, CreateOrder, Judge, SetChallengeValid, SetChallengeInvalid,
                ReadAuthorization, RefreshChallenge, UpdateAuthorization, ReadOrder,
                CheckAuthorization, UpdateOrder, CollectDevice, IssueCertificate,
                NotifyObservers, RereadOrder, Answer
          <6>2. order' = [order EXCEPT ![o] = loc[h].ord]
            BY <4>2, <5>1, <6>1 DEF UpdateFinalizedOrder, MayFail
          <6>3. order'[o] = loc[h].ord
            BY <3>1, <6>2 DEF IInv, TypeOK
          <6>4. loc[h].ord.status = "valid"
            BY <5>1 DEF RefInv, HandlerRefs, CopyRefs
          <6> QED
            BY <3>5, <6>3, <6>4
        <5>3. pc'[g] = pc[g] /\ loc'[g] = loc[g]
          BY <1>4, <5>2, OnlyItself DEF IInv, Others
        <5> QED
          BY <5>1, <5>3
      <4> QED
        BY <3>1, <4>1, <4>2 DEF o
    <3> QED
      BY <3>4, <3>5
  <2> QED
    BY <2>1, <2>2
<1> QED
  BY <1>2, <1>3, <1>4 DEF Next, IssuedInv

\* For any number of requests, whatever fails: an order with a certificate issued, if no two
\* responses settle it side by side, has one that its account can download, or can be
\* finalized again, and if nothing fails is about to be updated then.
THEOREM CertificatesAreReachable == Spec => []CertificatesReachable
<1>1. Init => IssuedInv
  BY DEF Init, IssuedInv, Stored, NoCertificate
<1>2. IInv /\ RefInv /\ IssuedInv => CertificatesReachable
  <2> SUFFICES ASSUME IInv, RefInv, IssuedInv,
                      NEW s \in Serials, Stored(s), Alone(cert[s].order)
               PROVE  \/ \E t \in Serials :
                            cert[t].order = cert[s].order /\ Downloadable(cert[s].acct, t)
                      \/ /\ Finalizable(cert[s].acct, cert[s].order)
                         /\ Faults = {} =>
                              \E h \in Handlers :
                                pc[h] = "updateOrder" /\ loc[h].o = cert[s].order
    BY DEF CertificatesReachable
  <2> DEFINE o == cert[s].order
  <2>1. o \in OrderIds /\ cert[s].acct = order[o].acct
    <3>1. cert[s] \in Certificates
      BY DEF IInv, TypeOK
    <3> QED
      BY <3>1 DEF RefInv, CertificatesMade, Stored, Certificates
  <2>2. CASE order[o].status = "valid"
    <3> DEFINE t == order[o].cert
    <3>1. t \in Serials /\ cert[t].order = o
      <4>1. order[o] \in Orders /\ order[o].cert # None
        BY <2>1, <2>2 DEF IInv, TypeOK, RefInv, CertificatesMade, CertificateUrlResolves
      <4> QED
        BY <2>1, <4>1 DEF Orders, RefInv, CertificatesMade, CertificateUrlResolves
    <3>2. cert[t] # NoCertificate
      BY <2>1, <3>1, OrderFlowAssumption DEF NoCertificate
    <3> QED
      BY <2>1, <3>1, <3>2 DEF Downloadable
  <2>3. CASE order[o].status = "ready"
    BY <2>1, <2>3 DEF IssuedInv, Finalizable
  <2> QED
    BY <2>2, <2>3 DEF IssuedInv
<1> QED
  BY <1>1, <1>2, IssuedStep, Invariance, ReferenceInvariance, SettlementInvariance, PTL DEF Spec
==============================================================================
