------------------------- MODULE OrderProgressProofs -------------------------
(***************************************************************************)
(* Proofs that ProgressInv is an invariant of OrderFlow if nothing fails,  *)
(* and that no challenge and no order is left stranded then.               *)
(***************************************************************************)
EXTENDS OrderProgress, OrderSettlementProofs

\* What is known of the state before a step, and of the step by earlier theorems.
Before ==
  /\ NothingFails
  /\ IInv /\ RefInv /\ SettleInv /\ ProgressInv
  /\ Grows /\ VerdictsKept

\* An authorization is written by the call that makes it and the call that settles it.
LEMMA AuthzWrites ==
  ASSUME NEW h \in Handlers, Begin(h) \/ Continue(h)
  PROVE  \/ UNCHANGED authz
         \/ /\ pc[h] \in {"createAuthz", "writeAuthz"}
            /\ authz' = [authz EXCEPT ![Id(h)] = loc[h].az]
<1>1. CASE Begin(h)
  BY <1>1 DEF Begin, NewOrder, SetChallengeProcessing, Finalize, storage
<1>2. CASE Continue(h)
  <2>1. CASE \/ CreateChallenge(h) \/ CreateOrder(h) \/ Judge(h)
             \/ SetChallengeValid(h) \/ SetChallengeInvalid(h)
             \/ ReadAuthorization(h) \/ RefreshChallenge(h)
    BY <2>1 DEF CreateChallenge, CreateOrder, Judge, SetChallengeValid, SetChallengeInvalid,
                ReadAuthorization, RefreshChallenge, storage
  <2>2. CASE \/ ReadOrder(h) \/ CheckAuthorization(h) \/ UpdateOrder(h) \/ CollectDevice(h)
             \/ IssueCertificate(h) \/ UpdateFinalizedOrder(h)
             \/ NotifyObservers(h) \/ RereadOrder(h) \/ Answer(h)
    BY <2>2 DEF ReadOrder, CheckAuthorization, UpdateOrder, CollectDevice, IssueCertificate,
                UpdateFinalizedOrder, NotifyObservers, RereadOrder, Answer, storage
  <2>3. CASE CreateAuthorization(h) \/ UpdateAuthorization(h)
    BY <2>3 DEF CreateAuthorization, UpdateAuthorization
  <2> QED
    BY <1>2, <2>1, <2>2, <2>3 DEF Continue
<1> QED
  BY <1>1, <1>2

\* The authorizations of an order that somebody settles, as the only one, stay as they are
\* while others act.
LEMMA SettledAlone ==
  ASSUME Before, NEW h \in Handlers, Begin(h) \/ Continue(h),
         NEW g \in Handlers, g # h, pc[g] \in Settling, Alone(loc[g].o),
         NEW j \in 1 .. MaxIdents
  PROVE  authz'[<<loc[g].o, j>>].status = authz[<<loc[g].o, j>>].status
<1>1. loc[g].o \in OrderIds /\ (pc[h] \in Creating => loc[h].o # loc[g].o)
  BY AtWork DEF Before, Settling, Creating
<1>2. pc[h] = "writeAuthz" => loc[h].o # loc[g].o
  BY DEF Before, SettleInv, SoleResponse, Responding, Deciding
<1>3. CASE /\ pc[h] \in {"createAuthz", "writeAuthz"}
           /\ authz' = [authz EXCEPT ![Id(h)] = loc[h].az]
  <2>1. Id(h) \in AuthzIds /\ Id(h) # <<loc[g].o, j>> /\ TypeOK
    BY <1>1, <1>2, <1>3, IdType DEF Before, Creating
  <2> QED
    BY <1>1, <1>3, <2>1 DEF TypeOK, AuthzIds
<1> QED
  BY <1>3, AuthzWrites

\* What a handler counts on, no other handler undoes.
LEMMA OthersProgress ==
  ASSUME Before, NEW h \in Handlers, Begin(h) \/ Continue(h), NEW g \in Handlers, g # h
  PROVE  SpreaderOK(g)' /\ SettlerOK(g)'
<1>1. pc'[g] = pc[g] /\ loc'[g] = loc[g] /\ Id(g)' = Id(g) /\ SpreaderOK(g) /\ SettlerOK(g)
  BY OnlyItself DEF Before, IInv, Others, Id, ProgressInv
<1>2. SpreaderOK(g)'
  <2>1. pc[g] \in Spreading => Id(g) \in AuthzIds
    BY IdType DEF Before, Spreading, Deciding, Judging
  <2>2. pc[g] \in Spreading => challenge'[Id(g)].status \in Final
    BY <1>1, <2>1 DEF Before, VerdictsKept, SpreaderOK
  <2> QED
    BY <1>1, <2>2 DEF SpreaderOK
<1>3. ASSUME pc[g] \in Settling, Alone(loc[g].o)'
      PROVE  SettlerOK(g)'
  <2> DEFINE o == loc[g].o
  <2>1. o \in OrderIds /\ Exists(o) /\ loc[g].i \in 1 .. MaxIdents /\ TypeOK
    BY <1>3, AtWork, IdType DEF Before, Settling, Creating
  <2>2. Alone(o) /\ order'[o].n = order[o].n /\ order[o].n \in 0 .. MaxIdents
    BY <1>1, <1>3, <2>1, AloneStable DEF Before, Alone, OneAtATime, TypeOK, Orders
  <2>3. \A j \in 1 .. MaxIdents : authz'[<<o, j>>].status = authz[<<o, j>>].status
    BY <1>3, <2>2, SettledAlone
  <2>4. \A j \in 1 .. loc[g].i - 1 : authz'[<<o, j>>].status = authz[<<o, j>>].status
    BY <2>1, <2>3, OrderFlowAssumption
  <2>5. \A j \in 1 .. order[o].n : authz'[<<o, j>>].status = authz[<<o, j>>].status
    BY <2>2, <2>3, OrderFlowAssumption
  <2>6. (AllAuthzsValid(o)' <=> AllAuthzsValid(o)) /\ (SomeAuthzInvalid(o)' <=> SomeAuthzInvalid(o))
    BY <1>1, <2>2, <2>5 DEF AllAuthzsValid, SomeAuthzInvalid
  <2> QED
    BY <1>1, <1>3, <2>2, <2>4, <2>6
    DEF SettlerOK, Settles, AllAuthzsValid, SomeAuthzInvalid
<1> QED
  BY <1>1, <1>2, <1>3 DEF SettlerOK

-----------------------------------------------------------------------------
(* What a step leaves of Attended and of OrderAttended.                    *)

\* A step that stores no verdict, of a handler that stays at the challenge it is at.
LEMMA AttendedKept ==
  ASSUME Before, NEW h \in Handlers, Others(h), UNCHANGED <<challenge, authz>>,
         pc[h] \in Judging => pc'[h] \in Judging /\ Id(h)' = Id(h),
         pc[h] \in Spreading => pc'[h] \in Spreading /\ Id(h)' = Id(h)
  PROVE  Attended'
<1>1. \A g \in Handlers :
        /\ pc[g] \in Judging => pc'[g] \in Judging /\ Id(g)' = Id(g)
        /\ pc[g] \in Spreading => pc'[g] \in Spreading /\ Id(g)' = Id(g)
  BY DEF Others, Id
<1> QED
  BY <1>1 DEF Before, ProgressInv, Attended

\* A step about one challenge, of a handler that is at no other: the others have whom they
\* had.
LEMMA AttendedBut ==
  ASSUME Before, NEW h \in Handlers, Others(h), NEW id \in AuthzIds,
         pc[h] \in Deciding => Id(h) = id,
         \A j \in AuthzIds : j # id => challenge'[j] = challenge[j] /\ authz'[j] = authz[j],
         challenge'[id].status = "processing" => pc'[h] \in Judging /\ Id(h)' = id,
         challenge'[id].status \in Final /\ authz'[id].status = "pending" =>
           pc'[h] \in Spreading /\ Id(h)' = id
  PROVE  Attended'
<1>1. ASSUME NEW j \in AuthzIds, j # id
      PROVE  /\ challenge'[j].status = "processing" =>
                  \E g \in Handlers : pc'[g] \in Judging /\ Id(g)' = j
             /\ challenge'[j].status \in Final /\ authz'[j].status = "pending" =>
                  \E g \in Handlers : pc'[g] \in Spreading /\ Id(g)' = j
  <2>1. \A g \in Handlers : pc[g] \in Deciding /\ Id(g) = j =>
          pc'[g] = pc[g] /\ Id(g)' = Id(g)
    BY <1>1 DEF Others, Id
  <2>2. Judging \subseteq Deciding /\ Spreading \subseteq Deciding
    BY DEF Deciding, Spreading
  <2> QED
    BY <1>1, <2>1, <2>2 DEF Before, ProgressInv, Attended
<1> QED
  BY <1>1 DEF Attended

\* A step that writes neither orders nor authorizations, of a handler that goes on settling
\* the order it settles.
LEMMA OrdersKept ==
  ASSUME Before, NEW h \in Handlers, Others(h), UNCHANGED <<order, authz>>,
         pc[h] \in Settling => pc'[h] \in Settling /\ loc'[h].o = loc[h].o
  PROVE  \A o \in OrderIds : OrderAttended(o)'
<1>1. \A g \in Handlers : pc[g] \in Settling => pc'[g] \in Settling /\ loc'[g].o = loc[g].o
  BY DEF Others
<1> QED
  BY <1>1
  DEF Before, ProgressInv, OrderAttended, Exists, Alone, OneAtATime, Settles, AllAuthzsValid,
      SomeAuthzInvalid

\* A step about one order, of a handler that settles no other.
LEMMA OrdersBut ==
  ASSUME Before, NEW h \in Handlers, Others(h), NEW o \in OrderIds,
         pc[h] \in Settling => loc[h].o = o,
         \A p \in OrderIds : p # o => order'[p] = order[p],
         \A p \in OrderIds, i \in 1 .. MaxIdents : p # o => authz'[<<p, i>>] = authz[<<p, i>>],
         OrderAttended(o)'
  PROVE  \A p \in OrderIds : OrderAttended(p)'
<1>1. ASSUME NEW p \in OrderIds, p # o
      PROVE  OrderAttended(p)'
  <2>1. order'[p] = order[p] /\ order[p].n \in 0 .. MaxIdents
    BY <1>1 DEF Before, IInv, TypeOK, Orders
  <2>2. \A i \in 1 .. order[p].n : authz'[<<p, i>>] = authz[<<p, i>>]
    BY <1>1, <2>1, OrderFlowAssumption
  <2>3. Settles(order[p].status, p) => Settles(order[p].status, p)'
    BY <2>1, <2>2 DEF Settles, AllAuthzsValid, SomeAuthzInvalid
  <2>4. \A g \in Handlers : pc[g] \in Settling /\ loc[g].o = p =>
          pc'[g] \in Settling /\ loc'[g].o = p
    BY <1>1 DEF Others
  <2> QED
    BY <2>1, <2>3, <2>4
    DEF Before, ProgressInv, OrderAttended, Exists, Alone, OneAtATime, Settles, AllAuthzsValid,
        SomeAuthzInvalid
<1> QED
  BY <1>1

\* The parts put together.
LEMMA ProgressStep ==
  ASSUME Before, NEW h \in Handlers, Begin(h) \/ Continue(h), Attended',
         \A o \in OrderIds : OrderAttended(o)', SpreaderOK(h)', SettlerOK(h)'
  PROVE  ProgressInv'
BY OthersProgress DEF ProgressInv

\* A step without effect on what this is about.
LEMMA QuietStep ==
  ASSUME Before, NEW h \in Handlers, Begin(h) \/ Continue(h), UNCHANGED <<challenge, authz, order>>,
         pc[h] \notin Responding, pc'[h] \notin Responding
  PROVE  ProgressInv'
<1>1. Others(h)
  BY OnlyItself DEF Before, IInv
<1>2. /\ pc[h] \notin Judging \cup Spreading \cup Settling
      /\ pc'[h] \notin Spreading \cup Settling /\ pc'[h] # "writeAuthz"
  BY DEF Responding, Deciding, Spreading
<1>3. SpreaderOK(h)' /\ SettlerOK(h)'
  BY <1>2 DEF SpreaderOK, SettlerOK
<1> QED
  BY <1>1, <1>2, <1>3, AttendedKept, OrdersKept, ProgressStep

-----------------------------------------------------------------------------
(* newOrder.                                                               *)

\* While an order is made nobody responds to its challenges.
LEMMA CreatorProgress ==
  ASSUME Before, NEW h \in Handlers,
         CreateChallenge(h) \/ CreateAuthorization(h) \/ CreateOrder(h)
  PROVE  ProgressInv'
<1>1. Continue(h) /\ pc[h] \in Creating
  BY DEF Continue, CreateChallenge, CreateAuthorization, CreateOrder, Creating
<1>0. PICK o \in OrderIds : o = loc[h].o
  BY <1>1, IdType DEF Before, Creating
<1>2. /\ TypeOK /\ HandlerOK(h) /\ loc[h] \in Locals /\ o = loc[h].o
      /\ loc[h].i \in 1 .. MaxIdents /\ Id(h) = <<o, loc[h].i>> /\ Id(h) \in AuthzIds
      /\ ~Exists(o) /\ pc[h] \notin Deciding \cup Settling /\ Others(h)
  BY <1>0, <1>1, IdType, OnlyItself
  DEF Before, IInv, HandlerOK, CreatorOK, Creating, Deciding, Judging, Settling
<1>3. \A i \in 1 .. MaxIdents :
        challenge[<<o, i>>].status \in {"absent", "pending"} /\ <<o, i>> \in AuthzIds
  BY <1>2 DEF Before, RefInv, ChallengesMade, AuthzIds
<1>4. pc'[h] \in Creating \cup {"idle"}
  BY <1>1, <1>2, GotoStep, FinishStep
  DEF CreateChallenge, CreateAuthorization, CreateOrder, Creating
<1>5. pc'[h] \notin Deciding \cup Settling /\ SpreaderOK(h)' /\ SettlerOK(h)'
  BY <1>4 DEF Creating, Deciding, Judging, Spreading, Settling, SpreaderOK, SettlerOK
<1>6. CASE CreateChallenge(h)
  <2>1. UNCHANGED <<authz, order>>
    BY <1>6 DEF CreateChallenge
  <2>2. \A j \in AuthzIds : j # Id(h) => challenge'[j] = challenge[j]
    BY <1>2, <1>6 DEF CreateChallenge, TypeOK
  <2>3. challenge'[Id(h)].status \in {"absent", "pending"}
    BY <1>2, <1>3, <1>6 DEF CreateChallenge, TypeOK
  <2>4. Attended'
    BY <1>2, <2>1, <2>2, <2>3, AttendedBut DEF Final
  <2> QED
    BY <1>1, <1>2, <1>5, <2>1, <2>4, OrdersKept, ProgressStep
<1>7. CASE CreateAuthorization(h)
  <2>1. UNCHANGED <<challenge, order>>
    BY <1>7 DEF CreateAuthorization
  <2>2. \A j \in AuthzIds : j # Id(h) => authz'[j] = authz[j]
    BY <1>2, <1>7 DEF CreateAuthorization, TypeOK
  <2>3. Attended'
    BY <1>2, <1>3, <2>1, <2>2, AttendedBut DEF Final
  <2>4. \A p \in OrderIds, i \in 1 .. MaxIdents : p # o => authz'[<<p, i>>] = authz[<<p, i>>]
    BY <1>2, <2>2 DEF AuthzIds
  <2>5. OrderAttended(o)'
    BY <1>2, <2>1 DEF OrderAttended, Exists
  <2>6. \A p \in OrderIds : OrderAttended(p)'
    BY <1>2, <2>1, <2>4, <2>5, OrdersBut
  <2> QED
    BY <1>1, <1>5, <2>3, <2>6, ProgressStep
<1>8. CASE CreateOrder(h)
  <2>1. UNCHANGED <<challenge, authz>> /\ (UNCHANGED order \/ order' = [order EXCEPT ![o] = loc[h].ord])
    BY <1>2, <1>8 DEF CreateOrder
  <2>2. Attended'
    BY <1>2, <2>1, AttendedKept DEF Deciding, Spreading
  <2>3. \A p \in OrderIds : p # o => order'[p] = order[p]
    BY <1>2, <2>1 DEF TypeOK
  <2>4. OrderAttended(o)'
    <3>1. CASE UNCHANGED order
      BY <1>2, <3>1 DEF OrderAttended, Exists
    <3>2. CASE order' = [order EXCEPT ![o] = loc[h].ord]
      <4>1. order'[o] = loc[h].ord /\ loc[h].ord.n \in 1 .. MaxIdents
        BY <1>1, <1>2, <3>2 DEF TypeOK, HandlerOK, LocalsOK, Copying, Locals, Orders
      <4>2. \A i \in 1 .. order'[o].n : authz'[<<o, i>>].status \in {"absent", "pending"}
        BY <1>2, <2>1, <4>1, OrderFlowAssumption DEF Before, IInv, OrderLast
      <4>3. 1 \in 1 .. order'[o].n
        BY <4>1, OrderFlowAssumption
      <4>4. ~AllAuthzsValid(o)'
        BY <4>2, <4>3 DEF AllAuthzsValid
      <4>5. ~SomeAuthzInvalid(o)'
        BY <4>2 DEF SomeAuthzInvalid
      <4> QED
        BY <4>4, <4>5 DEF OrderAttended, Settles
    <3> QED
      BY <2>1, <3>1, <3>2
  <2>5. \A p \in OrderIds : OrderAttended(p)'
    BY <1>2, <2>1, <2>3, <2>4, OrdersBut
  <2> QED
    BY <1>1, <1>5, <2>2, <2>5, ProgressStep
<1> QED
  BY <1>6, <1>7, <1>8

-----------------------------------------------------------------------------
(* Challenge responses.                                                    *)

\* A response takes a challenge, and is about to judge it.
LEMMA TakingProgress ==
  ASSUME Before, NEW h \in Handlers,
         NEW a \in Accounts, NEW id \in AuthzIds, NEW sub \in Submissions,
         SetChallengeProcessing(h, a, id, sub)
  PROVE  ProgressInv'
<1> DEFINE l == [NoLocals EXCEPT !.acct = a, !.o = id[1], !.i = id[2], !.sub = sub]
<1>1. /\ TypeOK /\ pc[h] = "idle" /\ UNCHANGED <<authz, order>>
      /\ Goto(h, "judge") /\ Local(h, l)
      /\ challenge' = [challenge EXCEPT ![id] = [challenge[id] EXCEPT !.status = "processing"]]
  BY DEF Before, IInv, SetChallengeProcessing, UpdateChallengeStatus
<1>2. id = <<id[1], id[2]>> /\ l.o = id[1] /\ l.i = id[2]
  BY DEF NoLocals, AuthzIds
<1> HIDE DEF l
<1>3. pc'[h] = "judge" /\ Id(h)' = id /\ Others(h) /\ Begin(h)
  BY <1>1, <1>2, GotoStep, LocalVarsStep DEF Others, Id, Begin
<1>4. /\ pc[h] \notin Deciding \cup Settling
      /\ pc'[h] \in Judging /\ pc'[h] \notin Spreading \cup Settling /\ pc'[h] # "writeAuthz"
  BY <1>1, <1>3 DEF Deciding, Judging, Spreading, Settling
<1>5. challenge'[id].status = "processing" /\ \A j \in AuthzIds : j # id => challenge'[j] = challenge[j]
  BY <1>1 DEF TypeOK, Challenges
<1>6. Attended'
  BY <1>1, <1>3, <1>4, <1>5, AttendedBut DEF Final
<1>7. SpreaderOK(h)' /\ SettlerOK(h)'
  BY <1>4 DEF SpreaderOK, SettlerOK
<1> QED
  BY <1>1, <1>3, <1>4, <1>6, <1>7, OrdersKept, ProgressStep

\* It judges.
LEMMA JudgeProgress ==
  ASSUME Before, NEW h \in Handlers, Judge(h)
  PROVE  ProgressInv'
<1>1. /\ pc[h] = "judge" /\ UNCHANGED <<challenge, authz, order, loc>> /\ TypeOK
      /\ Continue(h) /\ Others(h)
  BY OnlyItself DEF Judge, storage, Before, IInv, Continue
<1>2. pc'[h] \in {"setValid", "setInvalid"}
  BY <1>1, GotoStep DEF Judge, VerdictCall
<1>3. /\ pc[h] \notin Spreading \cup Settling /\ Id(h)' = Id(h)
      /\ pc'[h] \in Judging /\ pc'[h] \notin Spreading \cup Settling /\ pc'[h] # "writeAuthz"
  BY <1>1, <1>2 DEF Deciding, Judging, Spreading, Settling, Id
<1>4. SpreaderOK(h)' /\ SettlerOK(h)'
  BY <1>3 DEF SpreaderOK, SettlerOK
<1> QED
  BY <1>1, <1>3, <1>4, AttendedKept, OrdersKept, ProgressStep

\* It records its verdict, which is not refused: the challenge is in processing still, and
\* the statement can be stored.
LEMMA VerdictProgress ==
  ASSUME Before, NEW h \in Handlers, SetChallengeValid(h) \/ SetChallengeInvalid(h)
  PROVE  ProgressInv'
<1> DEFINE id == Id(h)
<1>1. /\ pc[h] \in Judging /\ UNCHANGED <<authz, order>> /\ Continue(h) /\ ~MayFail
  BY DEF SetChallengeValid, SetChallengeInvalid, Continue, Judging, Before, NothingFails, MayFail
<1>2. /\ TypeOK /\ HandlerOK(h) /\ id \in AuthzIds /\ Others(h)
      /\ challenge[id].status = "processing" /\ loc[h].sub \in Submissions
      /\ Encodable(loc[h].sub.att)
  BY <1>1, IdType, OnlyItself
  DEF Before, IInv, HandlerOK, LocalsOK, ProcessorOK, Judging, NothingFails
<1>3. /\ Goto(h, "readAuthz") /\ UNCHANGED loc
      /\ \E c : c.status \in Final /\ challenge' = [challenge EXCEPT ![id] = c]
  <2>1. CASE SetChallengeValid(h)
    <3> DEFINE c == [status |-> "valid", att |-> AsStored(loc[h].sub.att)]
    <3>1. /\ Goto(h, "readAuthz") /\ UNCHANGED loc
          /\ challenge' = [challenge EXCEPT ![id] = c]
      BY <1>1, <1>2, <2>1 DEF SetChallengeValid, UpdateChallengeStatus
    <3>2. c.status \in Final
      BY DEF Final
    <3> QED
      BY <3>1, <3>2
  <2>2. CASE SetChallengeInvalid(h)
    <3>1. [challenge[id] EXCEPT !.status = "invalid"].status \in Final
      BY <1>2 DEF TypeOK, Challenges, Final
    <3> QED
      BY <1>1, <1>2, <2>2, <3>1 DEF SetChallengeInvalid, UpdateChallengeStatus
  <2> QED
    BY <2>1, <2>2
<1>4. pc'[h] = "readAuthz" /\ Id(h)' = id
  BY <1>2, <1>3, GotoStep DEF Id
<1>5. challenge'[id].status \in Final /\ \A j \in AuthzIds : j # id => challenge'[j] = challenge[j]
  BY <1>2, <1>3 DEF TypeOK
<1>6. /\ pc[h] \notin Settling /\ pc'[h] \in Spreading /\ pc'[h] \notin Settling \cup Judging
  BY <1>1, <1>4 DEF Deciding, Judging, Spreading, Settling
<1>7. Attended'
  BY <1>1, <1>2, <1>4, <1>5, <1>6, AttendedBut DEF Final
<1>8. SpreaderOK(h)' /\ SettlerOK(h)'
  BY <1>4, <1>5, <1>6 DEF SpreaderOK, SettlerOK
<1> QED
  BY <1>1, <1>2, <1>6, <1>7, <1>8, OrdersKept, ProgressStep

\* It reads the authorization, which is pending still, and the challenge.
LEMMA SpreadProgress ==
  ASSUME Before, NEW h \in Handlers, ReadAuthorization(h) \/ RefreshChallenge(h)
  PROVE  ProgressInv'
<1> DEFINE id == Id(h)
<1>1. /\ pc[h] \in {"readAuthz", "refreshChallenge"} /\ UNCHANGED <<challenge, authz, order>>
      /\ Continue(h) /\ ~MayFail
  BY DEF ReadAuthorization, RefreshChallenge, Continue, storage, Before, NothingFails, MayFail
<1>2. /\ TypeOK /\ HandlerOK(h) /\ loc[h] \in Locals /\ id \in AuthzIds /\ Others(h)
      /\ authz[id].status = "pending" /\ challenge[id].status \in Final
  BY <1>1, IdType, OnlyItself
  DEF Before, IInv, HandlerOK, ProcessorOK, Deciding, Judging, ProgressInv, SpreaderOK, Spreading
<1>3. /\ pc'[h] \in {"refreshChallenge", "writeAuthz"} /\ Id(h)' = id
      /\ pc'[h] = "writeAuthz" => loc'[h].az.status \in Final
  <2>1. CASE ReadAuthorization(h)
    <3> DEFINE l == [loc[h] EXCEPT !.az = authz[id]]
    <3>1. Local(h, l) /\ Goto(h, "refreshChallenge")
      BY <1>1, <1>2, <2>1 DEF ReadAuthorization
    <3>2. l.o = loc[h].o /\ l.i = loc[h].i
      BY <1>2 DEF Locals
    <3> HIDE DEF l
    <3> QED
      BY <1>2, <3>1, <3>2, GotoStep, LocalVarsStep DEF Id
  <2>2. CASE RefreshChallenge(h)
    <3> DEFINE current == challenge[id].status
               l == [loc[h] EXCEPT !.az.chal = current, !.az.status = AuthzStatus(current)]
    <3>1. Local(h, l) /\ Goto(h, "writeAuthz")
      BY <1>1, <2>2 DEF RefreshChallenge
    <3>2. l.o = loc[h].o /\ l.i = loc[h].i /\ l.az.status \in Final
      BY <1>2 DEF Locals, Authzs, AuthzStatus, Final
    <3> HIDE DEF l
    <3> QED
      BY <1>2, <3>1, <3>2, GotoStep, LocalVarsStep DEF Id
  <2> QED
    BY <2>1, <2>2
<1>4. /\ pc[h] \notin Judging \cup Settling
      /\ pc'[h] \in Spreading /\ pc'[h] \notin Settling
  BY <1>1, <1>3 DEF Deciding, Judging, Spreading, Settling
<1>5. SpreaderOK(h)' /\ SettlerOK(h)'
  BY <1>1, <1>2, <1>3, <1>4 DEF SpreaderOK, SettlerOK
<1> QED
  BY <1>1, <1>2, <1>3, <1>4, <1>5, AttendedKept, OrdersKept, ProgressStep

\* It writes the authorization, decided now, and is about to look at the order.
LEMMA UpdateAuthorizationProgress ==
  ASSUME Before, NEW h \in Handlers, UpdateAuthorization(h)
  PROVE  ProgressInv'
<1>1. /\ pc[h] = "writeAuthz" /\ UNCHANGED <<challenge, order>> /\ Continue(h) /\ ~MayFail
  BY DEF UpdateAuthorization, Continue, Before, NothingFails, MayFail
<1>2. PICK o \in OrderIds : o = loc[h].o
  BY <1>1, IdType DEF Before
<1>3. /\ TypeOK /\ Id(h) \in AuthzIds /\ Id(h) = <<o, loc[h].i>> /\ Others(h)
      /\ loc[h].az.status \in Final /\ challenge[Id(h)].status \in Final
  BY <1>1, <1>2, IdType, OnlyItself
  DEF Before, ProgressInv, SpreaderOK, Spreading, Deciding, Judging
<1>4. authz' = [authz EXCEPT ![Id(h)] = loc[h].az] /\ UNCHANGED loc /\ pc'[h] = "readOrder"
  BY <1>1, <1>3, GotoStep DEF UpdateAuthorization, StatusChanged, Final
<1>5. authz'[Id(h)].status \in Final /\ \A j \in AuthzIds : j # Id(h) => authz'[j] = authz[j]
  BY <1>3, <1>4 DEF TypeOK
<1>6. Attended'
  BY <1>1, <1>3, <1>5, AttendedBut DEF Final
<1>7. \A p \in OrderIds, i \in 1 .. MaxIdents : p # o => authz'[<<p, i>>] = authz[<<p, i>>]
  BY <1>3, <1>5 DEF AuthzIds
<1>8. /\ pc[h] \notin Settling /\ pc'[h] \in Settling /\ loc'[h].o = o
      /\ SpreaderOK(h)' /\ SettlerOK(h)'
  BY <1>1, <1>2, <1>4 DEF Settling, Spreading, Deciding, Judging, SpreaderOK, SettlerOK
<1>9. \A p \in OrderIds : OrderAttended(p)'
  BY <1>1, <1>3, <1>7, <1>8, OrdersBut DEF OrderAttended
<1> QED
  BY <1>1, <1>6, <1>8, <1>9, ProgressStep

-----------------------------------------------------------------------------
(* updateOrderStatus.                                                      *)

\* A final order that alone is settled is invalid, and has an authorization that is.
LEMMA ReadOrderProgress ==
  ASSUME Before, NEW h \in Handlers, ReadOrder(h)
  PROVE  ProgressInv'
<1>1. /\ pc[h] = "readOrder" /\ UNCHANGED <<challenge, authz, order>> /\ Continue(h) /\ ~MayFail
  BY DEF ReadOrder, storage, Continue, Before, NothingFails, MayFail
<1>2. PICK o \in OrderIds : o = loc[h].o
  BY <1>1, IdType DEF Before
<1>3. TypeOK /\ loc[h] \in Locals /\ Exists(o) /\ Others(h)
  BY <1>1, <1>2, AtWork, OnlyItself DEF Before, Creating
<1>4. pc[h] \notin Judging \cup Spreading /\ pc[h] \in Settling
  BY <1>1 DEF Deciding, Judging, Spreading, Settling
<1>5. Attended'
  BY <1>1, <1>3, <1>4, AttendedKept
<1>6. CASE /\ Local(h, [loc[h] EXCEPT !.ord = order[loc[h].o], !.i = 1, !.allValid = TRUE])
           /\ Goto(h, "checkAuthz")
  <2> DEFINE l == [loc[h] EXCEPT !.ord = order[loc[h].o], !.i = 1, !.allValid = TRUE]
  <2>1. l.o = o /\ l.i = 1 /\ l.allValid
    BY <1>2, <1>3 DEF Locals
  <2> HIDE DEF l
  <2>2. pc'[h] = "checkAuthz" /\ loc'[h].o = o /\ loc'[h].i = 1 /\ loc'[h].allValid
    BY <1>3, <1>6, <2>1, GotoStep, LocalVarsStep DEF l
  <2>3. pc'[h] \in Settling /\ SpreaderOK(h)' /\ SettlerOK(h)'
    BY <2>2 DEF Settling, Spreading, Deciding, Judging, SpreaderOK, SettlerOK
  <2>4. \A p \in OrderIds : OrderAttended(p)'
    BY <1>1, <1>2, <1>3, <2>2, <2>3, OrdersKept
  <2> QED
    BY <1>1, <1>5, <2>3, <2>4, ProgressStep
<1>7. CASE order[o].status \in Final /\ Finish(h)
  <2>1. Alone(o) => order[o].status = "invalid" /\ SomeAuthzInvalid(o)
    BY <1>1, <1>2, <1>7 DEF Before, SettleInv, StillTrue, Final, IInv, StatusOK
  <2>2. Alone(o) => Settles(order[o].status, o)
    BY <2>1 DEF Settles, AllAuthzsValid, SomeAuthzInvalid
  <2>3. OrderAttended(o)'
    BY <1>1, <2>2
    DEF OrderAttended, Settles, AllAuthzsValid, SomeAuthzInvalid, Alone, OneAtATime
  <2>4. \A p \in OrderIds : OrderAttended(p)'
    BY <1>1, <1>2, <1>3, <2>3, OrdersBut
  <2>5. pc'[h] = "idle"
    BY <1>3, <1>7, FinishStep
  <2>6. SpreaderOK(h)' /\ SettlerOK(h)'
    BY <2>5 DEF Settling, Spreading, Deciding, Judging, SpreaderOK, SettlerOK
  <2> QED
    BY <1>1, <1>5, <2>4, <2>6, ProgressStep
<1> QED
  BY <1>1, <1>2, <1>3, <1>6, <1>7 DEF ReadOrder, Exists

\* One round of the loop.
LEMMA CheckAuthorizationProgress ==
  ASSUME Before, NEW h \in Handlers, CheckAuthorization(h)
  PROVE  ProgressInv'
<1>1. /\ pc[h] = "checkAuthz" /\ UNCHANGED <<challenge, authz, order>> /\ Continue(h) /\ ~MayFail
  BY DEF CheckAuthorization, storage, Continue, Before, NothingFails, MayFail
<1>2. PICK o \in OrderIds : o = loc[h].o
  BY <1>1, IdType DEF Before
<1>3. /\ TypeOK /\ loc[h] \in Locals /\ loc[h].ord \in Orders /\ Exists(o) /\ Others(h)
      /\ loc[h].i \in 1 .. MaxIdents /\ Id(h) = <<o, loc[h].i>>
      /\ loc[h].i <= order[o].n /\ loc[h].ord.n = order[o].n /\ order[o].n \in 0 .. MaxIdents
  BY <1>1, <1>2, AtWork, IdType, OnlyItself
  DEF Before, Creating, HandlerOK, LocalsOK, CopyOK, Copying, Finalizing, TypeOK, Orders
<1>4. /\ pc'[h] \in {"checkAuthz", "writeOrder"} /\ loc'[h].o = o
  BY <1>2, CheckAuthorizationLocals DEF Before
<1>5. /\ pc[h] \notin Judging \cup Spreading /\ pc'[h] \in Settling
      /\ pc'[h] \notin Spreading /\ SpreaderOK(h)'
  BY <1>1, <1>4 DEF Deciding, Judging, Spreading, Settling, SpreaderOK
<1>6. Attended' /\ \A p \in OrderIds : OrderAttended(p)'
  BY <1>1, <1>2, <1>3, <1>4, <1>5, AttendedKept, OrdersKept
<1>7. ASSUME Alone(o)
      PROVE  SettlerOK(h)'
  <2> DEFINE Seen(j) == authz[<<o, j>>].status
             i == loc[h].i
  <2>1. /\ \A j \in 1 .. i - 1 : Seen(j) \in {"pending", "valid"}
        /\ (\A j \in 1 .. i - 1 : Seen(j) \in {"valid"}) => loc[h].allValid
    BY <1>1, <1>2, <1>7 DEF Before, ProgressInv, SettlerOK, Settling
  <2>2. Seen(i) \in {"pending", "valid", "invalid"}
    <3>1. Made(<<o, i>>) /\ <<o, i>> \in AuthzIds
      BY <1>2, <1>3 DEF Before, RefInv, AuthzsMade, AuthzIds
    <3> QED
      BY <1>3, <3>1 DEF Made, TypeOK, Authzs
  <2>3. loc[h].allValid \in BOOLEAN /\ i \in 1 .. order[o].n
    BY <1>3, OrderFlowAssumption DEF Locals
  <2>4. CASE /\ Seen(i) = "invalid"
             /\ Local(h, [loc[h] EXCEPT !.ord.status = "invalid"])
             /\ Goto(h, "writeOrder")
    <3> DEFINE l == [loc[h] EXCEPT !.ord.status = "invalid"]
    <3>1. l.ord.status = "invalid"
      BY <1>3 DEF Locals, Orders
    <3> HIDE DEF l
    <3>2. pc'[h] = "writeOrder" /\ loc'[h].ord.status = "invalid"
      BY <1>3, <2>4, <3>1, GotoStep, LocalVarsStep DEF l
    <3>3. ~AllAuthzsValid(o)
      BY <2>3, <2>4 DEF AllAuthzsValid
    <3> QED
      BY <1>1, <1>4, <3>2, <3>3 DEF SettlerOK, Settles, AllAuthzsValid
  <2>5. CASE /\ Seen(i) # "invalid" /\ UNCHANGED pc
             /\ Local(h, [loc[h] EXCEPT !.i = @ + 1, !.allValid = AllValid(h, Seen(i))])
    <3> DEFINE l == [loc[h] EXCEPT !.i = @ + 1, !.allValid = AllValid(h, Seen(i))]
    <3>1. l.i = i + 1 /\ l.allValid = (loc[h].allValid /\ Seen(i) = "valid")
      BY <1>3 DEF Locals, AllValid
    <3> HIDE DEF l
    <3>2. /\ pc'[h] = "checkAuthz" /\ loc'[h].i = i + 1
          /\ loc'[h].allValid = (loc[h].allValid /\ Seen(i) = "valid")
      BY <1>1, <1>3, <2>5, <3>1, LocalVarsStep DEF l
    <3>3. 1 .. (i + 1) - 1 = (1 .. i - 1) \cup {i}
      BY <1>3, OrderFlowAssumption
    <3>4. /\ \A j \in 1 .. (i + 1) - 1 : Seen(j) \in {"pending", "valid"}
          /\ (\A j \in 1 .. (i + 1) - 1 : Seen(j) \in {"valid"}) => loc'[h].allValid
      BY <2>1, <2>2, <2>5, <3>2, <3>3
    <3> QED
      BY <1>1, <1>4, <3>2, <3>4 DEF SettlerOK
  <2>6. CASE /\ Seen(i) # "invalid" /\ LastRound(h) /\ Goto(h, "writeOrder")
             /\ Local(h, [loc[h] EXCEPT !.allValid = AllValid(h, Seen(i)),
                                        !.ord.status = IF AllValid(h, Seen(i)) THEN "ready"
                                                       ELSE loc[h].ord.status])
    <3> DEFINE st == IF AllValid(h, Seen(i)) THEN "ready" ELSE loc[h].ord.status
               l == [loc[h] EXCEPT !.allValid = AllValid(h, Seen(i)), !.ord.status = st]
    <3>1. l.ord.status = st /\ (loc[h].allValid /\ Seen(i) = "valid" => st = "ready")
      <4>1. loc[h].allValid /\ Seen(i) = "valid" => st = "ready"
        BY DEF AllValid
      <4> HIDE DEF st
      <4> QED
        BY <1>3, <4>1 DEF Locals, Orders
    <3>2. Local(h, l) /\ Goto(h, "writeOrder")
      BY <2>6
    <3> HIDE DEF l, st
    <3>3. pc'[h] = "writeOrder" /\ loc'[h].ord.status = st
      BY <1>3, <3>1, <3>2, GotoStep, LocalVarsStep
    <3>4. 1 .. order[o].n = (1 .. i - 1) \cup {i}
      BY <1>3, <2>6, OrderFlowAssumption DEF LastRound
    <3>5. ~SomeAuthzInvalid(o)
      BY <2>1, <2>6, <3>4 DEF SomeAuthzInvalid
    <3>6. AllAuthzsValid(o) => st = "ready"
      BY <2>1, <3>1, <3>4 DEF AllAuthzsValid
    <3> QED
      BY <1>1, <1>4, <3>3, <3>5, <3>6 DEF SettlerOK, Settles, AllAuthzsValid, SomeAuthzInvalid
  <2>7. AllValid(h, Seen(i)) = AllValid(h, authz[Id(h)].status) /\ Seen(i) = authz[Id(h)].status
    BY <1>3
  <2> QED
    BY <1>1, <2>4, <2>5, <2>6, <2>7, Zenon DEF CheckAuthorization
<1>8. SettlerOK(h)'
  BY <1>1, <1>2, <1>4, <1>7 DEF SettlerOK, Alone, OneAtATime
<1> QED
  BY <1>1, <1>5, <1>6, <1>8, ProgressStep

\* It writes what follows.
LEMMA UpdateOrderProgress ==
  ASSUME Before, NEW h \in Handlers, UpdateOrder(h) \/ UpdateFinalizedOrder(h)
  PROVE  ProgressInv'
<1>1. /\ pc[h] \in {"writeOrder", "updateOrder"} /\ UNCHANGED <<challenge, authz>>
      /\ order' = [order EXCEPT ![loc[h].o] = loc[h].ord] /\ Continue(h)
  BY DEF UpdateOrder, UpdateFinalizedOrder, Continue, Before, NothingFails, MayFail
<1>2. PICK o \in OrderIds : o = loc[h].o
  BY <1>1, IdType DEF Before
<1>3. /\ TypeOK /\ Others(h) /\ loc[h].ord.n = order[o].n
      /\ pc[h] = "updateOrder" => loc[h].ord.status = "valid" /\ AllAuthzsValid(o)
      /\ pc[h] = "writeOrder" /\ Alone(o) => Settles(loc[h].ord.status, o)
  BY <1>1, <1>2, AtWork, OnlyItself
  DEF Before, Creating, HandlerOK, CopyOK, Copying, Finalizing, RefInv, HandlerRefs, CopyRefs,
      ProgressInv, SettlerOK, Settling
<1>4. order'[o] = loc[h].ord /\ \A p \in OrderIds : p # o => order'[p] = order[p]
  BY <1>1, <1>2, <1>3 DEF TypeOK
<1>5. Alone(o) => Settles(loc[h].ord.status, o)
  BY <1>1, <1>3 DEF Settles, AllAuthzsValid, SomeAuthzInvalid
<1>6. OrderAttended(o)'
  BY <1>1, <1>3, <1>4, <1>5
  DEF OrderAttended, Settles, AllAuthzsValid, SomeAuthzInvalid, Alone, OneAtATime
<1>7. \A p \in OrderIds : OrderAttended(p)'
  BY <1>1, <1>2, <1>3, <1>4, <1>6, OrdersBut
<1>8. pc[h] \notin Judging \cup Spreading /\ pc'[h] \in {"idle", "notify"}
  BY <1>1, <1>3, FinishStep, GotoStep
  DEF UpdateOrder, UpdateFinalizedOrder, Deciding, Judging, Spreading
<1>9. SpreaderOK(h)' /\ SettlerOK(h)'
  BY <1>8 DEF Settling, Spreading, Deciding, Judging, SpreaderOK, SettlerOK
<1> QED
  BY <1>1, <1>3, <1>7, <1>8, <1>9, AttendedKept, ProgressStep

-----------------------------------------------------------------------------
(* The invariant, and what follows from it.                                *)

\* A request comes in, other than a response.
LEMMA ArrivalProgress ==
  ASSUME Before, NEW h \in Handlers,
         \/ \E a \in Accounts, o \in OrderIds, n \in 1 .. MaxIdents : NewOrder(h, a, o, n)
         \/ \E a \in Accounts, o \in OrderIds : Finalize(h, a, o)
  PROVE  ProgressInv'
<1>1. Begin(h) /\ TypeOK
  BY DEF Begin, Before, IInv
<1>2. /\ UNCHANGED <<challenge, authz, order>> /\ pc[h] = "idle"
      /\ Goto(h, "createChallenge") \/ Goto(h, "collect")
  BY DEF NewOrder, Finalize, storage
<1>3. pc[h] \notin Responding /\ pc'[h] \notin Responding
  BY <1>1, <1>2, GotoStep DEF Responding, Deciding, Judging, Settling
<1> QED
  BY <1>1, <1>2, <1>3, QuietStep

\* The rest of finalize.
LEMMA FinalizerProgress ==
  ASSUME Before, NEW h \in Handlers,
         \/ CollectDevice(h) \/ IssueCertificate(h)
         \/ NotifyObservers(h) \/ RereadOrder(h) \/ Answer(h)
  PROVE  ProgressInv'
<1>1. /\ UNCHANGED <<challenge, authz, order>> /\ Continue(h) /\ TypeOK
      /\ pc[h] \in {"collect", "issue", "notify", "reread", "answer"}
  BY DEF CollectDevice, IssueCertificate, NotifyObservers, RereadOrder, Answer, storage,
         Continue, Before, IInv
<1>2. Course(h)
  BY <1>1, ContinueCourse DEF Before
<1>3. pc[h] \notin Responding /\ pc'[h] \notin Responding
  BY <1>1, <1>2
  DEF Course, Creating, Responding, Deciding, Judging, Settling, Finalizing
<1> QED
  BY <1>1, <1>3, QuietStep

LEMMA InitProgress == Init => ProgressInv
BY OrderFlowAssumption
DEF Init, ProgressInv, Attended, OrderAttended, SpreaderOK, SettlerOK, Exists, NoChallenge, NoOrder,
    Final, Settling, Spreading, Deciding, Judging

LEMMA ProgressNextStep ==
  ASSUME NothingFails, IInv, RefInv, SettleInv, ProgressInv, [Next]_vars
  PROVE  ProgressInv'
<1>1. Before
  BY RefNextStep, VerdictsStep DEF Before
<1>2. CASE UNCHANGED vars
  BY <1>1, <1>2
  DEF Before, ProgressInv, Attended, OrderAttended, SpreaderOK, SettlerOK, Exists, Alone,
      OneAtATime, Settles, AllAuthzsValid, SomeAuthzInvalid, Id, vars, storage
<1>3. CASE Crash
  BY <1>3 DEF Crash, NothingFails
<1>4. ASSUME NEW h \in Handlers, Begin(h)
      PROVE  ProgressInv'
  BY <1>1, <1>4, ArrivalProgress, TakingProgress DEF Begin
<1>5. ASSUME NEW h \in Handlers, Continue(h)
      PROVE  ProgressInv'
  BY <1>1, <1>5, CreatorProgress, JudgeProgress, VerdictProgress, SpreadProgress,
     UpdateAuthorizationProgress, ReadOrderProgress, CheckAuthorizationProgress,
     UpdateOrderProgress, FinalizerProgress
  DEF Continue
<1> QED
  BY <1>2, <1>3, <1>4, <1>5 DEF Next

\* If nothing fails, a challenge that is being processed, a verdict that its authorization
\* does not show yet, and an order whose status is behind its authorizations are each in
\* the hands of a request that is on its way to them (handleChallengeResponse,
\* updateAuthorizationStatus, updateOrderStatus).
THEOREM ProgressInvariance == ASSUME NothingFails PROVE Spec => []ProgressInv
<1>1. IInv /\ RefInv /\ SettleInv /\ ProgressInv /\ [Next]_vars => ProgressInv'
  BY ProgressNextStep
<1> QED
  BY <1>1, InitProgress, Invariance, ReferenceInvariance, SettlementInvariance, PTL DEF Spec

\* If nothing fails, no challenge stays in processing and no order short of the status its
\* challenges give it once the requests for them have been answered, for any number of
\* requests side by side; for an order of several identifiers, if requests are served one
\* at a time.
THEOREM NothingIsStranded == ASSUME NothingFails PROVE Spec => []NothingStranded
<1>1. ASSUME IInv, RefInv, ProgressInv,
             NEW o \in OrderIds, Exists(o), Alone(o),
             \A h \in Handlers : ~(pc[h] \in Responding /\ loc[h].o = o)
      PROVE  /\ (\A id \in AuthzsOf(o) : challenge[id].status = "valid") =>
                  order[o].status \in {"ready", "valid"}
             /\ (\E id \in AuthzsOf(o) : challenge[id].status = "invalid") =>
                  order[o].status = "invalid"
  <2>1. order[o].n \in 0 .. MaxIdents /\ TypeOK
    BY <1>1 DEF IInv, TypeOK, Orders
  <2>2. ASSUME NEW i \in 1 .. order[o].n, challenge[<<o, i>>].status \in Final
        PROVE  authz[<<o, i>>].status = challenge[<<o, i>>].status
    <3>1. i \in 1 .. MaxIdents /\ i <= order[o].n /\ <<o, i>> \in AuthzIds
      BY <2>1, OrderFlowAssumption DEF AuthzIds
    <3>2. authz[<<o, i>>].status \in {"pending", "valid", "invalid"}
      BY <1>1, <2>1, <3>1 DEF RefInv, AuthzsMade, Made, TypeOK, Authzs
    <3>3. \A h \in Handlers : Id(h) = <<o, i>> => loc[h].o = o
      BY DEF Id
    <3>4. authz[<<o, i>>].status # "pending"
      BY <1>1, <2>2, <3>1, <3>3 DEF ProgressInv, Attended, Responding, Spreading
    <3> QED
      BY <1>1, <3>1, <3>2, <3>4 DEF IInv, AuthzJustified, Final
  <2>3. Settles(order[o].status, o)
    BY <1>1 DEF ProgressInv, OrderAttended, Responding
  <2> QED
    BY <2>2, <2>3 DEF AuthzsOf, Settles, AllAuthzsValid, SomeAuthzInvalid, Final
<1>2. IInv /\ RefInv /\ ProgressInv => NothingStranded
  BY <1>1 DEF NothingStranded, ProgressInv, Attended
<1> QED
  BY <1>2, ProgressInvariance, Invariance, ReferenceInvariance, PTL
==============================================================================
