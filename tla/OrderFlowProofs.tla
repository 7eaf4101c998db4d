--------------------------- MODULE OrderFlowProofs ---------------------------
(***************************************************************************)
(* Proofs that IInv is an inductive invariant of OrderFlow, and of the     *)
(* safety properties it implies, for every value of the constants.         *)
(***************************************************************************)
EXTENDS OrderFlowInvariant, TLAPS

-----------------------------------------------------------------------------
(* The local part of a step.                                               *)

\* The step of handler h leaves the other handlers where they are.
Others(h) == \A g \in Handlers : g # h => pc'[g] = pc[g] /\ loc'[g] = loc[g]

\* A step of h that neither takes up a new order nor a new challenge.
SameWork(h) ==
  /\ pc'[h] \in Creating => pc[h] \in Creating /\ loc'[h].o = loc[h].o
  /\ pc'[h] \in Deciding => pc[h] \in Deciding /\ Id(h)' = Id(h)

\* The values of pc.
Pcs == {"idle"} \cup Creating \cup Deciding \cup Settling \cup Finalizing \cup Answering

\* What Goto does to the program counters.
LEMMA GotoStep ==
  ASSUME TypeOK, NEW h \in Handlers, NEW p, Goto(h, p)
  PROVE  pc'[h] = p /\ \A g \in Handlers : g # h => pc'[g] = pc[g]
BY DEF TypeOK, Goto

\* What Local does to the local variables.
LEMMA LocalVarsStep ==
  ASSUME TypeOK, NEW h \in Handlers, NEW l, Local(h, l)
  PROVE  loc'[h] = l /\ \A g \in Handlers : g # h => loc'[g] = loc[g]
BY DEF TypeOK, Local

\* A handler moves on with new local variables.
LEMMA Move ==
  ASSUME TypeOK, NEW h \in Handlers, NEW p \in Pcs, NEW l \in Locals, Goto(h, p), Local(h, l)
  PROVE  /\ pc' \in [Handlers -> Pcs] /\ loc' \in [Handlers -> Locals]
         /\ pc'[h] = p /\ loc'[h] = l /\ Others(h)
BY DEF TypeOK, Pcs, Goto, Local, Others

\* To leave the variables of a handler alone is to set them to what they are.
LEMMA Stay ==
  ASSUME TypeOK, NEW h \in Handlers
  PROVE  (UNCHANGED pc => Goto(h, pc[h])) /\ (UNCHANGED loc => Local(h, loc[h]))
BY DEF TypeOK, Goto, Local

\* A handler that returns is idle, and the others are where they were.
LEMMA FinishStep ==
  ASSUME TypeOK, NEW h \in Handlers, Finish(h)
  PROVE  pc'[h] = "idle" /\ loc'[h] = NoLocals /\ Others(h)
BY GotoStep, LocalVarsStep DEF Finish, Others

\* The initial local variables are well typed.
LEMMA NoLocalsType == NoLocals \in Locals
BY OrderFlowAssumption DEF NoLocals, Locals, NoAuthz, NoOrder, Authzs, Orders, ChallengeStates

\* An idle handler has nothing to keep.
LEMMA IdleOK ==
  ASSUME NEW h \in Handlers, pc[h] = "idle"
  PROVE  HandlerOK(h)
BY DEF HandlerOK, LocalsOK, CreatorOK, ProcessorOK, CopyOK, Creating, Judging, Deciding,
       Finalizing, Copying

\* The mutual exclusion of creators and of processors is kept by a step that takes
\* up nothing new.
LEMMA StillSole ==
  ASSUME IInv, NEW h \in Handlers, Others(h), SameWork(h)
  PROVE  SoleCreator' /\ SoleProcessor'
BY DEF IInv, SoleCreator, SoleProcessor, Others, SameWork, Id

-----------------------------------------------------------------------------
(* The shared part of a step: what a step may write without disturbing     *)
(* the other handlers and the invariants of the storage.                   *)

\* A step that changes no stored object.
LEMMA LocalStep ==
  ASSUME IInv, NEW h \in Handlers, Others(h), SameWork(h), TypeOK', HandlerOK(h)',
         UNCHANGED <<storage, used>>, approved \subseteq approved'
  PROVE  IInv'
<1>1. OrderLast' /\ AuthzJustified' /\ StatusOK'
  <2>1. OrderLast' /\ AuthzJustified'
    BY DEF IInv, OrderLast, AuthzJustified, storage, Exists
  <2>2. StatusOK'
    BY DEF IInv, StatusOK, storage, Exists, Stored, AllAuthzsValid, SomeAuthzInvalid
  <2> QED
    BY <2>1, <2>2
<1>2. ASSUME NEW g \in Handlers, g # h
      PROVE  HandlerOK(g)'
  <2>1. HandlerOK(g) /\ pc'[g] = pc[g] /\ loc'[g] = loc[g]
    BY <1>2 DEF IInv, Others
  <2> QED
    <3>1. LocalsOK(g)' /\ CreatorOK(g)'
      BY <2>1 DEF HandlerOK, LocalsOK, CreatorOK, storage, Exists
    <3>2. ProcessorOK(g)'
      BY <2>1 DEF HandlerOK, ProcessorOK, storage, Id
    <3>3. CopyOK(g)'
      BY <2>1 DEF HandlerOK, CopyOK, storage, AllAuthzsValid, SomeAuthzInvalid
    <3> QED
      BY <3>1, <3>2, <3>3 DEF HandlerOK
<1>3. SoleCreator' /\ SoleProcessor'
  BY StillSole
<1> QED
  BY <1>1, <1>2, <1>3 DEF IInv

\* The step of h writes a challenge that no other handler is in charge of.
LEMMA ChallengeStep ==
  ASSUME IInv, NEW h \in Handlers, NEW id \in AuthzIds, NEW c \in Challenges,
         Others(h), TypeOK', HandlerOK(h)', SoleCreator', SoleProcessor',
         challenge' = [challenge EXCEPT ![id] = c],
         UNCHANGED <<authz, order, cert, history>>,
         authz[id].status \notin Final,
         c.status = "valid" => id \in approved,
         \A g \in Handlers : g # h /\ pc[g] \in Deciding => Id(g) # id
  PROVE  IInv'
<1>1. /\ challenge'[id] = c
      /\ \A j \in AuthzIds : j # id => challenge'[j] = challenge[j]
  BY DEF IInv, TypeOK
<1>2. OrderLast' /\ AuthzJustified' /\ StatusOK'
  <2>1. OrderLast'
    BY DEF IInv, OrderLast, history, Exists
  <2>2. AuthzJustified'
    BY <1>1 DEF IInv, AuthzJustified
  <2>3. \A j \in AuthzIds : challenge'[j].status = "valid" => j \in approved'
    BY <1>1 DEF IInv, StatusOK, history
  <2>4. StatusOK'
    BY <2>3 DEF IInv, StatusOK, history, Exists, Stored, AllAuthzsValid, SomeAuthzInvalid
  <2> QED
    BY <2>1, <2>2, <2>4
<1>3. ASSUME NEW g \in Handlers, g # h
      PROVE  HandlerOK(g)'
  <2>1. HandlerOK(g) /\ pc'[g] = pc[g] /\ loc'[g] = loc[g] /\ Id(g)' = Id(g)
    BY <1>3 DEF IInv, Others, Id
  <2>2. pc[g] \in Deciding => Id(g) \in AuthzIds /\ Id(g) # id
    BY <1>3, <2>1 DEF IInv, TypeOK, HandlerOK, LocalsOK, Id, AuthzIds, Locals, Deciding, Judging
  <2>3. ProcessorOK(g)'
    BY <1>1, <2>1, <2>2 DEF HandlerOK, ProcessorOK, history, Deciding, Judging
  <2>4. LocalsOK(g)' /\ CreatorOK(g)'
    BY <2>1 DEF HandlerOK, LocalsOK, CreatorOK, history, Exists
  <2>5. CopyOK(g)'
    BY <2>1 DEF HandlerOK, CopyOK, AllAuthzsValid, SomeAuthzInvalid
  <2> QED
    BY <2>3, <2>4, <2>5 DEF HandlerOK
<1> QED
  BY <1>2, <1>3 DEF IInv

\* The step of h writes an authorization that is not decided yet and no other
\* handler is in charge of; it decides it only as its challenge says.
LEMMA AuthzStep ==
  ASSUME IInv, NEW h \in Handlers, NEW o \in OrderIds, NEW i \in 1 .. MaxIdents,
         NEW a \in Authzs,
         Others(h), TypeOK', HandlerOK(h)', SoleCreator', SoleProcessor',
         authz' = [authz EXCEPT ![<<o, i>>] = a],
         UNCHANGED <<challenge, order, cert, history>>,
         authz[<<o, i>>].status \notin Final, a.status # "absent", o \in used,
         a.status \in Final =>
           Exists(o) /\ challenge[<<o, i>>].status = a.status /\ a.chal = a.status,
         \A g \in Handlers : g # h /\ pc[g] \in Deciding => Id(g) # <<o, i>>
  PROVE  IInv'
<1> DEFINE id == <<o, i>>
<1>1. /\ id \in AuthzIds
      /\ authz'[id] = a
      /\ \A j \in AuthzIds : j # id => authz'[j] = authz[j]
  BY DEF IInv, TypeOK, AuthzIds
<1>2. \A p \in OrderIds, k \in 1 .. MaxIdents :
        /\ <<p, k>> \in AuthzIds
        /\ authz'[<<p, k>>] = IF p = o /\ k = i THEN a ELSE authz[<<p, k>>]
  BY <1>1 DEF AuthzIds
<1>3. \A p \in OrderIds : order[p].n \in 0 .. MaxIdents
  BY DEF IInv, TypeOK, Orders
<1>4. \A p \in OrderIds, k \in 1 .. MaxIdents :
        authz[<<p, k>>].status \in Final => authz'[<<p, k>>] = authz[<<p, k>>]
  BY <1>2
<1>5. \A p \in OrderIds :
        /\ AllAuthzsValid(p) => AllAuthzsValid(p)'
        /\ SomeAuthzInvalid(p) => SomeAuthzInvalid(p)'
  BY <1>3, <1>4, OrderFlowAssumption DEF AllAuthzsValid, SomeAuthzInvalid, Final
<1>6. OrderLast'
  BY <1>2 DEF IInv, OrderLast, Exists, history, Authzs, Final
<1>7. AuthzJustified'
  BY <1>1 DEF IInv, AuthzJustified
<1>8. StatusOK'
  <2>1. \A s \in Serials : Stored(s) => cert[s].order \in OrderIds
    BY DEF IInv, TypeOK, Certificates, Stored
  <2> QED
    BY <1>5, <2>1 DEF IInv, StatusOK, Exists, Stored, history
<1>9. ASSUME NEW g \in Handlers, g # h
      PROVE  HandlerOK(g)'
  <2>1. HandlerOK(g) /\ pc'[g] = pc[g] /\ loc'[g] = loc[g] /\ Id(g)' = Id(g)
    BY <1>9 DEF IInv, Others, Id
  <2>2. pc[g] \in Deciding => Id(g) \in AuthzIds /\ Id(g) # id
    BY <1>9, <2>1 DEF IInv, TypeOK, HandlerOK, LocalsOK, Id, AuthzIds, Locals, Deciding, Judging
  <2>3. ProcessorOK(g)'
    BY <1>1, <2>1, <2>2 DEF HandlerOK, ProcessorOK, history, Deciding, Judging
  <2>4. LocalsOK(g)' /\ CreatorOK(g)'
    BY <2>1 DEF HandlerOK, LocalsOK, CreatorOK, history, Exists
  <2>5. CopyOK(g)'
    <3>1. loc[g].i \in 1 .. MaxIdents /\ (pc[g] # "idle" => loc[g].o \in OrderIds)
      BY <2>1 DEF IInv, TypeOK, Locals, HandlerOK, LocalsOK
    <3>2. pc[g] = "checkAuthz" /\ loc[g].allValid =>
            \A j \in 1 .. loc[g].i - 1 : authz'[<<loc[g].o, j>>].status = "valid"
      BY <2>1, <3>1, <1>4, OrderFlowAssumption DEF HandlerOK, CopyOK, Final
    <3> QED
      BY <2>1, <3>1, <3>2, <1>5 DEF HandlerOK, CopyOK, Finalizing, Copying, Creating
  <2> QED
    BY <2>3, <2>4, <2>5 DEF HandlerOK
<1> QED
  BY <1>6, <1>7, <1>8, <1>9 DEF IInv

\* The step of h writes an order that no other handler is creating; if the order
\* exists its length is kept, and its status is what its authorizations say.
LEMMA OrderStep ==
  ASSUME IInv, NEW h \in Handlers, NEW o \in OrderIds, NEW r \in Orders,
         Others(h), TypeOK', HandlerOK(h)', SoleCreator', SoleProcessor',
         order' = [order EXCEPT ![o] = r],
         UNCHANGED <<challenge, authz, cert, history>>,
         r.status # "absent", r.n >= 1, o \in used,
         Exists(o) => r.n = order[o].n,
         r.status \in {"ready", "valid"} => Exists(o) /\ AllAuthzsValid(o),
         r.status = "invalid" => Exists(o) /\ SomeAuthzInvalid(o),
         \A g \in Handlers : g # h /\ pc[g] \in Creating => loc[g].o # o
  PROVE  IInv'
<1>1. order'[o] = r /\ \A p \in OrderIds : p # o => order'[p] = order[p]
  BY DEF IInv, TypeOK
<1>2. \A p \in OrderIds :
        /\ Exists(p) => Exists(p)' /\ order'[p].n = order[p].n
        /\ Exists(p) /\ AllAuthzsValid(p) => AllAuthzsValid(p)'
        /\ Exists(p) /\ SomeAuthzInvalid(p) => SomeAuthzInvalid(p)'
  BY <1>1 DEF Exists, AllAuthzsValid, SomeAuthzInvalid
<1>3. OrderLast'
  BY <1>1, <1>2 DEF IInv, OrderLast, Exists, history
<1>4. AuthzJustified'
  BY DEF IInv, AuthzJustified
<1>5. StatusOK'
  <2>1. \A s \in Serials : Stored(s) => cert[s].order \in OrderIds
    BY DEF IInv, TypeOK, Certificates, Stored
  <2>2. \A p \in OrderIds :
          /\ order'[p].status \in {"ready", "valid"} => AllAuthzsValid(p)'
          /\ order'[p].status = "invalid" => SomeAuthzInvalid(p)'
    BY <1>1, <1>2 DEF IInv, StatusOK, Exists
  <2> QED
    BY <1>2, <2>1, <2>2 DEF IInv, StatusOK, Stored, history
<1>6. ASSUME NEW g \in Handlers, g # h
      PROVE  HandlerOK(g)'
  <2>1. HandlerOK(g) /\ pc'[g] = pc[g] /\ loc'[g] = loc[g] /\ Id(g)' = Id(g)
    BY <1>6 DEF IInv, Others, Id
  <2>2. LocalsOK(g)' /\ ProcessorOK(g)'
    BY <2>1 DEF HandlerOK, LocalsOK, ProcessorOK, history
  <2>3. pc[g] # "idle" => loc[g].o \in OrderIds
    BY <2>1 DEF HandlerOK, LocalsOK
  <2>4. CreatorOK(g)'
    BY <1>1, <1>2, <1>6, <2>1, <2>3 DEF HandlerOK, CreatorOK, Exists, history, Creating
  <2>5. CopyOK(g)'
    BY <1>2, <2>1, <2>3 DEF HandlerOK, CreatorOK, CopyOK, Finalizing, Copying, Creating
  <2> QED
    BY <2>2, <2>4, <2>5 DEF HandlerOK
<1> QED
  BY <1>3, <1>4, <1>5, <1>6 DEF IInv

-----------------------------------------------------------------------------
(* Steps that change no stored object.                                     *)

\* A handler that returns without having written anything.
LEMMA FinishOnly ==
  ASSUME IInv, NEW h \in Handlers, Finish(h), UNCHANGED <<storage, history>>
  PROVE  IInv'
<1>1. TypeOK /\ "idle" \in Pcs /\ NoLocals \in Locals
  BY NoLocalsType DEF IInv, Pcs
<1>2. /\ pc' \in [Handlers -> Pcs] /\ loc' \in [Handlers -> Locals]
      /\ pc'[h] = "idle" /\ Others(h)
  BY <1>1, Move DEF Finish
<1>3. TypeOK'
  BY <1>1, <1>2 DEF TypeOK, Pcs, storage, history
<1>4. HandlerOK(h)'
  BY <1>2 DEF HandlerOK, LocalsOK, CreatorOK, ProcessorOK, CopyOK, Creating, Judging, Deciding,
              Finalizing, Copying
<1>5. SameWork(h)
  BY <1>2 DEF SameWork, Creating, Deciding, Judging
<1> QED
  BY <1>2, <1>3, <1>4, <1>5, LocalStep DEF history

\* The same with the program counter and the locals that Finish leaves, for the
\* steps that write something as they return.
LEMMA FinishMove ==
  ASSUME IInv, NEW h \in Handlers, Finish(h)
  PROVE  /\ pc' \in [Handlers -> Pcs] /\ loc' \in [Handlers -> Locals]
         /\ pc'[h] = "idle" /\ Others(h) /\ HandlerOK(h)' /\ SameWork(h)
<1>1. TypeOK /\ "idle" \in Pcs /\ NoLocals \in Locals
  BY NoLocalsType DEF IInv, Pcs
<1>2. /\ pc' \in [Handlers -> Pcs] /\ loc' \in [Handlers -> Locals]
      /\ pc'[h] = "idle" /\ Others(h)
  BY <1>1, Move DEF Finish
<1> QED
  BY <1>2 DEF HandlerOK, LocalsOK, CreatorOK, ProcessorOK, CopyOK, Creating, Judging, Deciding,
              Finalizing, Copying, SameWork

\* The verdict of the verifier and the authorizer.
LEMMA JudgeStep ==
  ASSUME IInv, NEW h \in Handlers, Judge(h)
  PROVE  IInv'
<1>1. PICK p \in {"setValid", "setInvalid"} :
        /\ Goto(h, p)
        /\ approved' \in {approved, approved \cup {Id(h)}}
        /\ p = "setValid" => Id(h) \in approved'
  BY DEF Judge, VerdictCall
<1>2. /\ pc[h] = "judge" /\ HandlerOK(h) /\ TypeOK /\ Local(h, loc[h])
      /\ UNCHANGED <<storage, loc, used, notified>>
  BY Stay DEF Judge, IInv
<1>3. /\ pc' \in [Handlers -> Pcs] /\ loc' \in [Handlers -> Locals]
      /\ pc'[h] = p /\ loc'[h] = loc[h] /\ Others(h)
  <2>1. p \in Pcs /\ loc[h] \in Locals
    BY <1>2 DEF Pcs, Deciding, Judging, TypeOK
  <2> QED
    BY <1>1, <1>2, <2>1, Move
<1>4. Id(h) \in AuthzIds /\ Id(h)' = Id(h)
  BY <1>2, <1>3 DEF HandlerOK, LocalsOK, TypeOK, Locals, Id, AuthzIds
<1>5. TypeOK'
  BY <1>1, <1>2, <1>3, <1>4 DEF TypeOK, Pcs, storage
<1>6. HandlerOK(h)'
  BY <1>1, <1>2, <1>3, <1>4
  DEF HandlerOK, LocalsOK, CreatorOK, ProcessorOK, CopyOK, Creating, Judging, Deciding,
      Finalizing, Copying, storage, Exists
<1>7. SameWork(h)
  BY <1>1, <1>2, <1>3, <1>4 DEF SameWork, Creating, Deciding, Judging
<1> QED
  BY <1>1, <1>2, <1>3, <1>5, <1>6, <1>7, LocalStep

\* Reading the authorization, which is still pending.
LEMMA ReadAuthorizationStep ==
  ASSUME IInv, NEW h \in Handlers, ReadAuthorization(h)
  PROVE  IInv'
<1>1. CASE Finish(h)
  BY <1>1, FinishOnly DEF ReadAuthorization
<1>2. CASE /\ authz[Id(h)].status = "pending"
           /\ Local(h, [loc[h] EXCEPT !.az = authz[Id(h)]])
           /\ Goto(h, "refreshChallenge")
  <2> DEFINE l == [loc[h] EXCEPT !.az = authz[Id(h)]]
  <2>1. /\ pc[h] = "readAuthz" /\ HandlerOK(h) /\ TypeOK /\ UNCHANGED <<storage, history>>
        /\ loc[h] \in Locals /\ loc[h].o \in OrderIds
    BY DEF ReadAuthorization, IInv, HandlerOK, LocalsOK, TypeOK
  <2>2. Id(h) \in AuthzIds /\ l \in Locals /\ "refreshChallenge" \in Pcs
    BY <2>1 DEF TypeOK, Locals, Id, AuthzIds, Pcs, Deciding
  <2>3. /\ pc' \in [Handlers -> Pcs] /\ loc' \in [Handlers -> Locals]
        /\ pc'[h] = "refreshChallenge" /\ loc'[h] = l /\ Others(h)
    BY <1>2, <2>1, <2>2, Move
  <2>4. Id(h)' = Id(h) /\ l.o = loc[h].o /\ l.acct = loc[h].acct /\ l.az = authz[Id(h)]
    BY <2>1, <2>3 DEF Id, Locals
  <2>5. TypeOK'
    BY <2>1, <2>3 DEF TypeOK, Pcs, storage, history
  <2>6. HandlerOK(h)'
    BY <1>2, <2>1, <2>3, <2>4
    DEF HandlerOK, LocalsOK, CreatorOK, ProcessorOK, CopyOK, Creating, Judging, Deciding,
        Finalizing, Copying, storage, Exists
  <2>7. SameWork(h)
    BY <2>1, <2>3, <2>4 DEF SameWork, Creating, Deciding, Judging
  <2> QED
    BY <2>1, <2>3, <2>5, <2>6, <2>7, LocalStep DEF history
<1> QED
  BY <1>1, <1>2 DEF ReadAuthorization

\* Taking over the status of the challenge into the copy of the authorization.
LEMMA RefreshChallengeStep ==
  ASSUME IInv, NEW h \in Handlers, RefreshChallenge(h)
  PROVE  IInv'
<1> DEFINE current == challenge[Id(h)].status
           l == [loc[h] EXCEPT !.az.chal = current, !.az.status = AuthzStatus(current)]
<1>1. /\ pc[h] = "refreshChallenge" /\ HandlerOK(h) /\ TypeOK /\ UNCHANGED <<storage, history>>
      /\ loc[h] \in Locals /\ loc[h].o \in OrderIds /\ Goto(h, "writeAuthz")
  BY DEF RefreshChallenge, IInv, HandlerOK, LocalsOK, TypeOK
<1>2. /\ Id(h) \in AuthzIds /\ l \in Locals /\ "writeAuthz" \in Pcs
      /\ current \in {"processing", "valid", "invalid"}
  <2>1. Id(h) \in AuthzIds /\ "writeAuthz" \in Pcs
    BY <1>1 DEF TypeOK, Locals, Id, AuthzIds, Pcs, Deciding
  <2>2. current \in {"processing", "valid", "invalid"}
    BY <1>1 DEF HandlerOK, ProcessorOK, Deciding
  <2>3. l \in Locals
    BY <1>1, <2>2 DEF Locals, Authzs, ChallengeStates, AuthzStatus
  <2> QED
    BY <2>1, <2>2, <2>3
<1>3. PICK m \in {loc[h], l} : Local(h, m)
  BY <1>1, Stay DEF RefreshChallenge
<1>4. /\ pc' \in [Handlers -> Pcs] /\ loc' \in [Handlers -> Locals]
      /\ pc'[h] = "writeAuthz" /\ loc'[h] = m /\ Others(h)
  BY <1>1, <1>2, <1>3, Move
<1>5. /\ Id(h)' = Id(h) /\ m.o = loc[h].o /\ m.acct = loc[h].acct
      /\ m.az.status \in {"pending", "valid", "invalid"}
      /\ m.az.status \in Final => current = m.az.status /\ m.az.chal = m.az.status
  <2>1. CASE m = loc[h]
    BY <1>1, <1>4, <2>1 DEF Id, HandlerOK, ProcessorOK, Final
  <2>2. CASE m = l
    <3>1. /\ l.o = loc[h].o /\ l.i = loc[h].i /\ l.acct = loc[h].acct
          /\ l.az.chal = current /\ l.az.status = AuthzStatus(current)
      BY <1>1 DEF Locals, Authzs
    <3>2. AuthzStatus(current) \in Final => AuthzStatus(current) = current
      BY DEF AuthzStatus, Final
    <3>3. AuthzStatus(current) \in {"pending", "valid", "invalid"}
      BY DEF AuthzStatus
    <3>4. Id(h)' = Id(h)
      BY <1>4, <2>2, <3>1 DEF Id
    <3> QED
      BY <2>2, <3>1, <3>2, <3>3, <3>4
  <2> QED
    BY <2>1, <2>2
<1>6. TypeOK'
  BY <1>1, <1>4 DEF TypeOK, Pcs, storage, history
<1>7. HandlerOK(h)'
  BY <1>1, <1>4, <1>5
  DEF HandlerOK, LocalsOK, CreatorOK, ProcessorOK, CopyOK, Creating, Judging, Deciding,
      Finalizing, Copying, storage, Exists
<1>8. SameWork(h)
  BY <1>1, <1>4, <1>5 DEF SameWork, Creating, Deciding, Judging
<1> QED
  BY <1>1, <1>4, <1>6, <1>7, <1>8, LocalStep DEF history

\* Reading the order before going through its authorizations.
LEMMA ReadOrderStep ==
  ASSUME IInv, NEW h \in Handlers, ReadOrder(h)
  PROVE  IInv'
<1>1. CASE Finish(h)
  BY <1>1, FinishOnly DEF ReadOrder
<1>2. CASE /\ order[loc[h].o].status \notin Final \cup {"absent"}
           /\ Local(h, [loc[h] EXCEPT !.ord = order[loc[h].o], !.i = 1, !.allValid = TRUE])
           /\ Goto(h, "checkAuthz")
  <2> DEFINE o == loc[h].o
             l == [loc[h] EXCEPT !.ord = order[o], !.i = 1, !.allValid = TRUE]
  <2>1. /\ pc[h] = "readOrder" /\ HandlerOK(h) /\ TypeOK /\ UNCHANGED <<storage, history>>
        /\ loc[h] \in Locals /\ o \in OrderIds /\ Exists(o) /\ order[o] \in Orders
    BY DEF ReadOrder, IInv, HandlerOK, LocalsOK, CreatorOK, TypeOK, Creating
  <2>2. l \in Locals /\ "checkAuthz" \in Pcs
    <3>1. 1 \in 1 .. MaxIdents
      BY OrderFlowAssumption
    <3> QED
      BY <2>1, <3>1 DEF Locals, Pcs, Settling
  <2>3. /\ pc' \in [Handlers -> Pcs] /\ loc' \in [Handlers -> Locals]
        /\ pc'[h] = "checkAuthz" /\ loc'[h] = l /\ Others(h)
    BY <1>2, <2>1, <2>2, Move
  <2>4. l.o = o /\ l.acct = loc[h].acct /\ l.ord = order[o] /\ l.i = 1
    BY <2>1 DEF Locals
  <2>5. TypeOK'
    BY <2>1, <2>3 DEF TypeOK, Pcs, storage, history
  <2>6. /\ order[o].n >= 1 /\ order[o].n \in Nat
        /\ order[o].status \in {"pending", "ready"}
        /\ order[o].status = "ready" => AllAuthzsValid(o)
    BY <1>2, <2>1 DEF IInv, OrderLast, StatusOK, Orders, Final
  <2>7. LocalsOK(h)' /\ CreatorOK(h)' /\ ProcessorOK(h)'
    BY <2>1, <2>3, <2>4, <2>6
    DEF HandlerOK, LocalsOK, CreatorOK, ProcessorOK, Creating, Judging, Deciding, Finalizing,
        Copying, storage, Exists
  <2>8. CopyOK(h)'
    BY <2>1, <2>3, <2>4, <2>6 DEF CopyOK, Finalizing, storage, AllAuthzsValid, SomeAuthzInvalid
  <2>9. SameWork(h)
    BY <2>3 DEF SameWork, Creating, Deciding, Judging
  <2> QED
    BY <2>1, <2>3, <2>5, <2>7, <2>8, <2>9, LocalStep DEF history, HandlerOK
<1> QED
  BY <1>1, <1>2 DEF ReadOrder

\* One round of the loop over the authorizations.
LEMMA CheckAuthorizationStep ==
  ASSUME IInv, NEW h \in Handlers, CheckAuthorization(h)
  PROVE  IInv'
<1> DEFINE o == loc[h].o
<1>1. /\ pc[h] = "checkAuthz" /\ HandlerOK(h) /\ TypeOK /\ UNCHANGED <<storage, history>>
      /\ loc[h] \in Locals /\ o \in OrderIds /\ Exists(o)
      /\ loc[h].ord \in Orders /\ loc[h].ord.n = order[o].n
      /\ loc[h].i \in 1 .. MaxIdents /\ loc[h].ord.n \in 0 .. MaxIdents
      /\ loc[h].i <= loc[h].ord.n
  BY DEF CheckAuthorization, IInv, HandlerOK, LocalsOK, CreatorOK, CopyOK, TypeOK, Creating,
         Copying, Locals, Orders
<1>2. PICK seen \in {authz[Id(h)].status, "error"} :
        LET ready == IF AllValid(h, seen) THEN "ready" ELSE loc[h].ord.status
        IN  \/ /\ seen = "invalid"
               /\ Local(h, [loc[h] EXCEPT !.ord.status = "invalid"])
               /\ Goto(h, "writeOrder")
            \/ /\ seen # "invalid" /\ ~LastRound(h)
               /\ Local(h, [loc[h] EXCEPT !.i = @ + 1, !.allValid = AllValid(h, seen)])
               /\ UNCHANGED pc
            \/ /\ seen # "invalid" /\ LastRound(h)
               /\ Local(h, [loc[h] EXCEPT !.allValid = AllValid(h, seen), !.ord.status = ready])
               /\ Goto(h, "writeOrder")
  BY DEF CheckAuthorization
<1>3. /\ AllValid(h, seen) \in BOOLEAN
      /\ AllValid(h, seen) =>
           \A j \in 1 .. loc[h].i : authz[<<o, j>>].status = "valid"
  <2>1. AllValid(h, seen) => loc[h].allValid /\ authz[<<o, loc[h].i>>].status = "valid"
    BY <1>2 DEF AllValid, Id
  <2>2. loc[h].allValid => \A j \in 1 .. loc[h].i - 1 : authz[<<o, j>>].status = "valid"
    BY <1>1 DEF HandlerOK, CopyOK
  <2>3. \A j \in 1 .. loc[h].i : j \in 1 .. loc[h].i - 1 \/ j = loc[h].i
    BY <1>1, OrderFlowAssumption
  <2>4. AllValid(h, seen) \in BOOLEAN
    BY <1>1 DEF AllValid, Locals
  <2> QED
    BY <2>1, <2>2, <2>3, <2>4
<1>4. PICK p \in {"checkAuthz", "writeOrder"}, l \in Locals :
        /\ Goto(h, p) /\ Local(h, l)
        /\ l.o = o /\ l.acct = loc[h].acct
        /\ l.ord.n = loc[h].ord.n /\ l.i <= l.ord.n
        /\ l.ord.status \in {"pending", "ready", "invalid"}
        /\ l.ord.status = "ready" => AllAuthzsValid(o)
        /\ l.ord.status = "invalid" => SomeAuthzInvalid(o)
        /\ p = "checkAuthz" /\ l.allValid =>
             \A j \in 1 .. l.i - 1 : authz[<<o, j>>].status = "valid"
  <2>1. /\ loc[h].ord.status \in {"pending", "ready", "invalid"}
        /\ loc[h].ord.status = "ready" => AllAuthzsValid(o)
        /\ loc[h].ord.status = "invalid" => SomeAuthzInvalid(o)
    BY <1>1 DEF HandlerOK, CopyOK
  <2>2. CASE /\ seen = "invalid"
             /\ Local(h, [loc[h] EXCEPT !.ord.status = "invalid"])
             /\ Goto(h, "writeOrder")
    <3> DEFINE l == [loc[h] EXCEPT !.ord.status = "invalid"]
    <3>1. /\ l \in Locals /\ l.o = o /\ l.acct = loc[h].acct /\ l.i = loc[h].i
          /\ l.ord.n = loc[h].ord.n /\ l.ord.status = "invalid"
      BY <1>1 DEF Locals, Orders
    <3>2. SomeAuthzInvalid(o)
      BY <1>1, <1>2, <2>2, OrderFlowAssumption DEF Id, SomeAuthzInvalid
    <3> QED
      BY <1>1, <2>2, <3>1, <3>2
  <2>3. CASE /\ seen # "invalid" /\ ~LastRound(h)
             /\ Local(h, [loc[h] EXCEPT !.i = @ + 1, !.allValid = AllValid(h, seen)])
             /\ UNCHANGED pc
    <3> DEFINE l == [loc[h] EXCEPT !.i = @ + 1, !.allValid = AllValid(h, seen)]
    <3>1. loc[h].i + 1 \in 1 .. MaxIdents /\ loc[h].i + 1 <= loc[h].ord.n
      BY <1>1, <2>3, OrderFlowAssumption DEF LastRound
    <3>2. /\ l \in Locals /\ l.o = o /\ l.acct = loc[h].acct /\ l.i = loc[h].i + 1
          /\ l.ord = loc[h].ord /\ l.allValid = AllValid(h, seen)
      BY <1>1, <1>3, <3>1 DEF Locals
    <3>3. l.i - 1 = loc[h].i
      BY <1>1, <3>2, OrderFlowAssumption
    <3> QED
      BY <1>1, <1>3, <2>1, <2>3, <3>1, <3>2, <3>3, Stay
  <2>4. CASE /\ seen # "invalid" /\ LastRound(h)
             /\ Local(h, [loc[h] EXCEPT !.allValid = AllValid(h, seen),
                            !.ord.status = IF AllValid(h, seen) THEN "ready"
                                           ELSE loc[h].ord.status])
             /\ Goto(h, "writeOrder")
    <3> DEFINE ready == IF AllValid(h, seen) THEN "ready" ELSE loc[h].ord.status
               l == [loc[h] EXCEPT !.allValid = AllValid(h, seen), !.ord.status = ready]
    <3>1. ready \in {"pending", "ready", "invalid"}
      BY <2>1
    <3>2. /\ l \in Locals /\ l.o = o /\ l.acct = loc[h].acct /\ l.i = loc[h].i
          /\ l.ord.n = loc[h].ord.n /\ l.ord.status = ready
      BY <1>1, <1>3, <3>1 DEF Locals, Orders
    <3>3. AllValid(h, seen) => AllAuthzsValid(o)
      BY <1>1, <1>3, <2>4 DEF LastRound, AllAuthzsValid
    <3> QED
      BY <1>1, <2>1, <2>4, <3>1, <3>2, <3>3
  <2> QED
    BY <1>2, <2>2, <2>3, <2>4
<1>5. /\ pc' \in [Handlers -> Pcs] /\ loc' \in [Handlers -> Locals]
      /\ pc'[h] = p /\ loc'[h] = l /\ Others(h)
  BY <1>1, <1>4, Move DEF Pcs, Settling
<1>6. TypeOK'
  BY <1>1, <1>5 DEF TypeOK, Pcs, storage, history
<1>7. LocalsOK(h)' /\ CreatorOK(h)' /\ ProcessorOK(h)'
  BY <1>1, <1>4, <1>5
  DEF HandlerOK, LocalsOK, CreatorOK, ProcessorOK, Creating, Judging, Deciding, Finalizing,
      Copying, storage, Exists
<1>8. CopyOK(h)'
  BY <1>1, <1>4, <1>5 DEF CopyOK, Finalizing, storage, AllAuthzsValid, SomeAuthzInvalid
<1>9. SameWork(h)
  BY <1>4, <1>5 DEF SameWork, Creating, Deciding, Judging
<1> QED
  BY <1>1, <1>5, <1>6, <1>7, <1>8, <1>9, LocalStep DEF history, HandlerOK

\* The start of a finalize, on an order read as ready.
LEMMA FinalizeStep ==
  ASSUME IInv, NEW h \in Handlers, NEW a \in Accounts, NEW o \in OrderIds, Finalize(h, a, o)
  PROVE  IInv'
<1> DEFINE l == [NoLocals EXCEPT !.acct = a, !.o = o, !.ord = order[o]]
<1>1. /\ pc[h] = "idle" /\ TypeOK /\ UNCHANGED <<storage, history>>
      /\ order[o].status = "ready" /\ order[o] \in Orders
      /\ Local(h, l) /\ Goto(h, "collect")
  BY DEF Finalize, Finalizable, IInv, TypeOK
<1>2. /\ Exists(o) /\ AllAuthzsValid(o)
      /\ order[o].n >= 1 /\ order[o].n \in Nat
  BY <1>1 DEF IInv, Exists, OrderLast, StatusOK, Orders
<1>3. /\ l \in Locals /\ l.o = o /\ l.acct = a /\ l.ord = order[o] /\ l.i = 1
      /\ "collect" \in Pcs
  <2>1. NoLocals \in Locals /\ NoLocals.i = 1
    BY NoLocalsType DEF NoLocals
  <2> QED
    BY <1>1, <2>1 DEF Locals, Pcs, Finalizing
<1>4. /\ pc' \in [Handlers -> Pcs] /\ loc' \in [Handlers -> Locals]
      /\ pc'[h] = "collect" /\ loc'[h] = l /\ Others(h)
  BY <1>1, <1>3, Move
<1>5. TypeOK'
  BY <1>1, <1>4 DEF TypeOK, Pcs, storage, history
<1>6. HandlerOK(h)'
  BY <1>1, <1>2, <1>3, <1>4
  DEF HandlerOK, LocalsOK, CreatorOK, ProcessorOK, CopyOK, Creating, Judging, Deciding,
      Finalizing, Copying, storage, Exists, AllAuthzsValid
<1>7. SameWork(h)
  BY <1>4 DEF SameWork, Creating, Deciding, Judging
<1> QED
  BY <1>1, <1>4, <1>5, <1>6, <1>7, LocalStep DEF history

\* Collecting the device of one authorization.
LEMMA CollectDeviceStep ==
  ASSUME IInv, NEW h \in Handlers, CollectDevice(h)
  PROVE  IInv'
<1>1. /\ pc[h] = "collect" /\ HandlerOK(h) /\ TypeOK /\ UNCHANGED <<storage, history>>
      /\ loc[h] \in Locals /\ loc[h].o \in OrderIds
      /\ loc[h].i \in 1 .. MaxIdents /\ loc[h].ord.n \in 0 .. MaxIdents
      /\ loc[h].i <= loc[h].ord.n /\ Id(h) \in AuthzIds
  BY DEF CollectDevice, IInv, HandlerOK, LocalsOK, TypeOK, Creating, Copying, Finalizing,
         Locals, Orders, Id, AuthzIds
<1>2. PICK devs \in {loc[h].devs, loc[h].devs \cup {Id(h)}} :
        \/ /\ ~LastRound(h)
           /\ Local(h, [loc[h] EXCEPT !.i = @ + 1, !.devs = devs])
           /\ UNCHANGED pc
        \/ /\ Local(h, [loc[h] EXCEPT !.devs = devs])
           /\ Goto(h, "issue")
  BY DEF CollectDevice
<1>3. PICK p \in {"collect", "issue"}, l \in Locals :
        /\ Goto(h, p) /\ Local(h, l)
        /\ l.o = loc[h].o /\ l.acct = loc[h].acct /\ l.ord = loc[h].ord /\ l.i <= l.ord.n
  <2>1. devs \in SUBSET AuthzIds
    BY <1>1, <1>2 DEF Locals
  <2>2. CASE /\ ~LastRound(h)
             /\ Local(h, [loc[h] EXCEPT !.i = @ + 1, !.devs = devs])
             /\ UNCHANGED pc
    <3> DEFINE l == [loc[h] EXCEPT !.i = @ + 1, !.devs = devs]
    <3>1. loc[h].i + 1 \in 1 .. MaxIdents /\ loc[h].i + 1 <= loc[h].ord.n
      BY <1>1, <2>2, OrderFlowAssumption DEF LastRound
    <3>2. /\ l \in Locals /\ l.o = loc[h].o /\ l.acct = loc[h].acct
          /\ l.ord = loc[h].ord /\ l.i = loc[h].i + 1
      BY <1>1, <2>1, <3>1 DEF Locals
    <3> QED
      BY <1>1, <2>2, <3>1, <3>2, Stay
  <2>3. CASE /\ Local(h, [loc[h] EXCEPT !.devs = devs])
             /\ Goto(h, "issue")
    <3> DEFINE l == [loc[h] EXCEPT !.devs = devs]
    <3>1. /\ l \in Locals /\ l.o = loc[h].o /\ l.acct = loc[h].acct
          /\ l.ord = loc[h].ord /\ l.i = loc[h].i
      BY <1>1, <2>1 DEF Locals
    <3> QED
      BY <1>1, <2>3, <3>1
  <2> QED
    BY <1>2, <2>2, <2>3
<1>4. /\ pc' \in [Handlers -> Pcs] /\ loc' \in [Handlers -> Locals]
      /\ pc'[h] = p /\ loc'[h] = l /\ Others(h)
  BY <1>1, <1>3, Move DEF Pcs, Finalizing
<1>5. TypeOK'
  BY <1>1, <1>4 DEF TypeOK, Pcs, storage, history
<1>6. LocalsOK(h)' /\ CreatorOK(h)' /\ ProcessorOK(h)'
  BY <1>1, <1>3, <1>4
  DEF HandlerOK, LocalsOK, CreatorOK, ProcessorOK, Creating, Judging, Deciding, Finalizing,
      Copying, storage, Exists
<1>7. CopyOK(h)'
  BY <1>1, <1>3, <1>4
  DEF HandlerOK, CopyOK, Finalizing, Copying, Creating, storage, AllAuthzsValid
<1>8. SameWork(h)
  BY <1>3, <1>4 DEF SameWork, Creating, Deciding, Judging
<1> QED
  BY <1>1, <1>4, <1>5, <1>6, <1>7, <1>8, LocalStep DEF history, HandlerOK

\* Calling the observers.
LEMMA NotifyObserversStep ==
  ASSUME IInv, NEW h \in Handlers, NotifyObservers(h)
  PROVE  IInv'
<1>1. /\ pc[h] = "notify" /\ HandlerOK(h) /\ TypeOK /\ loc[h] \in Locals
      /\ UNCHANGED <<storage, loc, used, approved>>
      /\ notified' = notified \cup {loc[h].ord.cert}
      /\ Goto(h, "reread") /\ Local(h, loc[h])
  BY Stay DEF NotifyObservers, IInv, TypeOK
<1>2. /\ pc' \in [Handlers -> Pcs] /\ loc' \in [Handlers -> Locals]
      /\ pc'[h] = "reread" /\ loc'[h] = loc[h] /\ Others(h)
  BY <1>1, Move DEF Pcs, Answering
<1>3. TypeOK'
  BY <1>1, <1>2 DEF HandlerOK, LocalsOK, TypeOK, Pcs, storage
<1>4. HandlerOK(h)'
  BY <1>1, <1>2
  DEF HandlerOK, LocalsOK, CreatorOK, ProcessorOK, CopyOK, Creating, Judging, Deciding,
      Finalizing, Copying, storage, Exists
<1>5. SameWork(h)
  BY <1>2 DEF SameWork, Creating, Deciding, Judging
<1> QED
  BY <1>1, <1>2, <1>3, <1>4, <1>5, LocalStep

\* Reading the order for the answer.
LEMMA RereadOrderStep ==
  ASSUME IInv, NEW h \in Handlers, RereadOrder(h)
  PROVE  IInv'
<1>1. CASE Finish(h)
  BY <1>1, FinishOnly DEF RereadOrder
<1>2. CASE /\ Local(h, [loc[h] EXCEPT !.ord = order[loc[h].o]])
           /\ Goto(h, "answer")
  <2> DEFINE l == [loc[h] EXCEPT !.ord = order[loc[h].o]]
  <2>1. /\ pc[h] = "reread" /\ HandlerOK(h) /\ TypeOK /\ UNCHANGED <<storage, history>>
        /\ loc[h] \in Locals /\ loc[h].o \in OrderIds /\ order[loc[h].o] \in Orders
    BY DEF RereadOrder, IInv, HandlerOK, LocalsOK, TypeOK
  <2>2. l \in Locals /\ l.o = loc[h].o /\ l.acct = loc[h].acct /\ "answer" \in Pcs
    BY <2>1 DEF Locals, Pcs, Answering
  <2>3. /\ pc' \in [Handlers -> Pcs] /\ loc' \in [Handlers -> Locals]
        /\ pc'[h] = "answer" /\ loc'[h] = l /\ Others(h)
    BY <1>2, <2>1, <2>2, Move
  <2>4. TypeOK'
    BY <2>1, <2>3 DEF TypeOK, Pcs, storage, history
  <2>5. HandlerOK(h)'
    BY <2>1, <2>2, <2>3
    DEF HandlerOK, LocalsOK, CreatorOK, ProcessorOK, CopyOK, Creating, Judging, Deciding,
        Finalizing, Copying, storage, Exists
  <2>6. SameWork(h)
    BY <2>3 DEF SameWork, Creating, Deciding, Judging
  <2> QED
    BY <2>1, <2>3, <2>4, <2>5, <2>6, LocalStep DEF history
<1> QED
  BY <1>1, <1>2 DEF RereadOrder

\* Sending the answer.
LEMMA AnswerStep ==
  ASSUME IInv, NEW h \in Handlers, Answer(h)
  PROVE  IInv'
BY FinishOnly DEF Answer

-----------------------------------------------------------------------------
(* createOrder.                                                            *)

\* Taking up a new order, under an id never drawn before.
LEMMA NewOrderStep ==
  ASSUME IInv, NEW h \in Handlers, NEW a \in Accounts, NEW o \in OrderIds,
         NEW n \in 1 .. MaxIdents, NewOrder(h, a, o, n)
  PROVE  IInv'
<1> DEFINE l == [NoLocals EXCEPT
                   !.acct = a, !.o = o,
                   !.az  = [status |-> "pending", acct |-> a, chal |-> "none"],
                   !.ord = [status |-> "pending", acct |-> a, n |-> n, cert |-> None]]
<1>1. /\ pc[h] = "idle" /\ TypeOK /\ o \notin used /\ used' = used \cup {o}
      /\ UNCHANGED <<storage, approved, notified>>
      /\ Local(h, l) /\ Goto(h, "createChallenge")
  BY DEF NewOrder, IInv
<1>2. /\ l \in Locals /\ l.o = o /\ l.acct = a /\ l.i = 1
      /\ l.az.status = "pending" /\ l.ord.status = "pending" /\ l.ord.n = n
      /\ "createChallenge" \in Pcs
  <2>1. NoLocals \in Locals /\ NoLocals.i = 1
    BY NoLocalsType DEF NoLocals
  <2>2. [status |-> "pending", acct |-> a, chal |-> "none"] \in Authzs
    BY DEF Authzs
  <2>3. [status |-> "pending", acct |-> a, n |-> n, cert |-> None] \in Orders
    BY OrderFlowAssumption DEF Orders
  <2> QED
    BY <2>1, <2>2, <2>3 DEF Locals, Pcs, Creating
<1> HIDE DEF l
<1>3. /\ pc' \in [Handlers -> Pcs] /\ loc' \in [Handlers -> Locals]
      /\ pc'[h] = "createChallenge" /\ loc'[h] = l /\ Others(h)
  BY <1>1, <1>2, Move
<1>4. TypeOK'
  BY <1>1, <1>3 DEF TypeOK, Pcs, storage
<1>5. ~Exists(o)
  BY <1>1 DEF IInv, OrderLast
<1>6. OrderLast' /\ AuthzJustified' /\ StatusOK'
  <2>1. OrderLast'
    BY <1>1 DEF IInv, OrderLast, storage, Exists
  <2>2. AuthzJustified' /\ StatusOK'
    BY <1>1 DEF IInv, AuthzJustified, StatusOK, storage, Exists, Stored, AllAuthzsValid,
                SomeAuthzInvalid
  <2> QED
    BY <2>1, <2>2
<1>7. SoleCreator' /\ SoleProcessor'
  <2>1. \A g \in Handlers : g # h /\ pc[g] \in Creating => loc[g].o # o
    BY <1>1 DEF IInv, HandlerOK, CreatorOK
  <2>2. SoleCreator'
    BY <1>2, <1>3, <2>1 DEF IInv, SoleCreator, Others
  <2>3. SoleProcessor'
    BY <1>3 DEF IInv, SoleProcessor, Others, Deciding, Judging, Id
  <2> QED
    BY <2>2, <2>3
<1>8. HandlerOK(h)'
  BY <1>1, <1>2, <1>3, <1>5, OrderFlowAssumption
  DEF HandlerOK, LocalsOK, CreatorOK, ProcessorOK, CopyOK, Creating, Judging, Deciding,
      Finalizing, Copying, storage, Exists
<1>9. ASSUME NEW g \in Handlers, g # h
      PROVE  HandlerOK(g)'
  <2>1. HandlerOK(g) /\ pc'[g] = pc[g] /\ loc'[g] = loc[g]
    BY <1>3, <1>9 DEF IInv, Others
  <2> QED
    BY <1>1, <2>1 DEF HandlerOK, LocalsOK, CreatorOK, ProcessorOK, CopyOK, storage, Exists, Id,
                AllAuthzsValid, SomeAuthzInvalid
<1> QED
  BY <1>4, <1>6, <1>7, <1>8, <1>9 DEF IInv

\* A request that creates an order is in charge of no challenge, and no request
\* is in charge of one of its order.
LEMMA NobodyDecides ==
  ASSUME IInv, NEW h \in Handlers, pc[h] \in Creating
  PROVE  \A g \in Handlers : pc[g] \in Deciding => Id(g) # Id(h)
<1>1. \A g \in Handlers : pc[g] \in Deciding => Exists(loc[g].o)
  BY DEF IInv, HandlerOK, CreatorOK, Deciding, Judging, Creating
<1>2. ~Exists(loc[h].o)
  BY DEF IInv, HandlerOK, CreatorOK
<1> QED
  BY <1>1, <1>2 DEF Id

\* Creating a challenge of an order that does not exist yet.
LEMMA CreateChallengeStep ==
  ASSUME IInv, NEW h \in Handlers, CreateChallenge(h)
  PROVE  IInv'
<1> DEFINE c == [status |-> "pending", att |-> NoAttestation]
<1>1. /\ pc[h] = "createChallenge" /\ HandlerOK(h) /\ TypeOK /\ loc[h] \in Locals
      /\ loc[h].o \in OrderIds /\ loc[h].i \in 1 .. MaxIdents /\ ~Exists(loc[h].o)
      /\ UNCHANGED <<authz, order, cert, history>>
  BY DEF CreateChallenge, IInv, HandlerOK, LocalsOK, CreatorOK, TypeOK, Creating, Locals
<1>2. Id(h) \in AuthzIds /\ authz[Id(h)].status \notin Final
  BY <1>1 DEF Id, AuthzIds, IInv, OrderLast, Final
<1>3. CASE MayFail /\ Finish(h) /\ UNCHANGED challenge
  BY <1>1, <1>3, FinishOnly DEF storage
<1>4. ASSUME NEW chal \in {"pending", "none"},
             Local(h, [loc[h] EXCEPT !.az.chal = chal]), Goto(h, "createAuthz")
      PROVE  /\ pc' \in [Handlers -> Pcs] /\ loc' \in [Handlers -> Locals]
             /\ Others(h) /\ HandlerOK(h)' /\ SameWork(h)
  <2> DEFINE l == [loc[h] EXCEPT !.az.chal = chal]
  <2>1. /\ l \in Locals /\ l.o = loc[h].o /\ l.acct = loc[h].acct /\ l.i = loc[h].i
        /\ l.ord = loc[h].ord /\ l.az.status = loc[h].az.status
    BY <1>1 DEF Locals, Authzs, ChallengeStates
  <2>2. /\ pc' \in [Handlers -> Pcs] /\ loc' \in [Handlers -> Locals]
        /\ pc'[h] = "createAuthz" /\ loc'[h] = l /\ Others(h)
    BY <1>1, <1>4, <2>1, Move DEF Pcs, Creating
  <2>3. HandlerOK(h)'
    BY <1>1, <2>1, <2>2
    DEF HandlerOK, LocalsOK, CreatorOK, ProcessorOK, CopyOK, Creating, Judging, Deciding,
        Finalizing, Copying, Exists, history
  <2>4. SameWork(h)
    BY <1>1, <2>1, <2>2 DEF SameWork, Creating, Deciding, Judging
  <2> QED
    BY <2>2, <2>3, <2>4
<1>5. CASE /\ challenge' = [challenge EXCEPT ![Id(h)] = c]
           /\ Local(h, [loc[h] EXCEPT !.az.chal = "pending"])
           /\ Goto(h, "createAuthz")
  <2>1. /\ pc' \in [Handlers -> Pcs] /\ loc' \in [Handlers -> Locals]
        /\ Others(h) /\ HandlerOK(h)' /\ SameWork(h)
    BY <1>4, <1>5
  <2>2. c \in Challenges
    <3>1. NoAttestation \in Statements
      BY DEF NoAttestation, Statements
    <3> QED
      BY <3>1 DEF Challenges, ChallengeStates
  <2>3. TypeOK'
    BY <1>1, <1>5, <2>1, <2>2 DEF TypeOK, Pcs, history
  <2>4. SoleCreator' /\ SoleProcessor'
    BY <2>1, StillSole
  <2>5. \A g \in Handlers : g # h /\ pc[g] \in Deciding => Id(g) # Id(h)
    BY <1>1, NobodyDecides DEF Creating
  <2> QED
    BY <1>1, <1>2, <1>5, <2>1, <2>2, <2>3, <2>4, <2>5, ChallengeStep
<1>6. CASE /\ Local(h, [loc[h] EXCEPT !.az.chal = "none"])
           /\ Goto(h, "createAuthz")
           /\ UNCHANGED challenge
  <2>1. /\ pc' \in [Handlers -> Pcs] /\ loc' \in [Handlers -> Locals]
        /\ Others(h) /\ HandlerOK(h)' /\ SameWork(h)
    BY <1>4, <1>6
  <2>2. TypeOK'
    BY <1>1, <1>6, <2>1 DEF TypeOK, Pcs, history
  <2> QED
    BY <1>1, <1>6, <2>1, <2>2, LocalStep DEF storage, history
<1> QED
  <2>1. \/ /\ challenge' = [challenge EXCEPT ![Id(h)] = c]
           /\ Local(h, [loc[h] EXCEPT !.az.chal = "pending"])
           /\ Goto(h, "createAuthz")
        \/ /\ Local(h, [loc[h] EXCEPT !.az.chal = "none"])
           /\ Goto(h, "createAuthz")
           /\ UNCHANGED challenge
        \/ MayFail /\ Finish(h) /\ UNCHANGED challenge
    BY DEF CreateChallenge
  <2> QED
    BY <1>3, <1>5, <1>6, <2>1

\* Creating an authorization of an order that does not exist yet.
LEMMA CreateAuthorizationStep ==
  ASSUME IInv, NEW h \in Handlers, CreateAuthorization(h)
  PROVE  IInv'
<1> DEFINE o == loc[h].o
           i == loc[h].i
<1>1. /\ pc[h] = "createAuthz" /\ HandlerOK(h) /\ TypeOK /\ loc[h] \in Locals
      /\ o \in OrderIds /\ i \in 1 .. MaxIdents /\ ~Exists(o) /\ o \in used
      /\ loc[h].az \in Authzs /\ loc[h].az.status = "pending"
      /\ loc[h].ord.n \in 0 .. MaxIdents /\ i <= loc[h].ord.n
      /\ Id(h) = <<o, i>>
      /\ UNCHANGED <<challenge, order, cert, history>>
  BY DEF CreateAuthorization, IInv, HandlerOK, LocalsOK, CreatorOK, TypeOK, Creating, Copying,
         Locals, Orders, Id
<1>2. CASE MayFail /\ Finish(h) /\ UNCHANGED authz
  BY <1>1, <1>2, FinishOnly DEF storage
<1>3. CASE /\ authz' = [authz EXCEPT ![Id(h)] = loc[h].az]
           /\ \/ /\ ~LastRound(h)
                 /\ Local(h, [loc[h] EXCEPT !.i = @ + 1])
                 /\ Goto(h, "createChallenge")
              \/ /\ LastRound(h)
                 /\ Goto(h, "createOrder")
                 /\ UNCHANGED loc
  <2>1. PICK p \in {"createChallenge", "createOrder"}, l \in Locals :
          /\ Goto(h, p) /\ Local(h, l)
          /\ l.o = o /\ l.acct = loc[h].acct /\ l.az = loc[h].az /\ l.ord = loc[h].ord
          /\ l.i <= l.ord.n
    <3>1. CASE ~LastRound(h) /\ Local(h, [loc[h] EXCEPT !.i = @ + 1]) /\ Goto(h, "createChallenge")
      <4> DEFINE l == [loc[h] EXCEPT !.i = @ + 1]
      <4>1. i + 1 \in 1 .. MaxIdents /\ i + 1 <= loc[h].ord.n
        BY <1>1, <3>1, OrderFlowAssumption DEF LastRound
      <4>2. /\ l \in Locals /\ l.o = o /\ l.acct = loc[h].acct /\ l.az = loc[h].az
            /\ l.ord = loc[h].ord /\ l.i = i + 1
        BY <1>1, <4>1 DEF Locals
      <4> QED
        BY <3>1, <4>1, <4>2
    <3>2. CASE Goto(h, "createOrder") /\ UNCHANGED loc
      BY <1>1, <3>2, Stay
    <3> QED
      BY <1>3, <3>1, <3>2
  <2>2. /\ pc' \in [Handlers -> Pcs] /\ loc' \in [Handlers -> Locals]
        /\ pc'[h] = p /\ loc'[h] = l /\ Others(h)
    BY <1>1, <2>1, Move DEF Pcs, Creating
  <2>3. TypeOK'
    BY <1>1, <1>3, <2>2 DEF TypeOK, Pcs, history
  <2>4. HandlerOK(h)'
    BY <1>1, <2>1, <2>2
    DEF HandlerOK, LocalsOK, CreatorOK, ProcessorOK, CopyOK, Creating, Judging, Deciding,
        Finalizing, Copying, Exists, history
  <2>5. SoleCreator' /\ SoleProcessor'
    <3>1. SameWork(h)
      BY <1>1, <2>1, <2>2 DEF SameWork, Creating, Deciding, Judging
    <3> QED
      BY <2>2, <3>1, StillSole
  <2>6. \A g \in Handlers : g # h /\ pc[g] \in Deciding => Id(g) # <<o, i>>
    BY <1>1, NobodyDecides DEF Creating
  <2>7. authz[<<o, i>>].status \notin Final
    BY <1>1 DEF IInv, OrderLast, Final
  <2> QED
    BY <1>1, <1>3, <2>2, <2>3, <2>4, <2>5, <2>6, <2>7, AuthzStep DEF Final
<1> QED
  BY <1>2, <1>3 DEF CreateAuthorization

\* Creating the order, last of all.
LEMMA CreateOrderStep ==
  ASSUME IInv, NEW h \in Handlers, CreateOrder(h)
  PROVE  IInv'
<1> DEFINE o == loc[h].o
           r == loc[h].ord
<1>1. /\ pc[h] = "createOrder" /\ HandlerOK(h) /\ TypeOK
      /\ o \in OrderIds /\ ~Exists(o) /\ o \in used
      /\ r \in Orders /\ r.status = "pending" /\ r.n >= 1
      /\ Finish(h) /\ UNCHANGED <<challenge, authz, cert, history>>
  <2>1. /\ pc[h] = "createOrder" /\ HandlerOK(h) /\ TypeOK /\ loc[h] \in Locals
        /\ o \in OrderIds /\ ~Exists(o) /\ o \in used /\ r.status = "pending"
        /\ loc[h].i <= r.n /\ Finish(h) /\ UNCHANGED <<challenge, authz, cert, history>>
    BY DEF CreateOrder, IInv, HandlerOK, LocalsOK, CreatorOK, TypeOK, Creating, Copying
  <2> QED
    BY <2>1, OrderFlowAssumption DEF Locals, Orders
<1>2. CASE UNCHANGED order
  BY <1>1, <1>2, FinishOnly DEF storage
<1>3. CASE order' = [order EXCEPT ![o] = r]
  <2>1. /\ pc' \in [Handlers -> Pcs] /\ loc' \in [Handlers -> Locals]
        /\ Others(h) /\ HandlerOK(h)' /\ SameWork(h)
    BY <1>1, FinishMove
  <2>2. TypeOK'
    BY <1>1, <1>3, <2>1 DEF TypeOK, Pcs, history
  <2>3. SoleCreator' /\ SoleProcessor'
    BY <2>1, StillSole
  <2>4. \A g \in Handlers : g # h /\ pc[g] \in Creating => loc[g].o # o
    BY <1>1 DEF IInv, SoleCreator, Creating
  <2> QED
    BY <1>1, <1>3, <2>1, <2>2, <2>3, <2>4, OrderStep
<1> QED
  BY <1>2, <1>3 DEF CreateOrder

-----------------------------------------------------------------------------
(* The response to a challenge.                                            *)

\* Taking a pending challenge into processing, which nobody has done before.
LEMMA SetChallengeProcessingStep ==
  ASSUME IInv, NEW h \in Handlers, NEW a \in Accounts, NEW id \in AuthzIds,
         NEW sub \in Submissions, SetChallengeProcessing(h, a, id, sub)
  PROVE  IInv'
<1> DEFINE c == [challenge[id] EXCEPT !.status = "processing"]
           l == [NoLocals EXCEPT !.acct = a, !.o = id[1], !.i = id[2], !.sub = sub]
<1>1. /\ pc[h] = "idle" /\ TypeOK /\ Exists(id[1]) /\ authz[id].acct = a
      /\ challenge[id].status = "pending" /\ challenge' = [challenge EXCEPT ![id] = c]
      /\ Local(h, l) /\ Goto(h, "judge") /\ UNCHANGED <<authz, order, cert, history>>
  BY DEF SetChallengeProcessing, UpdateChallengeStatus, IInv, Exists
<1>2. /\ id[1] \in OrderIds /\ id[2] \in 1 .. MaxIdents /\ id = <<id[1], id[2]>>
      /\ c \in Challenges /\ c.status = "processing"
  BY <1>1 DEF AuthzIds, TypeOK, Challenges, ChallengeStates
<1>3. authz[id].status = "pending"
  <2>1. authz[id].status \notin Final
    BY <1>1 DEF IInv, AuthzJustified, Final
  <2>2. authz[id].status # "absent"
    BY <1>1, <1>2, OrderFlowAssumption DEF IInv, OrderLast
  <2>3. authz[id] \in Authzs
    BY <1>1 DEF TypeOK
  <2> QED
    BY <2>1, <2>2, <2>3 DEF Authzs, Final
<1>4. /\ l \in Locals /\ l.o = id[1] /\ l.i = id[2] /\ l.acct = a /\ l.sub = sub
      /\ "judge" \in Pcs
  BY <1>2, NoLocalsType DEF Locals, Pcs, Deciding, Judging
<1> HIDE DEF c, l
<1>5. /\ pc' \in [Handlers -> Pcs] /\ loc' \in [Handlers -> Locals]
      /\ pc'[h] = "judge" /\ loc'[h] = l /\ Others(h) /\ Id(h)' = id
  <2>1. /\ pc' \in [Handlers -> Pcs] /\ loc' \in [Handlers -> Locals]
        /\ pc'[h] = "judge" /\ loc'[h] = l /\ Others(h)
    BY <1>1, <1>4, Move
  <2> QED
    BY <1>2, <1>4, <2>1 DEF Id
<1>6. TypeOK'
  BY <1>1, <1>2, <1>5 DEF TypeOK, Pcs, history
<1>7. \A g \in Handlers : g # h /\ pc[g] \in Deciding => Id(g) # id
  BY <1>1 DEF IInv, HandlerOK, ProcessorOK
<1>8. SoleCreator' /\ SoleProcessor'
  <2>1. SoleCreator'
    BY <1>5 DEF IInv, SoleCreator, Others, Creating
  <2>2. \A g \in Handlers : g # h => pc'[g] = pc[g] /\ Id(g)' = Id(g)
    BY <1>5 DEF Others, Id
  <2>3. SoleProcessor'
    BY <1>5, <1>7, <2>2 DEF IInv, SoleProcessor
  <2> QED
    BY <2>1, <2>3
<1>9. HandlerOK(h)'
  <2>1. challenge'[id].status = "processing" /\ authz'[id].status = "pending"
    BY <1>1, <1>2, <1>3 DEF TypeOK
  <2>2. Exists(id[1])'
    BY <1>1 DEF Exists
  <2> QED
    BY <1>2, <1>4, <1>5, <2>1, <2>2
    DEF HandlerOK, LocalsOK, CreatorOK, ProcessorOK, CopyOK, Creating, Judging, Deciding,
        Finalizing, Copying
<1> QED
  BY <1>1, <1>2, <1>3, <1>5, <1>6, <1>7, <1>8, <1>9, ChallengeStep DEF Final

\* Nobody else is in charge of the challenge of a request that is.
LEMMA InCharge ==
  ASSUME IInv, NEW h \in Handlers, pc[h] \in Deciding
  PROVE  /\ HandlerOK(h) /\ TypeOK /\ loc[h] \in Locals
         /\ loc[h].o \in OrderIds /\ loc[h].i \in 1 .. MaxIdents /\ Exists(loc[h].o)
         /\ loc[h].o \in used
         /\ Id(h) = <<loc[h].o, loc[h].i>> /\ Id(h) \in AuthzIds
         /\ authz[Id(h)].status \notin Final
         /\ \A g \in Handlers : g # h /\ pc[g] \in Deciding => Id(g) # Id(h)
<1>1. /\ HandlerOK(h) /\ TypeOK /\ loc[h] \in Locals
      /\ loc[h].o \in OrderIds /\ loc[h].i \in 1 .. MaxIdents /\ Exists(loc[h].o)
  BY DEF IInv, HandlerOK, LocalsOK, CreatorOK, TypeOK, Locals, Deciding, Judging, Creating
<1>2. Id(h) = <<loc[h].o, loc[h].i>> /\ Id(h) \in AuthzIds
  BY <1>1 DEF Id, AuthzIds
<1>3. loc[h].o \in used
  BY <1>1 DEF IInv, OrderLast
<1>4. authz[Id(h)].status \notin Final
  BY <1>1 DEF HandlerOK, ProcessorOK, Final
<1>5. \A g \in Handlers : g # h /\ pc[g] \in Deciding => Id(g) # Id(h)
  BY DEF IInv, SoleProcessor
<1> QED
  BY <1>1, <1>2, <1>3, <1>4, <1>5

\* Recording the verdict on a challenge, or failing to.
LEMMA VerdictStep ==
  ASSUME IInv, NEW h \in Handlers, pc[h] \in Judging, NEW c \in Challenges,
         c.status \in {"processing", "valid", "invalid"},
         c.status = "valid" => Id(h) \in approved,
         challenge' = [challenge EXCEPT ![Id(h)] = c],
         Goto(h, "readAuthz"), UNCHANGED <<authz, order, cert, loc, history>>
  PROVE  IInv'
<1>1. pc[h] \in Deciding /\ pc[h] \notin Creating /\ pc[h] # "idle"
  BY DEF Deciding, Judging, Creating
<1>2. /\ HandlerOK(h) /\ TypeOK /\ loc[h] \in Locals /\ Id(h) \in AuthzIds
      /\ authz[Id(h)].status \notin Final
      /\ \A g \in Handlers : g # h /\ pc[g] \in Deciding => Id(g) # Id(h)
  BY <1>1, InCharge
<1>3. /\ pc' \in [Handlers -> Pcs] /\ loc' \in [Handlers -> Locals]
      /\ pc'[h] = "readAuthz" /\ loc'[h] = loc[h] /\ Others(h) /\ Id(h)' = Id(h)
  <2>1. "readAuthz" \in Pcs /\ Local(h, loc[h])
    BY <1>2, Stay DEF Pcs, Deciding
  <2>2. /\ pc' \in [Handlers -> Pcs] /\ loc' \in [Handlers -> Locals]
        /\ pc'[h] = "readAuthz" /\ loc'[h] = loc[h] /\ Others(h)
    BY <1>2, <2>1, Move
  <2> QED
    BY <2>2 DEF Id
<1>4. TypeOK'
  BY <1>2, <1>3 DEF TypeOK, Pcs, history
<1>5. SoleCreator' /\ SoleProcessor'
  <2>1. SameWork(h)
    BY <1>1, <1>3 DEF SameWork, Creating
  <2> QED
    BY <1>3, <2>1, StillSole
<1>6. HandlerOK(h)'
  <2>1. challenge'[Id(h)] = c
    BY <1>2 DEF TypeOK
  <2> QED
    BY <1>1, <1>2, <1>3, <2>1
    DEF HandlerOK, LocalsOK, CreatorOK, ProcessorOK, CopyOK, Creating, Judging, Deciding,
        Finalizing, Copying, Exists
<1> QED
  BY <1>2, <1>3, <1>4, <1>5, <1>6, ChallengeStep

\* What is stored of a statement is a statement.
LEMMA AsStoredType == ASSUME NEW att \in Statements PROVE AsStored(att) \in Statements
BY DEF AsStored, Statements

\* Recording that the challenge is valid.
LEMMA SetChallengeValidStep ==
  ASSUME IInv, NEW h \in Handlers, SetChallengeValid(h)
  PROVE  IInv'
<1> DEFINE c == [status |-> "valid", att |-> AsStored(loc[h].sub.att)]
<1>1. pc[h] = "setValid" /\ UNCHANGED <<authz, order, cert, history>>
  BY DEF SetChallengeValid
<1>2. CASE Finish(h) /\ UNCHANGED challenge
  BY <1>1, <1>2, FinishOnly DEF storage
<1>3. CASE /\ challenge' = [challenge EXCEPT ![Id(h)] = c]
           /\ Goto(h, "readAuthz") /\ UNCHANGED loc
  <2>1. /\ loc[h].sub \in Submissions /\ Id(h) \in approved /\ pc[h] \in Judging
    BY <1>1 DEF IInv, HandlerOK, LocalsOK, ProcessorOK, Judging
  <2>2. loc[h].sub.att \in Statements
    BY <2>1, OrderFlowAssumption
  <2>3. c \in Challenges
    BY <2>2, AsStoredType DEF Challenges, ChallengeStates
  <2> QED
    BY <1>1, <1>3, <2>1, <2>3, VerdictStep
<1> QED
  BY <1>2, <1>3 DEF SetChallengeValid, UpdateChallengeStatus

\* Recording that the challenge is invalid.
LEMMA SetChallengeInvalidStep ==
  ASSUME IInv, NEW h \in Handlers, SetChallengeInvalid(h)
  PROVE  IInv'
<1> DEFINE c == [challenge[Id(h)] EXCEPT !.status = "invalid"]
<1>1. /\ pc[h] = "setInvalid" /\ Goto(h, "readAuthz") /\ UNCHANGED <<authz, order, cert, loc, history>>
  BY DEF SetChallengeInvalid
<1>2. pc[h] \in Deciding /\ pc[h] \in Judging
  BY <1>1 DEF Deciding, Judging
<1>3. challenge[Id(h)] \in Challenges /\ challenge[Id(h)].status = "processing" /\ TypeOK
  BY <1>2, InCharge DEF HandlerOK, ProcessorOK, TypeOK
<1>4. CASE UNCHANGED challenge
  <2>1. challenge' = [challenge EXCEPT ![Id(h)] = challenge[Id(h)]]
    BY <1>3, <1>4 DEF TypeOK
  <2> QED
    BY <1>1, <1>2, <1>3, <2>1, VerdictStep
<1>5. CASE challenge' = [challenge EXCEPT ![Id(h)] = c]
  <2>1. c \in Challenges /\ c.status = "invalid"
    BY <1>3 DEF Challenges, ChallengeStates
  <2> QED
    BY <1>1, <1>2, <1>5, <2>1, VerdictStep
<1> QED
  BY <1>4, <1>5 DEF SetChallengeInvalid, UpdateChallengeStatus

\* Writing the authorization back, decided or not.
LEMMA UpdateAuthorizationStep ==
  ASSUME IInv, NEW h \in Handlers, UpdateAuthorization(h)
  PROVE  IInv'
<1> DEFINE o == loc[h].o
           i == loc[h].i
           a == loc[h].az
<1>1. pc[h] = "writeAuthz" /\ pc[h] \in Deciding /\ UNCHANGED <<challenge, order, cert, history>>
  BY DEF UpdateAuthorization, Deciding
<1>2. /\ HandlerOK(h) /\ TypeOK /\ loc[h] \in Locals
      /\ o \in OrderIds /\ i \in 1 .. MaxIdents /\ Exists(o) /\ o \in used
      /\ Id(h) = <<o, i>> /\ authz[Id(h)].status \notin Final
      /\ \A g \in Handlers : g # h /\ pc[g] \in Deciding => Id(g) # Id(h)
  BY <1>1, InCharge
<1>3. /\ pc' \in [Handlers -> Pcs] /\ loc' \in [Handlers -> Locals]
      /\ Others(h) /\ HandlerOK(h)' /\ SameWork(h)
  <2>1. CASE Finish(h)
    BY <2>1, FinishMove
  <2>2. CASE Goto(h, "readOrder") /\ UNCHANGED loc
    <3>1. "readOrder" \in Pcs /\ Local(h, loc[h])
      BY <1>2, <2>2, Stay DEF Pcs, Settling
    <3>2. /\ pc' \in [Handlers -> Pcs] /\ loc' \in [Handlers -> Locals]
          /\ pc'[h] = "readOrder" /\ loc'[h] = loc[h] /\ Others(h)
      BY <1>2, <2>2, <3>1, Move
    <3> QED
      BY <1>1, <1>2, <3>2
      DEF HandlerOK, LocalsOK, CreatorOK, ProcessorOK, CopyOK, Creating, Judging, Deciding,
          Finalizing, Copying, Exists, SameWork
  <2> QED
    BY <2>1, <2>2 DEF UpdateAuthorization
<1>4. /\ a \in Authzs /\ a.status # "absent"
      /\ a.status \in Final => challenge[<<o, i>>].status = a.status /\ a.chal = a.status
  BY <1>1, <1>2 DEF HandlerOK, ProcessorOK, Locals
<1>5. SoleCreator' /\ SoleProcessor'
  BY <1>3, StillSole
<1>6. CASE authz' = [authz EXCEPT ![Id(h)] = a]
  <2>1. TypeOK'
    BY <1>1, <1>2, <1>3, <1>4, <1>6 DEF TypeOK, Pcs, history
  <2>2. /\ authz' = [authz EXCEPT ![<<o, i>>] = a] /\ authz[<<o, i>>].status \notin Final
        /\ \A g \in Handlers : g # h /\ pc[g] \in Deciding => Id(g) # <<o, i>>
    BY <1>2, <1>6
  <2> HIDE DEF o, i, a
  <2> QED
    BY <1>1, <1>2, <1>3, <1>4, <1>5, <2>1, <2>2, AuthzStep
<1>7. CASE UNCHANGED authz
  <2>1. TypeOK'
    BY <1>1, <1>2, <1>3, <1>7 DEF TypeOK, Pcs, history
  <2> QED
    BY <1>1, <1>3, <1>7, <2>1, LocalStep DEF storage, history
<1> QED
  BY <1>6, <1>7 DEF UpdateAuthorization

-----------------------------------------------------------------------------
(* Writing the order, and issuing its certificate.                         *)

\* What a request may count on that works on an order that exists.
LEMMA AtWork ==
  ASSUME IInv, NEW h \in Handlers, pc[h] \notin Creating \cup {"idle"}
  PROVE  /\ HandlerOK(h) /\ TypeOK /\ loc[h] \in Locals /\ loc[h].ord \in Orders
         /\ loc[h].acct \in Accounts
         /\ loc[h].o \in OrderIds /\ Exists(loc[h].o) /\ loc[h].o \in used
         /\ order[loc[h].o].n >= 1
         /\ \A g \in Handlers : g # h /\ pc[g] \in Creating => loc[g].o # loc[h].o
<1>1. /\ HandlerOK(h) /\ TypeOK /\ loc[h] \in Locals /\ loc[h].acct \in Accounts
      /\ loc[h].o \in OrderIds /\ Exists(loc[h].o)
  BY DEF IInv, HandlerOK, LocalsOK, CreatorOK, TypeOK
<1>2. loc[h].o \in used /\ order[loc[h].o].n >= 1
  BY <1>1 DEF IInv, OrderLast
<1>3. \A g \in Handlers : g # h /\ pc[g] \in Creating => loc[g].o # loc[h].o
  BY <1>1 DEF IInv, HandlerOK, CreatorOK
<1>4. loc[h].ord \in Orders
  BY <1>1 DEF Locals
<1> QED
  BY <1>1, <1>2, <1>3, <1>4

\* Writing the copy of the order back, stale as it may be.
LEMMA UpdateOrderStep ==
  ASSUME IInv, NEW h \in Handlers, UpdateOrder(h)
  PROVE  IInv'
<1> DEFINE o == loc[h].o
           r == loc[h].ord
<1>1. /\ pc[h] = "writeOrder" /\ pc[h] \notin Creating \cup {"idle"}
      /\ Finish(h) /\ UNCHANGED <<challenge, authz, cert, history>>
  BY DEF UpdateOrder, Creating
<1>2. /\ HandlerOK(h) /\ TypeOK /\ r \in Orders
      /\ o \in OrderIds /\ Exists(o) /\ o \in used /\ order[o].n >= 1
      /\ \A g \in Handlers : g # h /\ pc[g] \in Creating => loc[g].o # o
  BY <1>1, AtWork
<1>3. CASE UNCHANGED order
  BY <1>1, <1>3, FinishOnly DEF storage
<1>4. CASE order' = [order EXCEPT ![o] = r]
  <2>1. /\ pc' \in [Handlers -> Pcs] /\ loc' \in [Handlers -> Locals]
        /\ Others(h) /\ HandlerOK(h)' /\ SameWork(h)
    BY <1>1, FinishMove
  <2>2. TypeOK'
    BY <1>1, <1>2, <1>4, <2>1 DEF TypeOK, Pcs, history
  <2>3. SoleCreator' /\ SoleProcessor'
    BY <2>1, StillSole
  <2>4. /\ r.n = order[o].n
        /\ r.status \in {"pending", "ready", "invalid"}
        /\ r.status = "ready" => AllAuthzsValid(o)
        /\ r.status = "invalid" => SomeAuthzInvalid(o)
    BY <1>1, <1>2 DEF HandlerOK, CopyOK, Copying, Creating
  <2> HIDE DEF o, r
  <2> QED
    BY <1>1, <1>2, <1>4, <2>1, <2>2, <2>3, <2>4, OrderStep
<1> QED
  BY <1>3, <1>4 DEF UpdateOrder

\* The certificate is stored under a serial number that was free, for an order
\* whose authorizations are all valid.
LEMMA IssueCertificateStep ==
  ASSUME IInv, NEW h \in Handlers, IssueCertificate(h)
  PROVE  IInv'
<1> DEFINE o == loc[h].o
<1>1. /\ pc[h] = "issue" /\ pc[h] \notin Creating \cup {"idle"}
      /\ UNCHANGED <<challenge, authz, order, history>>
  BY DEF IssueCertificate, Creating
<1>2. /\ HandlerOK(h) /\ TypeOK /\ loc[h] \in Locals /\ loc[h].ord \in Orders
      /\ o \in OrderIds /\ Exists(o) /\ loc[h].acct \in Accounts
  BY <1>1, AtWork
<1>3. CASE MayFail /\ Finish(h) /\ UNCHANGED cert
  BY <1>1, <1>3, FinishOnly DEF storage
<1>4. CASE \E s \in FreeSerials :
             /\ cert' = [cert EXCEPT ![s] = [order |-> o, acct |-> loc[h].acct, devs |-> loc[h].devs]]
             /\ Local(h, [loc[h] EXCEPT !.ord.status = "valid", !.ord.cert = s])
             /\ Goto(h, "updateOrder")
  <2>1. PICK s \in Serials :
          /\ cert' = [cert EXCEPT ![s] = [order |-> o, acct |-> loc[h].acct, devs |-> loc[h].devs]]
          /\ Local(h, [loc[h] EXCEPT !.ord.status = "valid", !.ord.cert = s])
          /\ Goto(h, "updateOrder")
    BY <1>4 DEF FreeSerials
  <2> DEFINE l == [loc[h] EXCEPT !.ord.status = "valid", !.ord.cert = s]
             c == [order |-> o, acct |-> loc[h].acct, devs |-> loc[h].devs]
  <2>2. /\ c \in Certificates /\ c.order = o
        /\ l.ord = [loc[h].ord EXCEPT !.status = "valid", !.cert = s]
        /\ l.o = o /\ l.acct = loc[h].acct /\ l.i = loc[h].i
    BY <1>2 DEF Certificates, Locals
  <2>3. l.ord \in Orders /\ l.ord.status = "valid" /\ l.ord.cert = s /\ l.ord.n = loc[h].ord.n
    <3>1. ASSUME NEW r \in Orders
          PROVE  LET q == [r EXCEPT !.status = "valid", !.cert = s]
                 IN  q \in Orders /\ q.status = "valid" /\ q.cert = s /\ q.n = r.n
      BY <2>1 DEF Orders
    <3> HIDE DEF l
    <3> QED
      BY <1>2, <2>2, <3>1
  <2>4. l \in Locals /\ "updateOrder" \in Pcs
    BY <1>2, <2>3 DEF Locals, Pcs, Finalizing
  <2> HIDE DEF l, c
  <2>5. /\ pc' \in [Handlers -> Pcs] /\ loc' \in [Handlers -> Locals]
        /\ pc'[h] = "updateOrder" /\ loc'[h] = l /\ Others(h)
    BY <1>2, <2>1, <2>4, Move DEF l
  <2>6. cert' = [cert EXCEPT ![s] = c]
    BY <2>1 DEF c
  <2>7. TypeOK'
    BY <1>1, <1>2, <2>2, <2>5, <2>6 DEF TypeOK, Pcs, history
  <2>8. OrderLast' /\ AuthzJustified'
    BY <1>1 DEF IInv, OrderLast, AuthzJustified, Exists, history
  <2>9. /\ loc[h].ord.n = order[o].n /\ loc[h].i <= loc[h].ord.n /\ AllAuthzsValid(o)
    BY <1>1, <1>2 DEF HandlerOK, LocalsOK, CopyOK, Copying, Finalizing, Creating
  <2>10. StatusOK'
    <3>1. \A t \in Serials : cert'[t] = IF t = s THEN c ELSE cert[t]
      BY <1>2, <2>6 DEF TypeOK
    <3>2. \A p \in OrderIds : AllAuthzsValid(p)' = AllAuthzsValid(p) /\ Exists(p)' = Exists(p)
      BY <1>1 DEF AllAuthzsValid, Exists
    <3>3. \A p \in OrderIds : SomeAuthzInvalid(p)' = SomeAuthzInvalid(p)
      BY <1>1 DEF SomeAuthzInvalid
    <3>4. ASSUME NEW t \in Serials, Stored(t)'
          PROVE  Exists(cert[t].order)' /\ AllAuthzsValid(cert[t].order)'
      <4>1. CASE t = s
        <5>1. cert'[t].order = o
          BY <2>2, <3>1, <4>1
        <5> HIDE DEF o
        <5> QED
          BY <1>1, <1>2, <2>9, <5>1 DEF AllAuthzsValid, Exists
      <4>2. CASE t # s
        <5>1. cert'[t] = cert[t] /\ Stored(t)
          BY <3>1, <3>4, <4>2 DEF Stored
        <5>2. Exists(cert[t].order) /\ AllAuthzsValid(cert[t].order)
          BY <5>1 DEF IInv, StatusOK
        <5> QED
          BY <1>1, <5>1, <5>2 DEF AllAuthzsValid, Exists
      <4> QED
        BY <4>1, <4>2
    <3> QED
      BY <1>1, <3>2, <3>3, <3>4 DEF IInv, StatusOK, history
  <2>11. SoleCreator' /\ SoleProcessor'
    <3>1. SameWork(h)
      BY <2>5 DEF SameWork, Creating, Deciding, Judging
    <3> QED
      BY <2>5, <3>1, StillSole
  <2>12. HandlerOK(h)'
    <3>1. LocalsOK(h)'
      BY <1>1, <1>2, <2>1, <2>2, <2>3, <2>5, <2>9 DEF LocalsOK, Judging
    <3>2. ProcessorOK(h)'
      BY <2>5 DEF ProcessorOK, Judging, Deciding
    <3>3. CreatorOK(h)'
      BY <1>1, <1>2, <2>2, <2>5 DEF CreatorOK, Creating, Exists
    <3>4. CopyOK(h)'
      <4>1. l.ord.n = order'[l.o].n /\ l.ord.status = "valid"
        BY <1>1, <2>2, <2>3, <2>9
      <4>2. \A i \in 1 .. order'[l.o].n : authz'[<<l.o, i>>].status = "valid"
        BY <1>1, <2>2, <2>9 DEF AllAuthzsValid
      <4> QED
        BY <2>5, <4>1, <4>2 DEF CopyOK, AllAuthzsValid, Finalizing, Copying, Creating
    <3> QED
      BY <3>1, <3>2, <3>3, <3>4 DEF HandlerOK
  <2>13. ASSUME NEW g \in Handlers, g # h
         PROVE  HandlerOK(g)'
    <3>1. HandlerOK(g) /\ pc'[g] = pc[g] /\ loc'[g] = loc[g]
      BY <2>5, <2>13 DEF IInv, Others
    <3> QED
      BY <1>1, <3>1 DEF HandlerOK, LocalsOK, CreatorOK, ProcessorOK, CopyOK, history, Exists, Id,
                        AllAuthzsValid, SomeAuthzInvalid
  <2> QED
    BY <2>7, <2>8, <2>10, <2>11, <2>12, <2>13 DEF IInv
<1> QED
  BY <1>3, <1>4 DEF IssueCertificate

\* Writing the finalized order back.
LEMMA UpdateFinalizedOrderStep ==
  ASSUME IInv, NEW h \in Handlers, UpdateFinalizedOrder(h)
  PROVE  IInv'
<1> DEFINE o == loc[h].o
           r == loc[h].ord
<1>1. /\ pc[h] = "updateOrder" /\ pc[h] \notin Creating \cup {"idle"}
      /\ UNCHANGED <<challenge, authz, cert, history>>
  BY DEF UpdateFinalizedOrder, Creating
<1>2. /\ HandlerOK(h) /\ TypeOK /\ loc[h] \in Locals /\ r \in Orders
      /\ o \in OrderIds /\ Exists(o) /\ o \in used /\ order[o].n >= 1
      /\ \A g \in Handlers : g # h /\ pc[g] \in Creating => loc[g].o # o
  BY <1>1, AtWork
<1>3. CASE MayFail /\ Finish(h) /\ UNCHANGED order
  BY <1>1, <1>3, FinishOnly DEF storage
<1>4. CASE order' = [order EXCEPT ![o] = r] /\ Goto(h, "notify") /\ UNCHANGED loc
  <2>1. "notify" \in Pcs /\ Local(h, loc[h])
    BY <1>2, <1>4, Stay DEF Pcs, Answering
  <2>2. /\ pc' \in [Handlers -> Pcs] /\ loc' \in [Handlers -> Locals]
        /\ pc'[h] = "notify" /\ loc'[h] = loc[h] /\ Others(h)
    BY <1>2, <1>4, <2>1, Move
  <2>3. TypeOK'
    BY <1>1, <1>2, <1>4, <2>2 DEF TypeOK, Pcs, history
  <2>4. SoleCreator' /\ SoleProcessor'
    <3>1. SameWork(h)
      BY <2>2 DEF SameWork, Creating, Deciding, Judging
    <3> QED
      BY <2>2, <3>1, StillSole
  <2>5. /\ r.n = order[o].n /\ r.status \in {"ready", "valid"} /\ AllAuthzsValid(o)
        /\ loc[h].acct \in Accounts /\ r.cert \in Serials
    BY <1>1, <1>2 DEF HandlerOK, LocalsOK, CopyOK, Copying, Finalizing, Creating
  <2>6. HandlerOK(h)'
    <3>1. Exists(o)'
      BY <1>2, <1>4, <2>5 DEF Exists, TypeOK
    <3> QED
      BY <1>2, <2>2, <2>5, <3>1
      DEF HandlerOK, LocalsOK, CreatorOK, ProcessorOK, CopyOK, Creating, Judging, Deciding,
          Finalizing, Copying
  <2> HIDE DEF o, r
  <2> QED
    BY <1>1, <1>2, <1>4, <2>2, <2>3, <2>4, <2>5, <2>6, OrderStep
<1> QED
  BY <1>3, <1>4 DEF UpdateFinalizedOrder

-----------------------------------------------------------------------------
(* The invariant.                                                          *)

\* A restart leaves what is stored.
LEMMA CrashStep ==
  ASSUME IInv, Crash
  PROVE  IInv'
<1>1. /\ TypeOK /\ UNCHANGED <<storage, history>>
      /\ \A h \in Handlers : pc'[h] = "idle"
      /\ pc' = [h \in Handlers |-> "idle"] /\ loc' = [h \in Handlers |-> NoLocals]
  BY DEF IInv, Crash
<1>2. TypeOK'
  BY <1>1, NoLocalsType DEF TypeOK, storage, history
<1>3. OrderLast' /\ AuthzJustified' /\ StatusOK'
  BY <1>1 DEF IInv, OrderLast, AuthzJustified, StatusOK, storage, history, Exists, Stored,
              AllAuthzsValid, SomeAuthzInvalid
<1>4. SoleCreator' /\ SoleProcessor'
  BY <1>1 DEF SoleCreator, SoleProcessor, Creating, Deciding, Judging
<1>5. \A h \in Handlers : HandlerOK(h)'
  BY <1>1 DEF HandlerOK, LocalsOK, CreatorOK, ProcessorOK, CopyOK, Creating, Judging, Deciding,
              Finalizing, Copying
<1> QED
  BY <1>2, <1>3, <1>4, <1>5 DEF IInv

\* Nothing is stored and no request is under way at the start.
LEMMA InitIInv == Init => IInv
<1> SUFFICES ASSUME Init PROVE IInv
  OBVIOUS
<1>1. TypeOK
  BY NoLocalsType, OrderFlowAssumption
  DEF Init, TypeOK, NoChallenge, NoAuthz, NoOrder, NoCertificate, NoAttestation, Challenges,
      ChallengeStates, Statements, Authzs, Orders, Certificates
<1>2. OrderLast /\ AuthzJustified
  BY DEF Init, OrderLast, AuthzJustified, Exists, NoOrder, NoAuthz, AuthzIds, Final
<1>3. StatusOK
  BY DEF Init, StatusOK, Stored, NoOrder, NoChallenge, NoCertificate
<1>4. SoleCreator /\ SoleProcessor
  BY DEF Init, SoleCreator, SoleProcessor, Creating, Deciding, Judging
<1>5. \A h \in Handlers : HandlerOK(h)
  BY IdleOK DEF Init
<1> QED
  BY <1>1, <1>2, <1>3, <1>4, <1>5 DEF IInv

\* Every step keeps the invariant.
LEMMA NextStep == IInv /\ [Next]_vars => IInv'
<1> SUFFICES ASSUME IInv, [Next]_vars PROVE IInv'
  OBVIOUS
<1>1. CASE Crash
  BY <1>1, CrashStep
<1>2. ASSUME NEW h \in Handlers, Begin(h)
      PROVE  IInv'
  BY <1>2, NewOrderStep, SetChallengeProcessingStep, FinalizeStep DEF Begin
<1>3. ASSUME NEW h \in Handlers, Continue(h)
      PROVE  IInv'
  <2>1. CASE CreateChallenge(h) \/ CreateAuthorization(h) \/ CreateOrder(h)
    BY <2>1, CreateChallengeStep, CreateAuthorizationStep, CreateOrderStep
  <2>2. CASE Judge(h) \/ SetChallengeValid(h) \/ SetChallengeInvalid(h)
    BY <2>2, JudgeStep, SetChallengeValidStep, SetChallengeInvalidStep
  <2>3. CASE ReadAuthorization(h) \/ RefreshChallenge(h) \/ UpdateAuthorization(h)
    BY <2>3, ReadAuthorizationStep, RefreshChallengeStep, UpdateAuthorizationStep
  <2>4. CASE ReadOrder(h) \/ CheckAuthorization(h) \/ UpdateOrder(h)
    BY <2>4, ReadOrderStep, CheckAuthorizationStep, UpdateOrderStep
  <2>5. CASE CollectDevice(h) \/ IssueCertificate(h) \/ UpdateFinalizedOrder(h)
    BY <2>5, CollectDeviceStep, IssueCertificateStep, UpdateFinalizedOrderStep
  <2>6. CASE NotifyObservers(h) \/ RereadOrder(h) \/ Answer(h)
    BY <2>6, NotifyObserversStep, RereadOrderStep, AnswerStep
  <2> QED
    BY <1>3, <2>1, <2>2, <2>3, <2>4, <2>5, <2>6 DEF Continue
<1>4. CASE UNCHANGED vars
  <2>1. TypeOK' /\ OrderLast' /\ AuthzJustified'
    BY <1>4 DEF vars, storage, history, IInv, TypeOK, OrderLast, AuthzJustified, Exists
  <2>2. StatusOK' /\ SoleCreator' /\ SoleProcessor'
    BY <1>4 DEF vars, storage, history, IInv, StatusOK, SoleCreator, SoleProcessor, Id,
                Exists, Stored, AllAuthzsValid, SomeAuthzInvalid
  <2>3. ASSUME NEW h \in Handlers
        PROVE  HandlerOK(h)'
    <3>1. LocalsOK(h)' /\ CreatorOK(h)' /\ ProcessorOK(h)'
      BY <1>4 DEF vars, storage, history, IInv, HandlerOK, LocalsOK, CreatorOK, ProcessorOK,
                  Exists, Id
    <3>2. CopyOK(h)'
      BY <1>4 DEF vars, storage, IInv, HandlerOK, CopyOK, AllAuthzsValid, SomeAuthzInvalid
    <3> QED
      BY <3>1, <3>2 DEF HandlerOK
  <2> QED
    BY <2>1, <2>2, <2>3 DEF IInv
<1> QED
  BY <1>1, <1>2, <1>3, <1>4 DEF Next

\* The inductive invariant holds in every reachable state, for any number of
\* accounts, orders, identifiers and requests in flight, with failing calls and
\* restarts or without.
THEOREM Invariance == Spec => []IInv
BY InitIInv, NextStep, PTL DEF Spec

\* Every variable keeps its type.
THEOREM TypeCorrect == Spec => []TypeOK
<1>1. IInv => TypeOK
  BY DEF IInv
<1> QED
  BY <1>1, Invariance, PTL

\* The authorizations of an order have ids.
LEMMA AuthzsOfType ==
  ASSUME TypeOK, NEW o \in OrderIds, NEW id \in AuthzsOf(o)
  PROVE  id \in AuthzIds /\ \E i \in 1 .. order[o].n : id = <<o, i>>
<1>1. PICK i \in 1 .. order[o].n : id = <<o, i>>
  BY DEF AuthzsOf
<1>2. order[o].n \in 0 .. MaxIdents
  BY DEF TypeOK, Orders
<1> QED
  BY <1>1, <1>2, OrderFlowAssumption DEF AuthzIds

\* No certificate is ever stored without a verified and authorized attestation
\* for every identifier of its order.
THEOREM IssuanceIsJustified == Spec => []IssuanceJustified
<1>1. IInv => IssuanceJustified
  <2> SUFFICES ASSUME IInv, NEW s \in Serials, Stored(s)
               PROVE  /\ Exists(cert[s].order)
                      /\ \A id \in AuthzsOf(cert[s].order) :
                           authz[id].status = "valid" /\ challenge[id].status = "valid" /\ id \in approved
    BY DEF IssuanceJustified
  <2> DEFINE o == cert[s].order
  <2>1. TypeOK /\ o \in OrderIds /\ Exists(o) /\ AllAuthzsValid(o)
    BY DEF IInv, TypeOK, StatusOK, Stored, Certificates
  <2> HIDE DEF o
  <2>2. ASSUME NEW id \in AuthzsOf(o)
        PROVE  authz[id].status = "valid" /\ challenge[id].status = "valid" /\ id \in approved
    <3>1. id \in AuthzIds /\ authz[id].status = "valid"
      BY <2>1, AuthzsOfType DEF AllAuthzsValid
    <3> QED
      BY <3>1 DEF IInv, AuthzJustified, StatusOK, Final
  <2> QED
    BY <2>1, <2>2 DEF o
<1> QED
  BY <1>1, Invariance, PTL

\* The status an order is given by updateOrderStatus, from authorizations read one
\* at a time and with failing reads, always agrees with its authorizations.
THEOREM OrderIsJustified == Spec => []OrderJustified
<1>1. IInv => OrderJustified
  <2> SUFFICES ASSUME IInv, NEW o \in OrderIds
               PROVE  /\ order[o].status \in {"ready", "valid"} =>
                           \A id \in AuthzsOf(o) : authz[id].status = "valid"
                      /\ order[o].status = "invalid" =>
                           \E id \in AuthzsOf(o) : authz[id].status = "invalid"
    BY DEF OrderJustified
  <2>1. TypeOK
    BY DEF IInv
  <2>2. AllAuthzsValid(o) => \A id \in AuthzsOf(o) : authz[id].status = "valid"
    BY <2>1, AuthzsOfType DEF AllAuthzsValid
  <2>3. SomeAuthzInvalid(o) => \E id \in AuthzsOf(o) : authz[id].status = "invalid"
    BY DEF SomeAuthzInvalid, AuthzsOf
  <2> QED
    BY <2>2, <2>3 DEF IInv, StatusOK
<1> QED
  BY <1>1, Invariance, PTL

\* A decided authorization agrees with its challenge.
THEOREM AuthzIsJustified == Spec => []AuthzJustified
<1>1. IInv => AuthzJustified
  BY DEF IInv
<1> QED
  BY <1>1, Invariance, PTL

\* At most one request is in charge of a challenge.
THEOREM ProcessorIsSole == Spec => []SoleProcessor
<1>1. IInv => SoleProcessor
  BY DEF IInv
<1> QED
  BY <1>1, Invariance, PTL
==============================================================================
