------------------------------ MODULE OrderFlow ------------------------------
(***************************************************************************)
(* The life of an ACME order in nanoca: newOrder, the device-attest-01     *)
(* challenge responses, and finalize, as handlers.go runs them over the    *)
(* Storage interface.                                                      *)
(*                                                                         *)
(* net/http runs every request in a goroutine of its own.  A member of     *)
(* Handlers is one such goroutine: "idle" between requests, otherwise at   *)
(* the storage call pc says, with the local variables of the Go function   *)
(* in loc.  Every storage call is one step, so requests interleave between *)
(* any two of them; the storage call itself is one badger transaction.     *)
(* Requests that only read (GET of an order, authorization, challenge or   *)
(* certificate) and early returns that have changed nothing are no steps.  *)
(***************************************************************************)
EXTENDS Naturals, FiniteSets, AttestationData

CONSTANTS
  Accounts,      \* the ACME accounts
  OrderIds,      \* what generateOrderID may return (bounds the orders)
  MaxIdents,     \* the most identifiers of an order
  Serials,       \* serial numbers of certificates (bounds the issuances)
  Handlers,      \* requests served at the same time
  Submissions,   \* the attestation objects clients send
  Faults,        \* what may go wrong: "error", a storage or issuer call
                 \* returns an error; "crash", the process restarts
  None

ASSUME OrderFlowAssumption ==
  /\ MaxIdents \in Nat \ {0}
  /\ Submissions \subseteq [format : Verifiers, att : Statements]
  /\ Faults \subseteq {"error", "crash"}
  /\ None \notin Accounts /\ None \notin OrderIds /\ None \notin Serials

\* An authorization, and the at most one challenge it has, is named after its
\* order and its place in order.Authorizations.
AuthzIds == OrderIds \X (1 .. MaxIdents)

ChallengeStates == {"pending", "processing", "valid", "invalid"}

Challenges == [status : ChallengeStates \cup {"absent"}, att : Statements]

\* chal is the status in the copy of the challenge that the authorization
\* carries, "none" if the identifier is of a type that has no challenge.
Authzs == [status : {"absent", "pending", "valid", "invalid"},
           acct   : Accounts \cup {None},
           chal   : ChallengeStates \cup {"none"}]

Orders == [status : {"absent", "pending", "ready", "valid", "invalid"},
           acct   : Accounts \cup {None},
           n      : 0 .. MaxIdents,
           cert   : Serials \cup {None}]

\* A stored certificate: the order and account it was issued for, and the
\* authorizations whose device information went into it.
Certificates == [order : OrderIds \cup {None},
                 acct  : Accounts \cup {None},
                 devs  : SUBSET AuthzIds]

NoChallenge   == [status |-> "absent", att |-> NoAttestation]
NoAuthz       == [status |-> "absent", acct |-> None, chal |-> "none"]
NoOrder       == [status |-> "absent", acct |-> None, n |-> 0, cert |-> None]
NoCertificate == [order |-> None, acct |-> None, devs |-> {}]

VARIABLES
  challenge,  \* AuthzIds -> Challenges     the storage, by key
  authz,      \* AuthzIds -> Authzs
  order,      \* OrderIds -> Orders
  cert,       \* Serials -> Certificates
  pc,         \* the storage call a handler makes next
  loc,        \* the local variables of a handler
  used,       \* order ids drawn so far
  approved,   \* history: challenges whose statement was verified and authorized
  notified    \* history: serials the issuance observers were called with

storage == <<challenge, authz, order, cert>>
history == <<used, approved, notified>>
vars    == <<storage, pc, loc, history>>

Locals == [acct     : Accounts \cup {None},   \* the account that signed the request
           o        : OrderIds \cup {None},   \* the order at hand
           i        : 1 .. MaxIdents,         \* the identifier or authorization at hand
           sub      : Submissions \cup {None},
           az       : Authzs,                 \* copy of an authorization
           ord      : Orders,                 \* copy of an order
           allValid : BOOLEAN,
           devs     : SUBSET AuthzIds]

NoLocals == [acct |-> None, o |-> None, i |-> 1, sub |-> None, az |-> NoAuthz,
             ord |-> NoOrder, allValid |-> TRUE, devs |-> {}]

Creating   == {"createChallenge", "createAuthz", "createOrder"}
Judging    == {"judge", "setValid", "setInvalid"}
Deciding   == Judging \cup {"readAuthz", "refreshChallenge", "writeAuthz"}
Settling   == {"readOrder", "checkAuthz", "writeOrder"}
Finalizing == {"collect", "issue", "updateOrder"}
Answering  == {"notify", "reread", "answer"}

TypeOK ==
  /\ challenge \in [AuthzIds -> Challenges]
  /\ authz \in [AuthzIds -> Authzs]
  /\ order \in [OrderIds -> Orders]
  /\ cert \in [Serials -> Certificates]
  /\ pc \in [Handlers -> {"idle"} \cup Creating \cup Deciding \cup Settling
                           \cup Finalizing \cup Answering]
  /\ loc \in [Handlers -> Locals]
  /\ used \subseteq OrderIds
  /\ approved \subseteq AuthzIds
  /\ notified \subseteq Serials

Init ==
  /\ challenge = [id \in AuthzIds |-> NoChallenge]
  /\ authz = [id \in AuthzIds |-> NoAuthz]
  /\ order = [o \in OrderIds |-> NoOrder]
  /\ cert = [s \in Serials |-> NoCertificate]
  /\ pc = [h \in Handlers |-> "idle"]
  /\ loc = [h \in Handlers |-> NoLocals]
  /\ used = {} /\ approved = {} /\ notified = {}

-----------------------------------------------------------------------------
(* Steps of a handler.                                                     *)

MayFail == "error" \in Faults

Id(h) == <<loc[h].o, loc[h].i>>

Goto(h, next) == pc' = [pc EXCEPT ![h] = next]

Local(h, locals) == loc' = [loc EXCEPT ![h] = locals]

\* The handler writes its response and returns.
Finish(h) == Goto(h, "idle") /\ Local(h, NoLocals)

\* Mutant: the loops stop one identifier early.
LastRoundEarly(h) == loc[h].i + 1 >= loc[h].ord.n

\* A loop over the identifiers, or over the authorizations, of the order is in
\* its last round.
LastRound(h) == loc[h].i = loc[h].ord.n

-----------------------------------------------------------------------------
(* createOrder: for every identifier a challenge (if its type has one) and *)
(* an authorization, and the order last of all.                            *)

NewOrder(h, a, o, n) ==
  /\ pc[h] = "idle"
  /\ o \notin used
  /\ used' = used \cup {o}
  /\ Local(h, [NoLocals EXCEPT
                 !.acct = a, !.o = o,
                 !.az  = [status |-> "pending", acct |-> a, chal |-> "none"],
                 !.ord = [status |-> "pending", acct |-> a, n |-> n, cert |-> None]])
  /\ Goto(h, "createChallenge")
  /\ UNCHANGED <<storage, approved, notified>>

\* A permanent-identifier or hardware-module gets a challenge, any other
\* identifier an authorization without one.
CreateChallenge(h) ==
  /\ pc[h] = "createChallenge"
  /\ \/ /\ challenge' = [challenge EXCEPT ![Id(h)] =
                           [status |-> "pending", att |-> NoAttestation]]
        /\ Local(h, [loc[h] EXCEPT !.az.chal = "pending"])
        /\ Goto(h, "createAuthz")
     \/ /\ Local(h, [loc[h] EXCEPT !.az.chal = "none"])
        /\ Goto(h, "createAuthz")
        /\ UNCHANGED challenge
     \/ MayFail /\ Finish(h) /\ UNCHANGED challenge
  /\ UNCHANGED <<authz, order, cert, history>>

CreateAuthorization(h) ==
  /\ pc[h] = "createAuthz"
  /\ \/ /\ authz' = [authz EXCEPT ![Id(h)] = loc[h].az]
        /\ \/ /\ ~LastRound(h)
              /\ Local(h, [loc[h] EXCEPT !.i = @ + 1])
              /\ Goto(h, "createChallenge")
           \/ /\ LastRound(h)
              /\ Goto(h, "createOrder")
              /\ UNCHANGED loc
     \/ MayFail /\ Finish(h) /\ UNCHANGED authz
  /\ UNCHANGED <<challenge, order, cert, history>>

CreateOrder(h) ==
  /\ pc[h] = "createOrder"
  /\ \/ order' = [order EXCEPT ![loc[h].o] = loc[h].ord]
     \/ MayFail /\ UNCHANGED order
  /\ Finish(h)
  /\ UNCHANGED <<challenge, authz, cert, history>>

-----------------------------------------------------------------------------
(* handleChallenge and handleChallengeResponse.                            *)

\* Mutant: the status found in the transaction is not compared.
UpdateChallengeStatusUnchecked(id, expected, new) ==
  challenge' = [challenge EXCEPT ![id] = new]

\* updateChallengeStatus: a compare-and-set in one transaction.
UpdateChallengeStatus(id, expected, new) ==
  /\ challenge[id].status = expected
  /\ challenge' = [challenge EXCEPT ![id] = new]

\* The client knows the challenge from the response to its newOrder.  The reads
\* before SetChallengeProcessing look only at fields that never change.
SetChallengeProcessing(h, a, id, sub) ==
  /\ pc[h] = "idle"
  /\ order[id[1]].status # "absent"
  /\ authz[id].acct = a
  /\ UpdateChallengeStatus(id, "pending", [challenge[id] EXCEPT !.status = "processing"])
  /\ Local(h, [NoLocals EXCEPT !.acct = a, !.o = id[1], !.i = id[2], !.sub = sub])
  /\ Goto(h, "judge")
  /\ UNCHANGED <<authz, order, cert, history>>

\* Mutant: a refused challenge is not recorded as such.
VerdictCallUnrecorded(accepted) == IF accepted THEN "setValid" ELSE "readAuthz"

\* The call that records the verdict.
VerdictCall(accepted) == IF accepted THEN "setValid" ELSE "setInvalid"

\* verifier.Verify, then authorizer.Authorize, whose answer (or error) is the
\* MDM server's.
Judge(h) ==
  /\ pc[h] = "judge"
  /\ \E verified \in VerifyOutcomes(loc[h].sub.format, loc[h].sub.att), authorized \in BOOLEAN :
       /\ Goto(h, VerdictCall(verified /\ authorized))
       /\ approved' = IF verified /\ authorized THEN approved \cup {Id(h)} ELSE approved
  /\ UNCHANGED <<storage, loc, used, notified>>

\* On an error the handler answers 500 and leaves the challenge as it is.
SetChallengeValid(h) ==
  /\ pc[h] = "setValid"
  /\ \/ /\ Encodable(loc[h].sub.att)
        /\ UpdateChallengeStatus(Id(h), "processing",
                                 [status |-> "valid", att |-> AsStored(loc[h].sub.att)])
        /\ Goto(h, "readAuthz")
        /\ UNCHANGED loc
     \/ /\ MayFail \/ ~Encodable(loc[h].sub.att) \/ challenge[Id(h)].status # "processing"
        /\ Finish(h)
        /\ UNCHANGED challenge
  /\ UNCHANGED <<authz, order, cert, history>>

\* On an error the handler goes on with the update of the authorization.
SetChallengeInvalid(h) ==
  /\ pc[h] = "setInvalid"
  /\ \/ UpdateChallengeStatus(Id(h), "processing", [challenge[Id(h)] EXCEPT !.status = "invalid"])
     \/ (MayFail \/ challenge[Id(h)].status # "processing") /\ UNCHANGED challenge
  /\ Goto(h, "readAuthz")
  /\ UNCHANGED <<authz, order, cert, loc, history>>

-----------------------------------------------------------------------------
(* updateAuthorizationStatus.  The authorization has one challenge: the    *)
(* handler comes from a response to it.                                    *)

ReadAuthorization(h) ==
  /\ pc[h] = "readAuthz"
  /\ \/ /\ authz[Id(h)].status = "pending"
        /\ Local(h, [loc[h] EXCEPT !.az = authz[Id(h)]])
        /\ Goto(h, "refreshChallenge")
     \/ (MayFail \/ authz[Id(h)].status # "pending") /\ Finish(h)
  /\ UNCHANGED <<storage, history>>

\* Mutant: an authorization is valid unless its challenge failed.
AuthzStatusOptimistic(c) == IF c = "invalid" THEN c ELSE "valid"

\* Mutant: an authorization takes over any status of its challenge.
AuthzStatusCopied(c) == c

\* The status of an authorization whose challenge has status c.
AuthzStatus(c) == IF c \in {"valid", "invalid"} THEN c ELSE "pending"

RefreshChallenge(h) ==
  /\ pc[h] = "refreshChallenge"
  /\ \/ LET current == challenge[Id(h)].status
        IN  Local(h, [loc[h] EXCEPT !.az.chal = current, !.az.status = AuthzStatus(current)])
     \/ MayFail /\ UNCHANGED loc
  /\ Goto(h, "writeAuthz")
  /\ UNCHANGED <<storage, history>>

\* Mutant: only a valid authorization makes the handler look at the order.
StatusChangedToValid(az) == az.status = "valid"

\* oldStatus # authz.Status: the copy was pending when it was read.
StatusChanged(az) == az.status # "pending"

\* A failed write is logged; the order is looked at all the same.
UpdateAuthorization(h) ==
  /\ pc[h] = "writeAuthz"
  /\ \/ authz' = [authz EXCEPT ![Id(h)] = loc[h].az]
     \/ MayFail /\ UNCHANGED authz
  /\ IF StatusChanged(loc[h].az)
       THEN Goto(h, "readOrder") /\ UNCHANGED loc
       ELSE Finish(h)
  /\ UNCHANGED <<challenge, order, cert, history>>

-----------------------------------------------------------------------------
(* updateOrderStatus, on the copy of the order its caller has read.        *)

Final == {"valid", "invalid"}

\* Mutant: the order is looked at once all its authorizations are decided.
ReadOrderWaiting(h) ==
  /\ pc[h] = "readOrder"
  /\ \A i \in 1 .. order[loc[h].o].n : authz[<<loc[h].o, i>>].status # "pending"
  /\ \/ /\ order[loc[h].o].status \notin Final \cup {"absent"}
        /\ Local(h, [loc[h] EXCEPT !.ord = order[loc[h].o], !.i = 1, !.allValid = TRUE])
        /\ Goto(h, "checkAuthz")
     \/ /\ MayFail \/ order[loc[h].o].status \in Final \cup {"absent"}
        /\ Finish(h)
  /\ UNCHANGED <<storage, history>>

ReadOrder(h) ==
  /\ pc[h] = "readOrder"
  /\ \/ /\ order[loc[h].o].status \notin Final \cup {"absent"}
        /\ Local(h, [loc[h] EXCEPT !.ord = order[loc[h].o], !.i = 1, !.allValid = TRUE])
        /\ Goto(h, "checkAuthz")
     \/ /\ MayFail \/ order[loc[h].o].status \in Final \cup {"absent"}
        /\ Finish(h)
  /\ UNCHANGED <<storage, history>>

\* Mutant: an authorization that cannot be read is passed over.
AllValidSkippingErrors(h, seen) == loc[h].allValid /\ seen \in {"valid", "error"}

AllValid(h, seen) == loc[h].allValid /\ seen = "valid"

\* One round of the loop over order.Authorizations; seen is what
\* GetAuthorization returns, "error" if it fails.
CheckAuthorization(h) ==
  /\ pc[h] = "checkAuthz"
  /\ \E seen \in {authz[Id(h)].status} \cup (IF MayFail THEN {"error"} ELSE {}) :
       LET ready == IF AllValid(h, seen) THEN "ready" ELSE loc[h].ord.status
       IN  \/ /\ seen = "invalid"
              /\ Local(h, [loc[h] EXCEPT !.ord.status = "invalid"])
              /\ Goto(h, "writeOrder")
           \/ /\ seen # "invalid" /\ ~LastRound(h)
              /\ Local(h, [loc[h] EXCEPT !.i = @ + 1, !.allValid = AllValid(h, seen)])
              /\ UNCHANGED pc
           \/ /\ seen # "invalid" /\ LastRound(h)
              /\ Local(h, [loc[h] EXCEPT !.allValid = AllValid(h, seen), !.ord.status = ready])
              /\ Goto(h, "writeOrder")
  /\ UNCHANGED <<storage, history>>

\* UpdateOrder writes the whole copy, whatever the order has become meanwhile.
UpdateOrder(h) ==
  /\ pc[h] = "writeOrder"
  /\ \/ order' = [order EXCEPT ![loc[h].o] = loc[h].ord]
     \/ MayFail /\ UNCHANGED order
  /\ Finish(h)
  /\ UNCHANGED <<challenge, authz, cert, history>>

-----------------------------------------------------------------------------
(* handleOrderFinalize and finalizeCertificate, for a well-formed CSR.     *)

FreeSerials == {s \in Serials : cert[s] = NoCertificate}

\* Bound: finalize starts only while a serial number is left for it.
SerialLeft == Cardinality({h \in Handlers : pc[h] \in {"collect", "issue"}})
                < Cardinality(FreeSerials)

\* Mutant: the order of any account will do.
FinalizableByAnyone(a, o) == order[o].status = "ready"

\* Mutant: the status of the order is not looked at.
FinalizableAnyStatus(a, o) == order[o].acct = a

Finalizable(a, o) == order[o].acct = a /\ order[o].status = "ready"

Finalize(h, a, o) ==
  /\ pc[h] = "idle" /\ SerialLeft
  /\ Finalizable(a, o)
  /\ Local(h, [NoLocals EXCEPT !.acct = a, !.o = o, !.ord = order[o]])
  /\ Goto(h, "collect")
  /\ UNCHANGED <<storage, history>>

\* What verifying the stored attestation again can give.
DeviceOutcomes(id) ==
  (IF authz[id].status = "valid" /\ authz[id].chal = "valid"
     THEN ExtractOutcomes(challenge[id].att) ELSE {FALSE})
  \cup (IF MayFail THEN {FALSE} ELSE {})

CollectDevice(h) ==
  /\ pc[h] = "collect"
  /\ \E found \in DeviceOutcomes(Id(h)) :
       LET devs == IF found THEN loc[h].devs \cup {Id(h)} ELSE loc[h].devs
       IN  \/ /\ ~LastRound(h)
              /\ Local(h, [loc[h] EXCEPT !.i = @ + 1, !.devs = devs])
              /\ UNCHANGED pc
           \/ /\ LastRound(h)
              /\ Local(h, [loc[h] EXCEPT !.devs = devs])
              /\ Goto(h, "issue")
  /\ UNCHANGED <<storage, history>>

\* Mutant: an error of CreateCertificate is ignored.
IssueCertificateUnstored(h) ==
  /\ pc[h] = "issue"
  /\ \E s \in FreeSerials :
       /\ \/ cert' = [cert EXCEPT ![s] =
                         [order |-> loc[h].o, acct |-> loc[h].acct, devs |-> loc[h].devs]]
          \/ MayFail /\ UNCHANGED cert
       /\ Local(h, [loc[h] EXCEPT !.ord.status = "valid", !.ord.cert = s])
       /\ Goto(h, "updateOrder")
  /\ UNCHANGED <<challenge, authz, order, history>>

\* Mutant: the order is marked valid without the URL of its certificate.
IssueCertificateUnnamed(h) ==
  /\ pc[h] = "issue"
  /\ \/ \E s \in FreeSerials :
          /\ cert' = [cert EXCEPT ![s] =
                        [order |-> loc[h].o, acct |-> loc[h].acct, devs |-> loc[h].devs]]
          /\ Local(h, [loc[h] EXCEPT !.ord.status = "valid"])
          /\ Goto(h, "updateOrder")
     \/ MayFail /\ Finish(h) /\ UNCHANGED cert
  /\ UNCHANGED <<challenge, authz, order, history>>

\* IssueCertificate and CreateCertificate.  The serial number is random.
IssueCertificate(h) ==
  /\ pc[h] = "issue"
  /\ \/ \E s \in FreeSerials :
          /\ cert' = [cert EXCEPT ![s] =
                        [order |-> loc[h].o, acct |-> loc[h].acct, devs |-> loc[h].devs]]
          /\ Local(h, [loc[h] EXCEPT !.ord.status = "valid", !.ord.cert = s])
          /\ Goto(h, "updateOrder")
     \/ MayFail /\ Finish(h) /\ UNCHANGED cert
  /\ UNCHANGED <<challenge, authz, order, history>>

UpdateFinalizedOrder(h) ==
  /\ pc[h] = "updateOrder"
  /\ \/ /\ order' = [order EXCEPT ![loc[h].o] = loc[h].ord]
        /\ Goto(h, "notify")
        /\ UNCHANGED loc
     \/ MayFail /\ Finish(h) /\ UNCHANGED order
  /\ UNCHANGED <<challenge, authz, cert, history>>

\* Every observer is called; what it returns is only logged.
NotifyObservers(h) ==
  /\ pc[h] = "notify"
  /\ notified' = notified \cup {loc[h].ord.cert}
  /\ Goto(h, "reread")
  /\ UNCHANGED <<storage, loc, used, approved>>

\* The order the client is sent is read once more.
RereadOrder(h) ==
  /\ pc[h] = "reread"
  /\ \/ /\ Local(h, [loc[h] EXCEPT !.ord = order[loc[h].o]])
        /\ Goto(h, "answer")
     \/ MayFail /\ Finish(h)
  /\ UNCHANGED <<storage, history>>

Answer(h) ==
  /\ pc[h] = "answer"
  /\ Finish(h)
  /\ UNCHANGED <<storage, history>>

\* handleCertificate finds certificate s, and an order of account a that names it.
Downloadable(a, s) ==
  /\ cert[s] # NoCertificate
  /\ \E o \in OrderIds : order[o].acct = a /\ order[o].cert = s

-----------------------------------------------------------------------------
\* The process dies and is started again on the same database: every request in
\* flight is gone, what a transaction has committed stays.
Crash ==
  /\ "crash" \in Faults
  /\ pc' = [h \in Handlers |-> "idle"]
  /\ loc' = [h \in Handlers |-> NoLocals]
  /\ UNCHANGED <<storage, history>>

Begin(h) ==
  \/ \E a \in Accounts, o \in OrderIds, n \in 1 .. MaxIdents : NewOrder(h, a, o, n)
  \/ \E a \in Accounts, id \in AuthzIds, sub \in Submissions : SetChallengeProcessing(h, a, id, sub)
  \/ \E a \in Accounts, o \in OrderIds : Finalize(h, a, o)

Continue(h) ==
  \/ CreateChallenge(h) \/ CreateAuthorization(h) \/ CreateOrder(h)
  \/ Judge(h) \/ SetChallengeValid(h) \/ SetChallengeInvalid(h)
  \/ ReadAuthorization(h) \/ RefreshChallenge(h) \/ UpdateAuthorization(h)
  \/ ReadOrder(h) \/ CheckAuthorization(h) \/ UpdateOrder(h)
  \/ CollectDevice(h) \/ IssueCertificate(h) \/ UpdateFinalizedOrder(h)
  \/ NotifyObservers(h) \/ RereadOrder(h) \/ Answer(h)

Next == Crash \/ \E h \in Handlers : Begin(h) \/ Continue(h)

Spec == Init /\ [][Next]_vars

\* The Go scheduler runs every goroutine; no client has to send anything.
FairSpec == Spec /\ \A h \in Handlers : WF_vars(Continue(h))
==============================================================================
