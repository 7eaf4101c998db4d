------------------------- MODULE OrderFlowProperties -------------------------
(***************************************************************************)
(* What should hold of OrderFlow.  The properties of the first section     *)
(* hold for any number of identifiers, requests, failures and restarts;    *)
(* those of the second need an order with one identifier, or requests      *)
(* served one at a time; the last section is about progress.               *)
(***************************************************************************)
EXTENDS OrderFlow

Exists(o) == order[o].status # "absent"

Stored(s) == cert[s].order # None

\* The authorizations of an order that has been created.
AuthzsOf(o) == {<<o, i>> : i \in 1 .. order[o].n}

-----------------------------------------------------------------------------
(* For every order.                                                        *)

\* No certificate without attestation: every authorization of the order of a
\* stored certificate is valid, by a challenge that is valid, on a statement
\* that its verifier and the authorizer both accepted.  (finalizeCertificate
\* itself looks at nothing but the status of the order it read.)
IssuanceJustified ==
  \A s \in Serials : Stored(s) =>
    /\ Exists(cert[s].order)
    /\ \A id \in AuthzsOf(cert[s].order) :
         authz[id].status = "valid" /\ challenge[id].status = "valid" /\ id \in approved

\* The status of an order agrees with its authorizations: updateOrderStatus,
\* which reads them one by one while others change, neither makes an order
\* ready too early nor invalid without a reason.
OrderJustified ==
  \A o \in OrderIds :
    /\ order[o].status \in {"ready", "valid"} =>
         \A id \in AuthzsOf(o) : authz[id].status = "valid"
    /\ order[o].status = "invalid" =>
         \E id \in AuthzsOf(o) : authz[id].status = "invalid"

\* The status of an authorization is that of its challenge, and the copy of the
\* challenge it carries, from which finalizeCertificate picks the challenge to
\* read, says the same.
AuthzJustified ==
  \A id \in AuthzIds :
    authz[id].status \in Final =>
      challenge[id].status = authz[id].status /\ authz[id].chal = authz[id].status

\* A challenge is at any time in the hands of at most one request, however many
\* arrive for it: the compare-and-set of SetChallengeProcessing.
SoleProcessor ==
  \A g, h \in Handlers :
    pc[g] \in Deciding /\ pc[h] \in Deciding /\ Id(g) = Id(h) => g = h

\* A verdict is final: no retry, no late request and no restart changes a decided
\* challenge, its statement, or a decided authorization.
VerdictFinal ==
  [][\A id \in AuthzIds :
       /\ challenge[id].status \in Final => challenge'[id] = challenge[id]
       /\ authz[id].status \in Final => authz'[id] = authz[id]]_vars

\* The certificate URL of an order resolves: a certificate is stored under it,
\* and was issued for this very order.  An order has such a URL exactly when
\* it is valid, and observers hear of stored certificates only.
CertificateUrlResolves ==
  /\ \A o \in OrderIds :
       /\ order[o].status = "valid" <=> order[o].cert # None
       /\ order[o].cert # None => cert[order[o].cert].order = o
  /\ \A s \in notified : Stored(s)

\* handleCertificate lets only the account that finalized the order, which is
\* the account that placed it, have the certificate.
DownloadByOwner ==
  \A a \in Accounts, s \in Serials :
    Downloadable(a, s) => cert[s].acct = a /\ order[cert[s].order].acct = a

\* References never dangle, whichever write fails and wherever the process dies:
\* an order's authorizations exist and belong to its account, and the challenge
\* an authorization shows exists.
ReferentialIntegrity ==
  /\ \A o \in OrderIds : Exists(o) =>
       \A id \in AuthzsOf(o) : authz[id].status # "absent" /\ authz[id].acct = order[o].acct
  /\ \A id \in AuthzIds :
       authz[id].chal # "none" => challenge[id].status # "absent"

-----------------------------------------------------------------------------
(* For orders with one identifier, or requests one at a time.              *)

\* "Final states" (updateOrderStatus): a valid or an invalid order stays so.
OrderFinalStates ==
  [][\A o \in OrderIds :
       order[o].status \in Final => order'[o].status = order[o].status]_vars

\* The order that the answer to a successful finalize shows is valid, and the
\* certificate it names can be had.
FinalizedAnswer ==
  \A h \in Handlers : pc[h] = "answer" =>
    loc[h].ord.status = "valid" /\ Stored(loc[h].ord.cert)

\* An order keeps the promises of OrderLifecycle.
Lifecycle == INSTANCE OrderLifecycle WITH
  phase   <- [o \in OrderIds |-> order[o].status],
  size    <- [o \in OrderIds |-> order[o].n],
  verdict <- [id \in AuthzIds |-> authz[id].status],
  link    <- [o \in OrderIds |-> order[o].cert],
  issued  <- [s \in Serials |-> cert[s].order]

LifecycleKept == Lifecycle!Spec

-----------------------------------------------------------------------------
(* Progress, when no call fails and the process does not die.              *)

\* Every request is answered: no loop over authorizations runs on, no handler
\* waits for another.
RequestsAnswered ==
  \A h \in Handlers : pc[h] # "idle" ~> pc[h] = "idle"

\* A challenge taken into processing is decided, if its statement can be stored.
ChallengeDecided ==
  \A id \in AuthzIds : challenge[id].status = "processing" ~> challenge[id].status \in Final

\* Two responses each hold a copy of the order that they will write.
Rivals(o) ==
  \E g, h \in Handlers :
    /\ g # h /\ loc[g].o = o /\ loc[h].o = o
    /\ pc[g] \in {"checkAuthz", "writeOrder"} /\ pc[h] \in {"checkAuthz", "writeOrder"}

\* Once its challenges are decided, the order is ready (or finalized already), and one
\* invalid challenge makes it invalid, however the responses to its challenges overlap up
\* to updateOrderStatus.  Of two that are in there at a time one may overwrite what the
\* other has written, and no later request repairs that.
OrderSettles ==
  \A o \in OrderIds : []~Rivals(o) =>
    /\ (Exists(o) /\ \A id \in AuthzsOf(o) : challenge[id].status = "valid")
         ~> order[o].status \in {"ready", "valid"}
    /\ (Exists(o) /\ \E id \in AuthzsOf(o) : challenge[id].status = "invalid")
         ~> order[o].status = "invalid"

-----------------------------------------------------------------------------
(* What the README says of the certificates.                               *)

\* "issues device identity certificates with serial number and UDID in SAN
\* extensions" (README.md): a certificate names an attested device.
CertificateNamesDevice ==
  \A s \in Serials : Stored(s) => cert[s].devs # {}
==============================================================================
