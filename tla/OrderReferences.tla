--------------------------- MODULE OrderReferences ---------------------------
(***************************************************************************)
(* The inductive invariant behind the properties of OrderFlow that relate  *)
(* one stored object to another: which authorizations an order has, whose  *)
(* they are, and which certificate an order names.  It stands on IInv.     *)
(***************************************************************************)
EXTENDS OrderFlowInvariant

Made(id) == authz[id].status # "absent"

\* The states of a challenge that somebody has responded to.
Responded == {"processing", "valid", "invalid"}

-----------------------------------------------------------------------------
(* The storage.                                                            *)

\* An order has exactly the authorizations that its length says, of its account.
AuthzsMade ==
  \A o \in OrderIds, i \in 1 .. MaxIdents : Exists(o) =>
    /\ Made(<<o, i>>) <=> i <= order[o].n
    /\ Made(<<o, i>>) => authz[<<o, i>>].acct = order[o].acct

\* A challenge is stored before the authorization that shows it, and nobody
\* responds to it before the order is stored.
ChallengesMade ==
  /\ \A id \in AuthzIds : authz[id].chal # "none" => challenge[id].status # "absent"
  /\ \A o \in OrderIds, i \in 1 .. MaxIdents :
       ~Exists(o) => challenge[<<o, i>>].status \in {"absent", "pending"}

\* A certificate is its order's account's.
CertificatesMade ==
  /\ CertificateUrlResolves
  /\ \A s \in Serials : Stored(s) => cert[s].acct = order[cert[s].order].acct

-----------------------------------------------------------------------------
(* A handler.                                                              *)

\* It has made the authorizations up to the one at hand, for the account that is to
\* own the order.
CreatorRefs(h) ==
  pc[h] \in Creating =>
    /\ loc[h].ord.cert = None
    /\ loc[h].ord.acct = loc[h].acct /\ loc[h].az.acct = loc[h].acct
    /\ \A j \in 1 .. MaxIdents :
         LET id == <<loc[h].o, j>>
         IN  /\ Made(id) <=> IF pc[h] = "createOrder" THEN j <= loc[h].ord.n ELSE j < loc[h].i
             /\ Made(id) => authz[id].acct = loc[h].acct
    /\ pc[h] = "createAuthz" /\ loc[h].az.chal # "none" => challenge[Id(h)].status # "absent"

\* Its copies of an order and of an authorization are of the same account as these, and
\* the copy of an order names a certificate once there is one.
CopyRefs(h) ==
  /\ pc[h] \in {"refreshChallenge", "writeAuthz"} => loc[h].az.acct = authz[Id(h)].acct
  /\ pc[h] \in Copying \ Creating => loc[h].ord.acct = order[loc[h].o].acct
  /\ pc[h] \in {"checkAuthz", "writeOrder", "collect", "issue"} => loc[h].ord.cert = None
  /\ pc[h] \in Finalizing => loc[h].acct = loc[h].ord.acct
  /\ pc[h] = "updateOrder" => loc[h].ord.status = "valid"
  /\ pc[h] \in {"updateOrder", "notify"} => cert[loc[h].ord.cert].order = loc[h].o

HandlerRefs(h) == CreatorRefs(h) /\ CopyRefs(h)

-----------------------------------------------------------------------------
\* Inductive together with IInv.
RefInv ==
  /\ AuthzsMade
  /\ ChallengesMade
  /\ CertificatesMade
  /\ \A h \in Handlers : HandlerRefs(h)
==============================================================================
