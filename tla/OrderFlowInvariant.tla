-------------------------- MODULE OrderFlowInvariant --------------------------
(***************************************************************************)
(* The inductive invariant behind the safety properties of OrderFlow: what *)
(* holds between any two steps of the storage, and of the local variables  *)
(* of each handler under way.                                              *)
(***************************************************************************)
EXTENDS OrderFlowProperties

AllAuthzsValid(o) == \A i \in 1 .. order[o].n : authz[<<o, i>>].status = "valid"

SomeAuthzInvalid(o) == \E i \in 1 .. order[o].n : authz[<<o, i>>].status = "invalid"

-----------------------------------------------------------------------------
(* The storage.                                                            *)

\* What exists was made under an id drawn before; an order appears last, and
\* no authorization is decided before that.
OrderLast ==
  /\ \A o \in OrderIds : Exists(o) => o \in used /\ order[o].n >= 1
  /\ \A o \in OrderIds, i \in 1 .. MaxIdents :
       /\ o \notin used => authz[<<o, i>>].status = "absent"
       /\ ~Exists(o) => authz[<<o, i>>].status \in {"absent", "pending"}
       /\ authz[<<o, i>>].status = "absent" => authz[<<o, i>>].acct = None

\* The status of an order follows from its authorizations, a valid challenge
\* from the verdict on it, and a certificate from the authorizations of the order
\* it was issued for.
StatusOK ==
  /\ \A o \in OrderIds :
       /\ order[o].status \in {"ready", "valid"} => AllAuthzsValid(o)
       /\ order[o].status = "invalid" => SomeAuthzInvalid(o)
  /\ \A id \in AuthzIds : challenge[id].status = "valid" => id \in approved
  /\ \A s \in Serials : Stored(s) =>
       Exists(cert[s].order) /\ AllAuthzsValid(cert[s].order)

-----------------------------------------------------------------------------
(* A handler.                                                              *)

\* Where a handler works on a copy of the order that it may write.
Copying == Creating \cup {"checkAuthz", "writeOrder"} \cup Finalizing

\* It has the local variables its next call needs.
LocalsOK(h) ==
  /\ pc[h] # "idle" => loc[h].o \in OrderIds /\ loc[h].acct \in Accounts
  /\ pc[h] \in Judging => loc[h].sub \in Submissions
  /\ pc[h] \in Copying => loc[h].i <= loc[h].ord.n /\ loc[h].ord.status # "absent"
  /\ pc[h] \in {"updateOrder", "notify"} => loc[h].ord.cert \in Serials

\* It creates an order that does not exist yet, or works on one that does.
CreatorOK(h) ==
  /\ pc[h] \in Creating =>
       /\ loc[h].o \in used /\ ~Exists(loc[h].o)
       /\ loc[h].az.status = "pending" /\ loc[h].ord.status = "pending"
  /\ pc[h] \notin Creating \cup {"idle"} => Exists(loc[h].o)

\* In charge of a challenge, it finds it processing until it calls for the
\* verdict, and the authorization pending until it writes it.
ProcessorOK(h) ==
  /\ pc[h] \in Deciding =>
       /\ challenge[Id(h)].status \in {"processing", "valid", "invalid"}
       /\ authz[Id(h)].status = "pending"
  /\ pc[h] \in Judging => challenge[Id(h)].status = "processing"
  /\ pc[h] = "setValid" => Id(h) \in approved
  /\ pc[h] = "refreshChallenge" => loc[h].az.status = "pending"
  /\ pc[h] = "writeAuthz" =>
       /\ loc[h].az.status \in {"pending", "valid", "invalid"}
       /\ loc[h].az.status \in Final =>
            challenge[Id(h)].status = loc[h].az.status /\ loc[h].az.chal = loc[h].az.status

\* Its copy of an order is as long as the order, and the status of the copy,
\* stale as it may be, is never ahead of the authorizations.
CopyOK(h) ==
  /\ pc[h] \in Copying \ Creating => loc[h].ord.n = order[loc[h].o].n
  /\ pc[h] \in {"checkAuthz", "writeOrder"} =>
       /\ loc[h].ord.status \in {"pending", "ready", "invalid"}
       /\ loc[h].ord.status = "ready" => AllAuthzsValid(loc[h].o)
       /\ loc[h].ord.status = "invalid" => SomeAuthzInvalid(loc[h].o)
  /\ pc[h] = "checkAuthz" /\ loc[h].allValid =>
       \A j \in 1 .. loc[h].i - 1 : authz[<<loc[h].o, j>>].status = "valid"
  /\ pc[h] \in Finalizing =>
       loc[h].ord.status \in {"ready", "valid"} /\ AllAuthzsValid(loc[h].o)

HandlerOK(h) == LocalsOK(h) /\ CreatorOK(h) /\ ProcessorOK(h) /\ CopyOK(h)

-----------------------------------------------------------------------------
\* One request creates an order.
SoleCreator ==
  \A g, h \in Handlers :
    pc[g] \in Creating /\ pc[h] \in Creating /\ loc[g].o = loc[h].o => g = h

\* The inductive invariant.
IInv ==
  /\ TypeOK
  /\ OrderLast
  /\ AuthzJustified
  /\ StatusOK
  /\ SoleCreator
  /\ SoleProcessor
  /\ \A h \in Handlers : HandlerOK(h)
==============================================================================
