---------------------------- MODULE OrderProgress ----------------------------
(***************************************************************************)
(* What the progress of challenges and orders rests on, if nothing fails:  *)
(* as long as one of them is not settled, some request is at work on it.   *)
(* The invariant stands on IInv, RefInv and SettleInv.                     *)
(***************************************************************************)
EXTENDS OrderSettlement

\* No call returns an error, the process does not die, and every statement that
\* clients send can be stored.
NothingFails == Faults = {} /\ \A sub \in Submissions : Encodable(sub.att)

\* The status of o is what its authorizations make it.
Settles(status, o) ==
  /\ AllAuthzsValid(o) => status \in {"ready", "valid"}
  /\ SomeAuthzInvalid(o) => status = "invalid"

\* Nothing is left undone when requests have been answered: a challenge in processing
\* is being judged, and an order whose challenges are all valid, or one of them not, has
\* the status that follows unless a response to one of them is under way; the latter if
\* no two responses settle the order side by side.
NothingStranded ==
  /\ \A id \in AuthzIds : challenge[id].status = "processing" =>
       \E h \in Handlers : pc[h] \in Judging /\ Id(h) = id
  /\ \A o \in OrderIds :
       Exists(o) /\ Alone(o) /\ (\A h \in Handlers : ~(pc[h] \in Responding /\ loc[h].o = o)) =>
         /\ (\A id \in AuthzsOf(o) : challenge[id].status = "valid") =>
              order[o].status \in {"ready", "valid"}
         /\ (\E id \in AuthzsOf(o) : challenge[id].status = "invalid") =>
              order[o].status = "invalid"

-----------------------------------------------------------------------------
(* The inductive invariant behind it.                                      *)

\* Where a handler carries a verdict from the challenge to its authorization.
Spreading == Deciding \ Judging

\* Some handler is about to decide the challenge, or to tell the authorization.
Attended ==
  \A id \in AuthzIds :
    /\ challenge[id].status = "processing" =>
         \E h \in Handlers : pc[h] \in Judging /\ Id(h) = id
    /\ challenge[id].status \in Final /\ authz[id].status = "pending" =>
         \E h \in Handlers : pc[h] \in Spreading /\ Id(h) = id

\* Some handler is about to look at the order, or it needs no look.
OrderAttended(o) ==
  Exists(o) /\ Alone(o) =>
    \/ Settles(order[o].status, o)
    \/ \E h \in Handlers : pc[h] \in Settling /\ loc[h].o = o

\* A handler has a verdict to carry, and does carry it.
SpreaderOK(h) ==
  /\ pc[h] \in Spreading => challenge[Id(h)].status \in Final
  /\ pc[h] = "writeAuthz" => loc[h].az.status \in Final

\* What updateOrderStatus has seen of the authorizations is so, and what it is about to
\* write follows from them.
SettlerOK(h) ==
  pc[h] \in Settling /\ Alone(loc[h].o) =>
    LET o == loc[h].o
        SeenIn(statuses) == \A j \in 1 .. loc[h].i - 1 : authz[<<o, j>>].status \in statuses
    IN  /\ pc[h] = "checkAuthz" =>
             SeenIn({"pending", "valid"}) /\ (SeenIn({"valid"}) => loc[h].allValid)
        /\ pc[h] = "writeOrder" => Settles(loc[h].ord.status, o)

ProgressInv ==
  /\ Attended
  /\ \A o \in OrderIds : OrderAttended(o)
  /\ \A h \in Handlers : SpreaderOK(h) /\ SettlerOK(h)
==============================================================================
