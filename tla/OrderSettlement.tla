--------------------------- MODULE OrderSettlement ---------------------------
(***************************************************************************)
(* The inductive invariant behind the final states of an order, which an   *)
(* order has if no two requests look at it at the same time: because it    *)
(* has one identifier, and so one challenge, or because requests are       *)
(* served one at a time.  It stands on IInv and RefInv.                    *)
(***************************************************************************)
EXTENDS OrderReferences

OneAtATime == \A g, h \in Handlers : g = h

\* No two challenge responses can settle o side by side.
Alone(o) == order[o].n = 1 \/ OneAtATime

\* The instances in which that is so of every order.
EveryOrderAlone == MaxIdents = 1 \/ OneAtATime

\* Where a handler answers for a challenge, up to the last write that follows from it.
Responding == Deciding \cup Settling

\* A response to the only challenge of an order goes on until the order is settled, and
\* there is no other meanwhile: the challenge is not pending any more.
SoleResponse ==
  /\ \A h \in Handlers :
       pc[h] \in Responding /\ order[loc[h].o].n = 1 =>
         challenge[<<loc[h].o, 1>>].status \in Responded
  /\ \A g, h \in Handlers :
       /\ pc[g] \in Responding /\ pc[h] \in Responding
       /\ loc[g].o = loc[h].o /\ Alone(loc[g].o)
       => g = h

\* What a handler has read of an order, or has written, is still so.
StillTrue(h) ==
  pc[h] # "idle" /\ Alone(loc[h].o) =>
    /\ pc[h] \in Deciding \cup {"readOrder"} => order[loc[h].o].status \in {"pending", "invalid"}
    /\ pc[h] \in {"checkAuthz", "writeOrder"} => order[loc[h].o].status = "pending"
    /\ pc[h] \in Finalizing => order[loc[h].o].status \in {"ready", "valid"}
    /\ pc[h] \in Answering => order[loc[h].o].status = "valid"
    /\ pc[h] = "answer" =>
         /\ loc[h].ord.status = "valid"
         /\ loc[h].ord.cert \in Serials /\ Stored(loc[h].ord.cert)

\* Inductive together with IInv and RefInv.
SettleInv == SoleResponse /\ \A h \in Handlers : StillTrue(h)

-----------------------------------------------------------------------------
\* "Final states" (updateOrderStatus), for the orders that have them: if its challenge
\* is the only one, or requests are served one at a time, an order that is valid or
\* invalid stays so, whatever fails and however finalize requests overlap.
AloneFinalStates ==
  [][\A o \in OrderIds :
       Alone(o) /\ order[o].status \in Final => order'[o].status = order[o].status]_vars

\* Inductive together with the others: an order for which a certificate was issued stays
\* ready until it names one, which if nothing fails somebody is about to see to.
IssuedInv ==
  \A s \in Serials : Stored(s) /\ Alone(cert[s].order) =>
    LET o == cert[s].order
    IN  /\ order[o].status \in {"ready", "valid"}
        /\ Faults = {} /\ order[o].status = "ready" =>
             \E h \in Handlers : pc[h] = "updateOrder" /\ loc[h].o = o

\* An order for which a certificate was issued does not end without one, however finalize
\* requests overlap, whichever of their calls fails and wherever the process dies: its
\* account can download a certificate of it, the first or one that has replaced it, or can
\* finalize it again; the latter, if nothing fails, only until the order has been updated.
\* For the orders that keep their final states.
CertificatesReachable ==
  \A s \in Serials : Stored(s) /\ Alone(cert[s].order) =>
    \/ \E t \in Serials : cert[t].order = cert[s].order /\ Downloadable(cert[s].acct, t)
    \/ /\ Finalizable(cert[s].acct, cert[s].order)
       /\ Faults = {} =>
            \E h \in Handlers : pc[h] = "updateOrder" /\ loc[h].o = cert[s].order
==============================================================================
