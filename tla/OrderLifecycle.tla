---------------------------- MODULE OrderLifecycle ----------------------------
(***************************************************************************)
(* What an order promises its client, whatever requests, retries and       *)
(* restarts it goes through: it is pending until its authorizations        *)
(* decide it, then ready or invalid; only a ready order is finalized; its  *)
(* certificate exists before the order names it; valid and invalid are     *)
(* final, and so is the verdict on an authorization.                       *)
(***************************************************************************)
EXTENDS Naturals

CONSTANTS OrderIds, MaxIdents, Serials, None

VARIABLES
  phase,     \* the status of each order, "absent" before it exists
  size,      \* how many authorizations it has
  verdict,   \* the status of each authorization
  link,      \* the certificate an order names
  issued     \* the order each certificate was issued for

vars == <<phase, size, verdict, link, issued>>

AuthzIds == OrderIds \X (1 .. MaxIdents)

Final == {"valid", "invalid"}

Init ==
  /\ phase = [o \in OrderIds |-> "absent"]
  /\ size = [o \in OrderIds |-> 0]
  /\ verdict = [id \in AuthzIds |-> "absent"]
  /\ link = [o \in OrderIds |-> None]
  /\ issued = [s \in Serials |-> None]

Prepare(id) ==
  /\ phase[id[1]] = "absent" /\ verdict[id] = "absent"
  /\ verdict' = [verdict EXCEPT ![id] = "pending"]
  /\ UNCHANGED <<phase, size, link, issued>>

Place(o, n) ==
  /\ phase[o] = "absent"
  /\ \A i \in 1 .. n : verdict[<<o, i>>] = "pending"
  /\ phase' = [phase EXCEPT ![o] = "pending"]
  /\ size' = [size EXCEPT ![o] = n]
  /\ UNCHANGED <<verdict, link, issued>>

Decide(id) ==
  /\ phase[id[1]] # "absent" /\ verdict[id] = "pending"
  /\ \E v \in Final : verdict' = [verdict EXCEPT ![id] = v]
  /\ UNCHANGED <<phase, size, link, issued>>

Verdicts(o) == {verdict[<<o, i>>] : i \in 1 .. size[o]}

Settle(o) ==
  /\ phase[o] = "pending"
  /\ \/ Verdicts(o) = {"valid"} /\ phase' = [phase EXCEPT ![o] = "ready"]
     \/ "invalid" \in Verdicts(o) /\ phase' = [phase EXCEPT ![o] = "invalid"]
  /\ UNCHANGED <<size, verdict, link, issued>>

\* Two requests may finalize an order at the same time.
Issue(o, s) ==
  /\ phase[o] \in {"ready", "valid"} /\ issued[s] = None
  /\ issued' = [issued EXCEPT ![s] = o]
  /\ UNCHANGED <<phase, size, verdict, link>>

Finalize(o, s) ==
  /\ phase[o] \in {"ready", "valid"} /\ issued[s] = o
  /\ phase' = [phase EXCEPT ![o] = "valid"]
  /\ link' = [link EXCEPT ![o] = s]
  /\ UNCHANGED <<size, verdict, issued>>

Next ==
  \/ \E id \in AuthzIds : Prepare(id) \/ Decide(id)
  \/ \E o \in OrderIds :
       \/ \E n \in 1 .. MaxIdents : Place(o, n)
       \/ Settle(o)
       \/ \E s \in Serials : Issue(o, s) \/ Finalize(o, s)

Spec == Init /\ [][Next]_vars
==============================================================================
