---------------------------- MODULE OneTimeTokens ----------------------------
(***************************************************************************)
(* What a replay nonce promises: it is issued once, lets one request       *)
(* through at the very moment it is spent, and is never live again.        *)
(***************************************************************************)
EXTENDS Naturals

CONSTANT Values

VARIABLES
  token,  \* "new", "live" or "spent"
  uses    \* how many requests each token has let through

Init ==
  /\ token = [n \in Values |-> "new"]
  /\ uses = [n \in Values |-> 0]

Issue(n) ==
  /\ token[n] = "new"
  /\ token' = [token EXCEPT ![n] = "live"]
  /\ UNCHANGED uses

Spend(n) ==
  /\ token[n] = "live"
  /\ token' = [token EXCEPT ![n] = "spent"]
  /\ uses' = [uses EXCEPT ![n] = @ + 1]

Next == \E n \in Values : Issue(n) \/ Spend(n)

vars == <<token, uses>>

Spec == Init /\ [][Next]_vars
==============================================================================
