------------------------- MODULE TokenCacheProperties -------------------------
(* What the token cache should do, and the inductive invariant behind it.  *)
EXTENDS TokenCache

\* The cache, as its callers see it.
Source == INSTANCE TokenSource WITH
  valid   <- {t \in issued : Valid(t)},
  calling <- {p \in Procs : pc[p] # "idle"}

\* Token never answers with a token that had expired when the call began, or with
\* anything that is not a token the endpoint issued: whatever other processes, torn
\* writes, removals and restarts have left in the file.
PromiseKept == Source!Spec

\* Nothing that failures, restarts or processes in each other's way have left in the
\* file stands in the way of a later call: once nothing fails, every call gets a token.
CallsRecover ==
  \A p \in Procs : healthy /\ pc[p] # "idle" ~> pc[p] = "idle" /\ answer[p] \in Tokens

\* An entry of the file, and a token in memory, has been issued; a call under way may
\* answer with every token that is valid, and with the one it has obtained.
CacheInv ==
  /\ TypeOK
  /\ file.state = "entry" => file.token \in issued
  /\ \A p \in Procs :
       /\ memory[p] # None => memory[p] \in issued
       /\ pc[p] # "idle" => {t \in issued : Valid(t)} \subseteq good[p]
       /\ pc[p] = "idle" => good[p] = {}
       /\ pc[p] \in {"create", "write"} => got[p] \in good[p] \cap issued
==============================================================================
