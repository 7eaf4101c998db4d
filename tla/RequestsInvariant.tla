--------------------------- MODULE RequestsInvariant ---------------------------
(***************************************************************************)
(* The inductive invariant behind the safety properties of Requests.       *)
(***************************************************************************)
EXTENDS RequestsProperties

\* A nonce that has not been drawn is neither stored nor used, and one that is
\* stored has not been used.
NoncesOK ==
  \A n \in NonceValues :
    /\ n \notin drawn => nonces[n] = None /\ grants[n] = 0
    /\ nonces[n] # None => grants[n] = 0
    /\ grants[n] <= 1

\* The key a signature is to be held against.
ClaimedKey(h) == IF loc[h].kid = None THEN loc[h].jwk ELSE accounts[loc[h].kid]

\* Where a request is that has a nonce, and where it has a key to be held against.
Arriving  == {"lookupJWK", "readNonce", "commitNonce"}
Verifying == {"readNonce", "commitNonce"}
Acting    == {"findAccount", "createAccount"}

\* A request under way has no result yet; it knows its nonce and whom it claims to
\* come from, and once it has been verified nothing of that has changed.
RequestOK(h) ==
  /\ pc[h] \in Arriving \cup Acting \cup {"idle"} => loc[h].result = None
  /\ pc[h] \in Arriving \cup Acting => loc[h].nonce \in NonceValues
  /\ pc[h] = "lookupJWK" => loc[h].kid \in AccountIds
  /\ pc[h] \in Verifying => loc[h].pub = ClaimedKey(h) /\ loc[h].pub # None
  /\ pc[h] \in Verifying \cup Acting /\ loc[h].kid = None => loc[h].jwk \in Keys
  /\ pc[h] = "commitNonce" => loc[h].seen # None
  /\ pc[h] \in Acting => loc[h].kid = None
  /\ Verified(h) =>
       /\ loc[h].nonce \in NonceValues /\ grants[loc[h].nonce] = 1
       /\ loc[h].signer = ClaimedKey(h)
       /\ loc[h].kid # None => accounts[loc[h].kid] # None

\* Two requests are never let through by the same nonce.
SoleBearer ==
  \A g, h \in Handlers : Verified(g) /\ Verified(h) /\ loc[g].nonce = loc[h].nonce => g = h

\* The inductive invariant.
RInv == TypeOK /\ NoncesOK /\ SoleBearer /\ KeyIndexed /\ \A h \in Handlers : RequestOK(h)

-----------------------------------------------------------------------------
(* The nonces of the answers.                                              *)

\* A request comes with a nonce some client knows, and an answer on its way, one
\* of success always, brings a nonce that is stored and that no client knows yet.
ReplayOK(h) ==
  /\ pc[h] \in Arriving => loc[h].nonce \in known
  /\ pc[h] # "send" => loc[h].replay = None
  /\ pc[h] = "send" /\ loc[h].result \in Successes => loc[h].replay # None
  /\ loc[h].replay # None =>
       loc[h].replay \in drawn \ known /\ nonces[loc[h].replay] # None

\* No two answers bring the same nonce.
SoleReplay ==
  \A g, h \in Handlers : loc[g].replay # None /\ loc[g].replay = loc[h].replay => g = h

\* Inductive together with RInv.  Clients know only nonces that have been drawn,
\* so that none they send is one still on its way.
ReplayInv == known \subseteq drawn /\ SoleReplay /\ \A h \in Handlers : ReplayOK(h)
==============================================================================
