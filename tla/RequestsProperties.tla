-------------------------- MODULE RequestsProperties --------------------------
(***************************************************************************)
(* What should hold of Requests.                                           *)
(***************************************************************************)
EXTENDS Requests

\* The signature of the request was found to match.
Verified(h) ==
  pc[h] \in {"findAccount", "createAccount"} \/ loc[h].result \in {"served", "created", "existing"}

-----------------------------------------------------------------------------
\* "ConsumeNonce atomically validates and consumes a nonce, preventing race
\* conditions" (storage.go): however many requests carry a nonce at the same time,
\* it lets one through, and is gone with it for good, restarts included.
NonceSingleUse ==
  \A n \in NonceValues :
    /\ grants[n] <= 1
    /\ grants[n] = 1 => nonces[n] = None /\ n \in drawn

\* A request that is acted upon has used up its nonce, no other request acts on
\* the same one, and it is signed with the key of the account it acts for: the
\* one it names, or the one it carries.
Authenticated ==
  \A h \in Handlers : Verified(h) =>
    /\ grants[loc[h].nonce] = 1
    /\ loc[h].signer = IF loc[h].kid = None THEN loc[h].jwk ELSE accounts[loc[h].kid]
    /\ \A g \in Handlers : Verified(g) /\ loc[g].nonce = loc[h].nonce => g = h

\* The nonce of an answer can be used: it is stored, has not been used, and no
\* other client is given it.  An answer of success always carries one.
ReplayNonceUsable ==
  \A h \in Handlers : pc[h] = "send" =>
    /\ loc[h].result \in Successes => loc[h].replay # None
    /\ loc[h].replay # None =>
         /\ nonces[loc[h].replay] # None
         /\ grants[loc[h].replay] = 0
         /\ loc[h].replay \notin known
         /\ \A g \in Handlers : loc[g].replay = loc[h].replay => g = h

\* The key index and the accounts agree, whatever write fails: an entry names an
\* account with that key, and every account with a key has an entry for it.
KeyIndexed ==
  /\ \A k \in IndexKeys : keyIndex[k] # None => accounts[keyIndex[k]] = k[2]
  /\ \A a \in AccountIds : accounts[a] # None => keyIndex[StoredUnder(accounts[a])] # None

\* Nonces keep the promises of OneTimeTokens.
Tokens == INSTANCE OneTimeTokens WITH
  Values <- NonceValues,
  token  <- [n \in NonceValues |->
               IF n \notin drawn THEN "new" ELSE IF nonces[n] # None THEN "live" ELSE "spent"],
  uses   <- grants

TokensKept == Tokens!Spec

-----------------------------------------------------------------------------
(* What the code says of itself.                                           *)

\* "Account does not exist" (handlers.go), and GetAccountByKey(ctx, keyThumbprint):
\* newAccount finds the account of a key that has one, and does not answer that it
\* does not exist, nor create another.
AccountFound ==
  \A h \in Handlers :
    pc[h] = "createAccount" \/ (pc[h] = "reply" /\ loc[h].kid = None /\ loc[h].result = "noAccount") =>
      \A a \in AccountIds : accounts[a] # loc[h].jwk

\* "ConsumeNonce atomically validates and consumes a nonce": a nonce that is refused
\* is not stored any more.
NonceConsumed ==
  \A h \in Handlers :
    pc[h] = "reply" /\ loc[h].result = "badNonce" => nonces[loc[h].nonce] = None
==============================================================================
