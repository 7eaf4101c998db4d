------------------------------ MODULE StoreCalls ------------------------------
(***************************************************************************)
(* The calls of the Storage interface (storage.go) and what they work on.  *)
(* Nonces are left to Requests.                                            *)
(*                                                                         *)
(* A document is an order, an authorization or a certificate: badger keeps *)
(* them alike, each kind under a prefix of its own.                        *)
(***************************************************************************)
CONSTANTS
  Documents,    \* ids of orders, authorizations and certificates
  ChallengeIds,
  AccountIds,
  Keys,         \* the keys of accounts
  Data,         \* what callers change
  Done, Error,  \* the answer of a call that returns nothing, or fails
  None

Contents == [acct : AccountIds, data : Data]

AccountContents == [key : Keys, data : Data]

\* "absent": no such challenge is stored.
ChallengeStates == {"absent", "pending", "processing", "valid", "invalid"}

Creations == {"createDocument", "createAccount", "createChallenge"}

AccountWrites == {"createAccount", "updateAccount"}

StatusUpdates == {"setProcessing", "setValid", "setInvalid"}

\* On which object a call is made, and with what.
Calls ==
       [op : {"createDocument", "updateDocument"}, on : Documents, with : Contents]
  \cup [op : {"getDocument"}, on : Documents, with : {None}]
  \cup [op : {"getOrdersByAccount", "getAccount"}, on : AccountIds, with : {None}]
  \cup [op : AccountWrites, on : AccountIds, with : AccountContents]
  \cup [op : {"getAccountByKey"}, on : Keys, with : {None}]
  \cup [op : {"createChallenge", "getChallenge"} \cup StatusUpdates,
        on : ChallengeIds, with : {None}]

ASSUME StoreCallsAssumption ==
  /\ None \notin AccountIds /\ None \notin Contents /\ None \notin AccountContents
  /\ None \notin Calls
==============================================================================
