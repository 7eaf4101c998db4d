------------------------------- MODULE Requests -------------------------------
(***************************************************************************)
(* How nanoca receives a request: the replay nonces, the verification of   *)
(* the JWS against the key of an account (verifyPOST in handlers.go,       *)
(* verifyJWSWithKey in jose.go), newAccount, and the nonce of the answer.  *)
(*                                                                         *)
(* A handler is a goroutine of net/http as in OrderFlow.  The transaction  *)
(* that consumes a nonce is two steps here, its read and its commit, since *)
(* badger runs transactions side by side and refuses to commit one whose   *)
(* reads have been overwritten.  What a verified request does to orders is *)
(* OrderFlow's; here it is only "served".                                  *)
(***************************************************************************)
EXTENDS Naturals, FiniteSets

CONSTANTS
  Keys,         \* the keys clients sign with
  AccountIds,   \* what generateAccountID may return (bounds the accounts)
  NonceValues,  \* what generateNonce may draw (bounds the answers)
  Handlers,     \* requests served at the same time
  Expiry,       \* nonceExpiry, in ticks
  MaxTime,      \* bounds the clock
  Faults,       \* "error": a storage call returns an error; "crash"
  None

\* What becomes of a request.
Successes == {"nonce", "served", "created", "existing"}
Problems  == {"malformed", "noAccount", "badNonce", "serverError"}

ASSUME RequestsAssumption ==
  /\ Expiry \in Nat /\ MaxTime \in Nat
  /\ Faults \subseteq {"error", "crash"}
  /\ None \notin Keys /\ None \notin AccountIds /\ None \notin NonceValues
  /\ None \notin 0 .. MaxTime /\ None \notin Successes \cup Problems

\* The entries of the key index: a key in either of two forms.
IndexKeys == {"jwk", "thumbprint"} \X Keys

VARIABLES
  now,        \* the clock
  nonces,     \* NonceValues -> when it was created, None if not stored
  accounts,   \* AccountIds -> the key of the account, None if there is none
  keyIndex,   \* IndexKeys -> the account found under that key
  pc,         \* the storage call a handler makes next
  loc,        \* the local variables of a handler
  drawn,      \* nonces drawn so far
  known,      \* history: nonces that have reached a client
  grants      \* history: how many requests each nonce has let through

storage == <<nonces, accounts, keyIndex>>
vars    == <<now, storage, pc, loc, drawn, known, grants>>

Locals == [nonce  : NonceValues \cup {None},   \* the nonce of the request
           signer : Keys \cup {None},          \* the key that really signed it
           kid    : AccountIds \cup {None},    \* the account it claims, or else
           jwk    : Keys \cup {None},          \* the key it carries
           pub    : Keys \cup {None},          \* the key its signature must match
           only   : BOOLEAN,                   \* onlyReturnExisting
           seen   : 0 .. MaxTime \cup {None},  \* the nonce, as read
           result : Successes \cup Problems \cup {None},
           replay : NonceValues \cup {None}]   \* the nonce of the answer

NoLocals == [nonce |-> None, signer |-> None, kid |-> None, jwk |-> None, pub |-> None,
             only |-> FALSE, seen |-> None, result |-> None, replay |-> None]

Steps == {"idle", "lookupJWK", "readNonce", "commitNonce", "findAccount", "createAccount",
          "reply", "send"}

TypeOK ==
  /\ now \in 0 .. MaxTime
  /\ nonces \in [NonceValues -> 0 .. MaxTime \cup {None}]
  /\ accounts \in [AccountIds -> Keys \cup {None}]
  /\ keyIndex \in [IndexKeys -> AccountIds \cup {None}]
  /\ pc \in [Handlers -> Steps]
  /\ loc \in [Handlers -> Locals]
  /\ drawn \subseteq NonceValues
  /\ known \subseteq NonceValues
  /\ grants \in [NonceValues -> Nat]

Init ==
  /\ now = 0
  /\ nonces = [n \in NonceValues |-> None]
  /\ accounts = [a \in AccountIds |-> None]
  /\ keyIndex = [k \in IndexKeys |-> None]
  /\ pc = [h \in Handlers |-> "idle"]
  /\ loc = [h \in Handlers |-> NoLocals]
  /\ drawn = {} /\ known = {}
  /\ grants = [n \in NonceValues |-> 0]

-----------------------------------------------------------------------------
(* Steps of a handler.                                                     *)

MayFail == "error" \in Faults

Goto(h, step) == pc' = [pc EXCEPT ![h] = step]

Local(h, locals) == loc' = [loc EXCEPT ![h] = locals]

\* The handler has its result and goes on to answer.
Result(h, locals, result) ==
  Local(h, [locals EXCEPT !.result = result]) /\ Goto(h, "reply")

\* Bounds: a request is received while a nonce is left for its answer, and, if it
\* may create an account, an account id.
NonceLeft == Cardinality({h \in Handlers : pc[h] \notin {"idle", "send"}})
               < Cardinality(NonceValues \ drawn)

AccountLeft == Cardinality({h \in Handlers : loc[h].jwk # None})
                 < Cardinality({a \in AccountIds : accounts[a] = None})

-----------------------------------------------------------------------------
(* What arrives.                                                           *)

\* handleNewNonce.
NewNonce(h) ==
  /\ pc[h] = "idle" /\ NonceLeft
  /\ Result(h, NoLocals, "nonce")
  /\ UNCHANGED <<now, storage, drawn, known, grants>>

\* A request turned down before its nonce is looked at: a wrong method, content
\* type or url, a JWS that does not parse, no key or no nonce in it.
Refuse(h) ==
  /\ pc[h] = "idle" /\ NonceLeft
  /\ Result(h, NoLocals, "malformed")
  /\ UNCHANGED <<now, storage, drawn, known, grants>>

\* newAccount: signed with the key it carries, or so it says.
NewAccount(h, n, jwk, signer, only) ==
  /\ pc[h] = "idle" /\ NonceLeft /\ AccountLeft
  /\ Local(h, [NoLocals EXCEPT !.nonce = n, !.signer = signer, !.jwk = jwk, !.pub = jwk,
                               !.only = only])
  /\ Goto(h, "readNonce")
  /\ UNCHANGED <<now, storage, drawn, known, grants>>

\* Any other POST: signed with the key of the account it names, or so it says.
Post(h, n, kid, signer) ==
  /\ pc[h] = "idle" /\ NonceLeft
  /\ Local(h, [NoLocals EXCEPT !.nonce = n, !.signer = signer, !.kid = kid])
  /\ Goto(h, "lookupJWK")
  /\ UNCHANGED <<now, storage, drawn, known, grants>>

-----------------------------------------------------------------------------
(* verifyPOST.                                                             *)

\* lookupJWK: the key of the account.
LookupJWK(h) ==
  /\ pc[h] = "lookupJWK"
  /\ LET key == accounts[loc[h].kid]
     IN  \/ /\ key # None
            /\ Local(h, [loc[h] EXCEPT !.pub = key])
            /\ Goto(h, "readNonce")
         \/ /\ key = None \/ MayFail
            /\ Result(h, loc[h], "noAccount")
  /\ UNCHANGED <<now, storage, drawn, known, grants>>

\* The nonce is stored and has not expired.
Fresh(born) == born # None /\ now - born <= Expiry

\* ConsumeNonce up to its commit.  The Delete of an expired nonce is undone with
\* the transaction, which fails with ErrNonceExpired.
ReadNonce(h) ==
  /\ pc[h] = "readNonce"
  /\ LET born == nonces[loc[h].nonce]
     IN  \/ /\ Fresh(born)
            /\ Local(h, [loc[h] EXCEPT !.seen = born])
            /\ Goto(h, "commitNonce")
         \/ /\ ~Fresh(born) \/ MayFail
            /\ Result(h, loc[h], "badNonce")
  /\ UNCHANGED <<now, storage, drawn, known, grants>>

\* What the transaction of h has read is still what is stored.
Undisturbed(h) == nonces[loc[h].nonce] = loc[h].seen

\* Mutant: any signature will do.
SignatureAlwaysValid(h) == TRUE

SignatureValid(h) == loc[h].signer = loc[h].pub

\* Mutant: the nonce is checked, but not deleted.
CommitNonceKept(h) ==
  /\ pc[h] = "commitNonce"
  /\ \/ /\ Undisturbed(h)
        /\ grants' = [grants EXCEPT ![loc[h].nonce] = @ + 1]
        /\ \/ SignatureValid(h) /\ loc[h].kid # None /\ Result(h, loc[h], "served")
           \/ SignatureValid(h) /\ loc[h].kid = None /\ Goto(h, "findAccount") /\ UNCHANGED loc
           \/ (SignatureValid(h) => loc[h].kid = None) /\ Result(h, loc[h], "malformed")
     \/ /\ MayFail \/ ~Undisturbed(h)
        /\ Result(h, loc[h], "badNonce")
        /\ UNCHANGED grants
  /\ UNCHANGED <<now, storage, drawn, known>>

\* The commit of ConsumeNonce, then the signature: it is looked at only after the
\* nonce is gone.  A newAccount can still fail, when its payload does not parse.
CommitNonce(h) ==
  /\ pc[h] = "commitNonce"
  /\ \/ /\ Undisturbed(h)
        /\ nonces' = [nonces EXCEPT ![loc[h].nonce] = None]
        /\ grants' = [grants EXCEPT ![loc[h].nonce] = @ + 1]
        /\ \/ SignatureValid(h) /\ loc[h].kid # None /\ Result(h, loc[h], "served")
           \/ SignatureValid(h) /\ loc[h].kid = None /\ Goto(h, "findAccount") /\ UNCHANGED loc
           \/ (SignatureValid(h) => loc[h].kid = None) /\ Result(h, loc[h], "malformed")
     \/ /\ MayFail \/ ~Undisturbed(h)
        /\ Result(h, loc[h], "badNonce")
        /\ UNCHANGED <<nonces, grants>>
  /\ UNCHANGED <<now, accounts, keyIndex, drawn, known>>

-----------------------------------------------------------------------------
(* handleNewAccount.                                                       *)

\* Under what the account of a key is stored, and under what it is looked for.
StoredUnder(key) == <<"jwk", key>>
LookedFor(key)   == <<"thumbprint", key>>

\* GetAccountByKey; any error means that there is no such account.  (An account is
\* never without its orders URL, so that an existing one is not updated.)
FindAccount(h) ==
  /\ pc[h] = "findAccount"
  /\ \E found \in {keyIndex[LookedFor(loc[h].jwk)]} \cup (IF MayFail THEN {None} ELSE {}) :
       LET result == IF found # None THEN "existing" ELSE "noAccount"
       IN  IF found = None /\ ~loc[h].only
             THEN Goto(h, "createAccount") /\ UNCHANGED loc
             ELSE Result(h, loc[h], result)
  /\ UNCHANGED <<now, storage, drawn, known, grants>>

\* Mutant: account and index entry are written by two transactions.
CreateAccountTwice(h) ==
  /\ pc[h] = "createAccount"
  /\ \/ \E a \in AccountIds :
          /\ accounts[a] = None
          /\ accounts' = [accounts EXCEPT ![a] = loc[h].jwk]
          /\ \/ keyIndex' = [keyIndex EXCEPT ![StoredUnder(loc[h].jwk)] = a]
             \/ MayFail /\ UNCHANGED keyIndex
          /\ Result(h, loc[h], "created")
     \/ MayFail /\ Result(h, loc[h], "serverError") /\ UNCHANGED <<accounts, keyIndex>>
  /\ UNCHANGED <<now, nonces, drawn, known, grants>>

\* CreateAccount writes the account and its index entry in one transaction.
CreateAccount(h) ==
  /\ pc[h] = "createAccount"
  /\ \/ \E a \in AccountIds :
          /\ accounts[a] = None
          /\ accounts' = [accounts EXCEPT ![a] = loc[h].jwk]
          /\ keyIndex' = [keyIndex EXCEPT ![StoredUnder(loc[h].jwk)] = a]
          /\ Result(h, loc[h], "created")
     \/ MayFail /\ Result(h, loc[h], "serverError") /\ UNCHANGED <<accounts, keyIndex>>
  /\ UNCHANGED <<now, nonces, drawn, known, grants>>

-----------------------------------------------------------------------------
(* The answer.                                                             *)

\* Mutant: an answer without a nonce is sent as it is.
WithoutNonceAnyway(result) == result

\* What becomes of an answer for which no nonce can be stored: a success turns into
\* a problem, which is given a nonce of its own if possible.
WithoutNonce(result) == IF result \in Successes THEN "serverError" ELSE result

\* Mutant: a nonce is dated with the time it expires.
DatedExpiry == now + Expiry + 1

\* What a new nonce is dated with.
Dated == now

\* generateNonce, for the Replay-Nonce header of every answer.
Reply(h) ==
  /\ pc[h] = "reply"
  /\ \/ \E n \in NonceValues \ drawn :
          /\ drawn' = drawn \cup {n}
          /\ nonces' = [nonces EXCEPT ![n] = Dated]
          /\ Local(h, [loc[h] EXCEPT !.replay = n])
          /\ Goto(h, "send")
     \/ /\ MayFail
        /\ Local(h, [loc[h] EXCEPT !.result = WithoutNonce(loc[h].result)])
        /\ IF WithoutNonce(loc[h].result) = loc[h].result THEN Goto(h, "send") ELSE UNCHANGED pc
        /\ UNCHANGED <<nonces, drawn>>
  /\ UNCHANGED <<now, accounts, keyIndex, known, grants>>

Send(h) ==
  /\ pc[h] = "send"
  /\ known' = known \cup ({loc[h].replay} \ {None})
  /\ Goto(h, "idle")
  /\ Local(h, NoLocals)
  /\ UNCHANGED <<now, storage, drawn, grants>>

-----------------------------------------------------------------------------
\* Bound: the clock stops at MaxTime.
Tick ==
  /\ now < MaxTime
  /\ now' = now + 1
  /\ UNCHANGED <<storage, pc, loc, drawn, known, grants>>

\* The process dies and is started again on the same database.
Crash ==
  /\ "crash" \in Faults
  /\ pc' = [h \in Handlers |-> "idle"]
  /\ loc' = [h \in Handlers |-> NoLocals]
  /\ UNCHANGED <<now, storage, drawn, known, grants>>

\* A client sends any nonce it knows, as often as it likes.
Receive(h) ==
  \/ NewNonce(h)
  \/ Refuse(h)
  \/ \E n \in known, k, s \in Keys, only \in BOOLEAN : NewAccount(h, n, k, s, only)
  \/ \E n \in known, a \in AccountIds, s \in Keys : Post(h, n, a, s)

Continue(h) ==
  \/ LookupJWK(h) \/ ReadNonce(h) \/ CommitNonce(h)
  \/ FindAccount(h) \/ CreateAccount(h) \/ Reply(h) \/ Send(h)

Next == Tick \/ Crash \/ \E h \in Handlers : Receive(h) \/ Continue(h)

Spec == Init /\ [][Next]_vars
==============================================================================
