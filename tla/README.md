# nanoca in TLA+

nanoca is an ACME server (RFC 8555) with one challenge type, `device-attest-01`:
a device proves what it is with a hardware attestation, an authorizer decides
whether it may have a certificate, and an issuer makes one.  This directory holds
TLA+ models of the server, TLC runs that check them on small instances, and
proofs, checked by TLAPS, that hold for every size.

    tlc -workers 2 -config MCOrderFlowConcurrent.cfg MCOrderFlow.tla
    tlapm OrderFlowProofs.tla

`PROJECT.json` lists components, runs, the mutants that show each property can be
broken, the source lines behind each definition, findings, hazards and theorems.


## 1. The system

Everything below is in `src/`; `handlers.go` is the largest part.

| Component | State | Operations | Hard about it |
|---|---|---|---|
| Orders (`handlers.go`, `types.go`) | challenges, authorizations, orders and certificates, in storage; copies of them in each request | newOrder, challenge response, status propagation (challenge → authorization → order), finalize, certificate download | every request is a goroutine; several storage calls per request; whole-object writes of copies read earlier; restarts between two calls |
| Nonces (`ca.go`, `handlers.go`) | stored nonces with their creation time | newNonce, one nonce for every answer, ConsumeNonce | one nonce in several requests; expiry; a failing store while answering |
| Accounts (`handlers.go`) | accounts and the key index | newAccount, lookup by `kid` | lookup and creation are separate calls; two forms of a key |
| JWS verification (`jose.go`, `handlers.go`) | none of its own | verifyPOST: parse, find the key, url, nonce, signature | order of the checks and their side effects |
| Attestation verifiers (`verifiers/`) | none | Verify, before and after storage | the statement changes its form in storage; attestations made for other challenges |
| Authorizers (`authorizers/`, `abm/client.go`) | none; Apple Business Manager behind one of them | Authorize: fetch the device list, search it | the organization changes meanwhile; the call fails |
| ABM token cache (`abm/jwt.go`) | a file per client id, shared by processes | Token: load, fetch, save | two expiry times, failing writes, restarts |
| Badger storage (`storage/badger/`) | the database | calls of one or two transactions; compare-and-set on challenges | transactions side by side; conflict detection; rollback on error |
| Issuer (`issuers/inprocess`), `certutil/` | none | IssueCertificate; build and parse subject alternative names | fresh serial numbers; encodings |
| Observers (`observers/`) | none | OnIssuance | called between two storage calls |
| CA wiring, binary, signers, directory, problems, logging | configuration | New, Handler, main | - |

How they interact: `Handler` routes a request to a handler; the handler calls
`verifyPOST`, which calls the storage for the key of the account and to consume the
nonce; it then works on orders through the storage, calls the verifier and the
authorizer in a challenge response, the verifier again, the issuer and the
observers in a finalize, and at last `generateNonce` for the answer.  Handlers share
nothing but the storage.  There are no background tasks, no locks in the handlers and
no retries: what a request leaves undone only another request can do.

What makes the parts correct:

* **Orders**: no certificate without a verified and authorized attestation for
  every identifier; statuses of challenge, authorization and order agree; verdicts
  are final; one request at a time is in charge of a challenge; certificate URLs
  resolve, for the owner of the order only; references never dangle; requests end,
  challenges are decided, orders settle.
* **Nonces, accounts, JWS**: a nonce lets one request through and is gone for
  good; what is acted upon is signed by the account it is done for; a success is
  never sent without a nonce, and a nonce sent can be used; the key index agrees
  with the accounts; newAccount finds the account of a key.
* **Token cache**: a token handed out had not expired when the call began; what other
  processes and restarts leave in the file never stands in the way of a call.
* **Storage**: every call seems to happen at one instant; a status update fails only if
  the status is no longer the one it expects; accounts and key index agree.
* **Verifiers, authorizers, certificates**: a challenge is valid only for a device that
  attested itself for it and that the organization had; what is built into the subject
  alternative name can be parsed back, and names the devices that finalize found: those that
  were authorized, where it asks the verifier that was asked before.


## 2. Modules

    AttestationData                      Requests          OneTimeTokens
          |                                 |                   |
      OrderFlow    OrderLifecycle     RequestsProperties -------+
          |             |                   |
    OrderFlowProperties-+             RequestsInvariant
          |                                  |             |
    OrderFlowInvariant ---- OrderFlowProofs      MCRequests  RequestsProofs
          |                        |
    OrderReferences ------- OrderReferencesProofs
          |                        |
    OrderSettlement ------- OrderSettlementProofs
          |                        |
    OrderProgress --------- OrderProgressProofs
          |
     MCOrderFlow

      TokenCache    TokenSource            StoreCalls           SubjectAltName
          |              |                 |       |                  |
    TokenCacheProperties-+       BadgerStore   AtomicStore      DeviceIdentity
       |          |                   |            |                  |
    MCTokenCache  TokenCacheProofs  BadgerStoreProperties    DeviceIdentityProperties
                                       |         |                |         |
                          MCBadgerStore  BadgerStoreProofs        |  DeviceIdentityProofs
                                                           MCDeviceIdentity

`X` above `Y`, or left of it, means that `Y` extends `X`; the abstract specifications
(`OrderLifecycle`, `OneTimeTokens`, `TokenSource`, `AtomicStore`) are instantiated with a
refinement mapping.

**OrderFlow** is `handlers.go` from `handleNewOrder` to `finalizeCertificate`.  A member
of `Handlers` is one goroutine of net/http.  `pc` is the storage call (or call of the
verifier, issuer or observers) it makes next, and `loc` holds the local variables of
the Go functions it is in, the copies `authz` and `order` (`az`, `ord`) among them.
Every such call is one action, since badger runs each as a transaction, and
requests interleave between any two.  `CollectDevice` alone is three calls for one
authorization, GetAuthorization, GetChallenge and the verifier: what it reads of a valid
authorization and its challenge never changes again.  `challenge`, `authz`, `order` and `cert` are what
the database stores; an authorization and its challenge are named by order and
position in `order.Authorizations` (the code's random ids are as good as fresh).
`approved` and `notified` are history.  A failing call is a disjunct of its own
guarded by `MayFail`, and goes where the error path of the code goes: some errors end
the request, some are only logged.  `Crash` restarts the process on the same database.

**AttestationData** says what becomes of an attestation statement on its way: CBOR
decoded and verified, encoded as JSON for the database (byte strings become base64
text, a nested map cannot be encoded at all), decoded and verified again.

**OrderLifecycle** is the abstract order: pending until its authorizations decide it,
ready or invalid then; finalized only from ready; a certificate exists before the
order names it; valid and invalid are final.

**Requests** is everything before and after that work: what arrives, `verifyPOST`,
newAccount, and the nonce of the answer.  `nonces`, `accounts` and `keyIndex` are the
database.  ConsumeNonce is two steps, `ReadNonce` and `CommitNonce`, because badger
runs transactions side by side and checks at commit whether a key that was read has
been written meanwhile (`Undisturbed`; it is the one definition that is modelled from
how badger is used and not from `src/`).  The signature is looked at in the same step
as the commit, after it: nothing another request does can be observed in between.
What a verified request does to orders is OrderFlow's, here it is only "served".
Time is a counter that `Tick` advances; `Expiry` is `nonceExpiry`.

**OneTimeTokens** is what a nonce promises: new, live, spent, and one use when it is
spent.

**TokenCache** is `abm/jwt.go` with the ReuseTokenSource around it.  `memory` is the token
ReuseTokenSource holds, `file` what is at the path of the cache, which all processes of one
client id and directory share.  `pc` is the next system call or exchange: `Load` (one
`os.ReadFile`), `Remove`, `Fetch`, then `os.WriteFile` as the two steps it is, `CreateFile`,
which truncates, and `WriteFile`.  `linked` says whether the file a process has open is still
the one at the path, since another process may remove it.  Reads and writes of a file this
small are single system calls.  A token stands for the time it expires.  `healthy` is the end
of all failures, which the progress property needs; `good` is history.

**TokenSource** is what a caller may expect: an answer is a token that was valid, or obtained,
during the call, or an error.

**BadgerStore** is `storage/badger/storage.go` as badger runs it, under the names of
**StoreCalls**, which is the interface in `storage.go`.  A transaction that only reads or only
writes is one step; `updateChallengeStatus`, which writes what it has read, is two
(`ReadChallenge` on a snapshot, then `CommitChallenge` or `Conflict`); UpdateOrder,
UpdateAuthorization, UpdateAccount and GetAccountByKey are two transactions.  Orders,
authorizations and certificates are `documents`, as their calls have the same shape; nonces
are in Requests.  `overtaken` is what badger remembers of commits that touch the reads of
open transactions.  `Fresh` and `SameKey` are what the handlers keep to: ids are random, and no
handler gives an account another key.

**AtomicStore** is what the handlers, and the other modules, take the storage for: one
instant per call, one copy of the objects.

**SubjectAltName** is `certutil/`: `certutil.go` writes DER elements, `parse.go` reads them.  An
element is its tag, the length of its content and the content, in a sequence of numbers.

**DeviceIdentity** follows a device from its attestation to its certificate.  `Attest` and
`Reorganize` are Apple's and the organization's part.  `Respond`, `Verify`, `AuthorizeNull`,
`FetchDevices`, `Decide` are one challenge response, from SetChallengeProcessing to the
verdict, with the calls that leave the process as steps of their own.  `Extracted` is the
second verification, of the statement as it came back from storage, and `IssueCertificate`
builds the extension for what that finds.  The two look the verifier up differently: `Respond`
by the format of the attestation object, `Extracted` by what stands in the `attStmt` map under
"fmt", and a client may send any combination (`Sendable`).  The statuses of orders and the interleaving of
requests are OrderFlow's.

**OrderReferences**, **OrderSettlement** and **OrderProgress** are the inductive invariants of
OrderFlow that stand on that of OrderFlowInvariant, each on those before it: what stored objects
say of one another, what requests still may rely on when no two of them settle an order side by
side, and who is at work on what is not settled yet.  The last two also state the properties
that speak of these notions, `AloneFinalStates`, `CertificatesReachable` and `NothingStranded`.

**...Properties** state what should hold, **...Invariant** the inductive invariants,
**MC...** the instances for TLC, **...Proofs** the theorems.

### Abstractions

* Requests that only read (GET of orders, authorizations, challenges, certificates),
  and early returns before anything was written, are no steps.  Certificate download is
  the predicate `Downloadable`.
* In OrderFlow the client of a challenge response knows the challenge from the answer
  to its newOrder, so the order exists.
* Order expiry, notBefore and notAfter are stored but looked at nowhere in the code.
* A storage call that returns an error has changed nothing; a commit that took effect
  but reports an error is not modelled.
* Ids, tokens and serial numbers are fresh: each is at least 128 random bits (serial
  numbers from the issuer).
* CSRs are well-formed; a malformed one is refused before anything is written.
* In DeviceIdentity a verdict is stored in one step; a store call that fails there leaves the
  challenge processing, as a crash does (OrderFlow has both).
* What finalize fails to read it leaves out of the certificate: in DeviceIdentity such an order has
  fewer challenges.
* The hash of a challenge's token is told apart from those of other tokens, so that the
  challenge stands for it.
* `Verifiers` are the formats a program has registered.  A verifier besides those of the
  repository (`interfaces.go`) returns any device information or an error, one for the statement
  that was sent (`other`), one for any statement as it comes back from the store (`again`),
  which need not be the same; asked again about the same stored statement, it repeats itself.
* Of the `attStmt` map the models keep what stands under "fmt" (any format, registered or not, or
  nothing) and the chain under "x5c".  For the chains that Apple's intermediate has not signed,
  which are refused whatever else is sent, "fmt" is left out.
* In Requests a client sends any nonce that some client has received, as often as it
  likes, naming any account and signing with any key.  An invented nonce is refused
  as a spent one is.


## 3. Runs

| Run | Bounds | Shows |
|---|---|---|
| `order_concurrent` | 3 handlers, 2 accounts, 1 order of up to 2 identifiers, 2 serials, errors and crashes | the safety properties of every order, final states of the orders that have them, and the inductive invariants `IInv`, `RefInv` and `SettleInv` |
| `order_single` | 3 handlers, 2 accounts, 2 orders of one identifier, 2 serials, errors and crashes | the whole of OrderLifecycle, final states and the answer of finalize; an order for which a certificate was issued does not end without one |
| `order_live` | 3 handlers, 1 order of up to 2 identifiers, no failures, fairness | requests end, challenges are decided, orders settle unless two requests are about to write copies of one side by side; nothing is left undone without a request at work on it |
| `order_final_states` | violation | see findings |
| `certificate_device` | violation | see findings |
| `requests_concurrent` | 2 handlers, 2 keys, 2 accounts, 3 nonces, 2 instants, errors and crashes | nonces, authentication and key index, OneTimeTokens, and the inductive invariants |
| `account_found` | violation | see findings |
| `nonce_consumed` | violation | see findings |
| `token_cache` | 2 processes, lifetimes of 0, 1 or none, a week, a margin and a clock of one unit | CacheInv, the promise of TokenSource, and that calls get tokens once failures end |
| `badger_store` | 2 clients, 2 documents, 1 challenge, 2 accounts, 2 keys, errors and crashes | the store invariant, and AtomicStore |
| `device_identity` | 2 challenges, verifiers of all formats, an Apple device, 2 other device infos, errors and crashes | only attested devices are authorized, certificates are for authorized devices where the verifier is the same, and are read back as the devices found |
| `certificate_authorized` | violation | see findings |

The exact constants are in the `.cfg` files.

**Why the bounds are enough.**  Two requests racing for one challenge, order or nonce,
and a third one finalizing, are the interesting crowds: a property of `OrderFlow` relates
at most two handlers.  Two identifiers are the fewest for which authorizations differ,
and orders do not touch each other's state, so one order does.  Two
serials let two finalize requests overlap, or one be repeated.  Three nonces let a
nonce be issued, used by two requests at a time, and its successor be handed out;
`Expiry = 0` with two instants makes a nonce both fresh and expired.  The proofs are
there for all other sizes.
Of the token cache, two processes are enough for one to remove, truncate or overwrite what the
other has written, and one unit each makes every token, entry and margin fresh and stale once.
Two clients make the two transactions of a call meet one of another call, two accounts with two
keys let an index entry be replaced.  Of challenges, two let an attestation made for one be sent
for the other.  Of the two infos of the other verifier one is complete, and one has no identifier
and an object identifier that cannot be encoded; the null verifier's has no assigner and no
hardware module.  A certificate with two devices has up to four otherNames and two URIs.  Devices
without a serial number, and all other combinations, are left to the proofs.

**Bounds in the models.**  `OrderIds`, `Serials`, `AccountIds` and `NonceValues` are
finite supplies of fresh values.  Where a supply runs out the request that would need
a value is not received (`SerialLeft`, `NonceLeft`, `AccountLeft`), so that no handler
gets stuck in the middle.  `MaxTime` stops the clock.

**Deadlock** is checked in `token_cache` only.  Elsewhere the server may rest: when no client
sends anything, or the supplies are used up.

**Symmetry** is used in safety runs only.

**Fairness.**  `FairSpec` has weak fairness of `Continue` for each handler: the Go
scheduler is preemptive and runs every goroutine that can run, and storage calls
return.  Nothing is assumed of clients (`Begin` has no fairness).  The progress
properties assume that no call fails and the process lives; the code has no recovery
that would justify more: a failure between SetChallengeProcessing and the verdict
leaves a challenge processing for good.

TokenCache's `FairSpec` has weak fairness of `Continue` for each process while `healthy`.  That is
more than the code guarantees: the exchange has no deadline, and an endpoint that accepts
the connection and never answers holds the mutex of ReuseTokenSource for good.  It is the
premise of `CallsRecover`, which is about what earlier failures leave in the file.


## 4. Proofs

`OrderFlowProofs` proves, for any constants that satisfy the assumptions
(`VerifiersAssumption`, `OrderFlowAssumption`): `TypeCorrect`, `IssuanceIsJustified`,
`OrderIsJustified`, `AuthzIsJustified` and `ProcessorIsSole`, each as
`Spec => []Property`, from `Invariance == Spec => []IInv`.

*Why `IInv`.*  finalizeCertificate checks nothing but the status of the order, so that
`IssuanceJustified` rests on `order = ready` meaning that all authorizations are valid
(`StatusOK`).  That is not inductive either, as orders are written from copies: the
copy in a handler must satisfy the same (`CopyOK`), stale as it may be, and it does
because a decided authorization never changes.  That in turn rests on `ProcessorOK`
and `SoleProcessor`: only the one request that the compare-and-set let through may
write the authorization.  Last, an order is written after its authorizations
(`OrderLast`, `CreatorOK`, `SoleCreator`), so that it can never exist without them.
The argument has three groups of lemmas: a storage step keeps the facts of one
handler; steps of other handlers leave its facts alone; one lemma per action puts
these together.

Three more modules build on that, each with an invariant that is inductive together with those
before it:

* `OrderReferencesProofs`, `ReferenceInvariance == Spec => []RefInv`: `CertificateUrlsResolve`,
  `DownloadsByOwner`, `ReferencesHold` and `VerdictsAreFinal`.  *Why `RefInv`*: objects name one
  another, and are written from copies one after the other.  That a stored order names only
  what exists needs what newOrder has made so far (`CreatorRefs`), that what a finalize
  request holds is its own (`CopyRefs`), and that nobody responds to a challenge before the
  order with it is stored (`ChallengesMade`).
* `OrderSettlementProofs`, `SettlementInvariance == Spec => []SettleInv`: `AloneOrdersKeepFinalStates`,
  that an order keeps its final state if it has one challenge, or requests are served one at
  a time (`Alone`); and with that assumed of every order (`EveryOrderAlone`: `MaxIdents = 1`, or one
  handler), `FinalStatesAreFinal`, `FinalizedAnswers` and the refinement of OrderLifecycle,
  `LifecycleIsKept`.  The hypothesis is the exact complement of the first finding: without it
  the code does lose final states.  *Why `SettleInv`*: updateOrderStatus acts on a copy of the order,
  and the copy is right only as long as no other response to a challenge of the order is under
  way (`SoleResponse`); what a handler that is alone has read is therefore `StillTrue` when it writes.
  `CertificatesAreReachable` is about each order that is alone, with any number of finalize requests
  and any failures: two finalize requests at a time store two certificates, and one whose
  UpdateOrder fails, or dies before it, stores one that no order names.  The order then still names one
  that can be downloaded, or is ready to be finalized again.  *Why `IssuedInv`*: that needs that an
  order stays `ready` or `valid` from its first certificate on, which is what `StillTrue` says of a
  handler in finalize.
* `OrderProgressProofs`, `ProgressInvariance` and `NothingIsStranded`, that a challenge in processing
  has a request judging it, and an order whose challenges are decided has the status that follows
  or a request that is still to write it.  It is the safety core of the liveness properties: with
  it, they need only that requests end.  The hypothesis is `NothingFails`: no call fails, the
  process lives, and every statement can be stored (section 5 says what a failure, or a statement
  that cannot be stored, leaves behind).  *Why `ProgressInv`*: the verdict travels from
  challenge to authorization to order, and at each stage somebody must hold it (`Attended`,
  `OrderAttended`) and what it holds must be right (`SpreaderOK`, `SettlerOK`).

`RequestsProofs` proves, from `RequestsAssumption`: `TypeCorrect`, `NoncesAreSingleUse`,
`RequestsAreAuthenticated`, `KeysAreIndexed`, and `TokensAreKept`, that Requests implements
OneTimeTokens.

*Why `RInv`.*  That a nonce is used once needs that one that is stored was never used
(`NoncesOK`), and that `Undisturbed` at commit implies that it is still stored
(`RequestOK`: `seen` is not None).  `Authenticated` needs that the key a request was
verified with stays the key of the account it names: an account, once made, is
never given another key.

*Why `ReplayInv`.*  `ReplayInvariance` and `ReplayNoncesAreUsable` are about the nonce of an answer: it has
not been used when it is sent because no client knows it yet, which needs that clients know
only nonces that have been sent, and that no two answers on their way carry the same one
(`SoleReplay`).

The invariants are also invariants of the runs: `IInv`, `RefInv` and `SettleInv` of
`order_concurrent`, `RInv` and `ReplayInv` of `requests_concurrent`.  `ProgressInv` is seen there only by
its consequence `NothingStranded`, in `order_live`.

`TokenCacheProofs` proves `CacheInvariance` and `PromiseIsKept` from `TokenCacheAssumption`.  *Why
`CacheInv`*: that an entry found in the file may be answered with rests on the entry having
been issued, and on every valid token being `good` for the calls under way, whoever obtained it.

`BadgerStoreProofs` proves `StoreInvariance` and `StoreRefinesAtomic`.  *Why `StoreInv`*: the second
transaction of a call takes effect as if it were the whole call, so what the first one found
must still hold (`CallsInv`), which in turn needs that index entries never dangle
(`IndexInv`) and that nobody gives an account another key (`CallersInv`).  `ConflictsInv` says what
a conflict means: the challenge has moved on, so that the update had to fail.

`DeviceIdentityProofs` proves `IdentityInvariance` and `AuthorizedDevicesAttested` by one lemma per
action on what the invariant says of one challenge; `CertificatesAreAuthorized`, that at finalize every
challenge of the order is valid, and that where the statement names in its map the format it was
verified in, and the verifier of that format repeats itself (`SameVerifier`), what is found is the device
that was authorized, or none; `CertificatesIdentify`, that the identities of exactly the devices found
at finalize are read from the certificate, whatever verifier has found them; and, as facts
about `certutil` for all inputs, `PermanentIdentifierRoundTrip`, `HardwareModuleRoundTrip`,
`OtherNameRoundTrip`, `SubjectAltNameRoundTrip` and `VerifiedDevicesIssuable`.

*The loops.*  `FlattenSeq` and the loop of ParseOtherNames (`OtherNames`) are recursive functions, and what
they compute for every sequence needs an induction.  The induction theorems of the library cannot be
instantiated by the provers, but the well-foundedness of the natural numbers can be used:
`LeastNumber` says that a set of numbers has a least one, `Descent` that a set of numbers each of
which has a smaller one in it is empty, and every induction is about the set of counterexamples
(lengths of sequences, numbers of devices).  That the recursive functions exist is proved that way
too (`FlattensExists`, `ReadsExists`): the loop ends because what follows an element is shorter.

*Only model-checked*: everything about progress (`RequestsAnswered`, `ChallengeDecided`,
`OrderSettles`, `CallsRecover`), as liveness under fairness is beyond the prover.

*Only proved*: `LifecycleKept` for orders with several identifiers and requests served one at a
time, as the runs have several handlers; that two newAccount requests between look-up and creation
leave the index right (`KeysAreIndexed`); and that without errors of the database a call of
AtomicStore fails only for a reason its caller can see (`StoreRefinesAtomic`), as `badger_store`
allows errors.


## 5. Findings

* **A final order does not stay final** (`order_final_states`).  `updateOrderStatus` checks
  "Final states" on a copy and `UpdateOrder` writes the whole copy.  With two identifiers and two
  challenge responses under way, one may put an order back that the other has made
  invalid or ready, or that has been finalized, and no later request repairs it.
* **Certificates carry no device** (`certificate_device`).  At finalize the format is
  looked for in the stored `attStmt`, where it is not, and the certificates in `x5c`
  have become text.  The README promises serial number and UDID in the SAN.
* **newAccount never finds an account** (`account_found`).  Accounts are indexed by
  the JSON of the JWK and looked for by its thumbprint.
* **Expired nonces are never removed** (`nonce_consumed`).  ConsumeNonce deletes an expired
  nonce in a transaction that it then fails.
* **A certificate may be for a device that nobody authorized** (`certificate_authorized`).  The
  authorizer is asked about the device that the verifier of the attestation object's format has
  found; finalize asks the verifier whose format stands in the `attStmt` map, and no authorizer.
  Nothing compares the two.  It takes two registered verifiers; the programs in the repository
  register one each.

Two more behaviours have no property of their own: a challenge whose statement cannot be stored
(a nested map) stays processing, and a restart between SetChallengeProcessing and the verdict
does the same.


## 6. Not modelled

* Cryptography, X.509 path validation, the parsing of JWS and CBOR, the request URL check:
  verdicts are nondeterministic or one Boolean (`SignatureValid`, `Trusted`).
* DER below the level of elements: lengths of several bytes, the bytes of object identifiers,
  characters.
* Directory, problem documents, logging, observers' output, flags, signers, examples
  and the test server: formatting or configuration, no state.
* The update of an existing account in handleNewAccount is never reached, as no account is
  found (finding on `account_found`); the storage call itself is in BadgerStore.
* handleCertificate's two reads, GetCertificate and GetOrdersByAccount, are one predicate
  (`Downloadable`): certificates are never changed, and an order that names one keeps it or has been
  overwritten (first finding).
* The endpoint, Apple Business Manager, badger and the file system: only what the code sees of them.


## 7. Plan

Done: `OrderFlow`, `Requests`, `TokenCache`, `BadgerStore`, `DeviceIdentity` with their abstractions,
runs and proofs of every invariant, action property and refinement that the runs check.  Next:

* `Server`: the composition of `Requests` and `OrderFlow`, where "served" is the
  beginning of an order request and the nonce of the answer its end.  To show:
  an order is changed only by a request verified for its account and once per nonce,
  and a success is answered only after what it reports is stored.
