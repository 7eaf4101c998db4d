---------------------------- MODULE DeviceIdentity ----------------------------
(***************************************************************************)
(* The way of a device's identity: from its attestation, which a verifier  *)
(* accepts for one challenge, through the authorizer, into the             *)
(* SubjectAltName of a certificate.  The statuses and requests of orders   *)
(* are OrderFlow's; of them remains, for each challenge, the one request   *)
(* that has taken it into processing.                                      *)
(*                                                                         *)
(* The token of a challenge is random, so that the challenge stands for    *)
(* it, and a hash of a token is told apart from every other.               *)
(***************************************************************************)
EXTENDS SubjectAltName, FiniteSets

CONSTANTS
  Challenges,
  Devices,     \* [serial, udid] of the devices; an empty text is not certified
  Verifiers,   \* the formats for which a verifier is registered
  OtherInfos,  \* what verifiers other than those of the repository may return
  URIs,        \* the URIs of a certificate request that has some, in sequence
  Faults       \* "error": the MDM server cannot be asked; "crash"

DeviceInfos == [pi : PermanentIdentifiers \cup {None}, hm : HardwareModules \cup {None}]

VARIABLES
  authorizer,    \* the one the server was started with
  organization,  \* serial numbers the organization has at Apple Business Manager
  attested,      \* attestation certificates that Apple has issued
  status,        \* Challenges -> status
  step,          \* Challenges -> what the request that processes it does next
  stmt,          \* Challenges -> the statement sent, None if there is none
  info,          \* Challenges -> the device found in it
  listed,        \* Challenges -> the serial numbers fetched for it
  enrolled,      \* history: Challenges -> serial numbers there were meanwhile
  certificate    \* the last certificate: for which challenges, with what in it

vars == <<authorizer, organization, attested, status, step, stmt, info, listed, enrolled,
          certificate>>

\* An entry of the organization that comes without a serial number counts as <<>>.
Serials == {d.serial : d \in Devices} \cup {<<>>}

\* A certificate that attests a device for a challenge, signed by Apple's intermediate
\* or by someone else.
Attestations == [nonce : Challenges, device : Devices, by : {"apple", "other"}]

Formats == {"apple", "null", "other"}

\* An attestation object: its format, and of its attStmt what stands there as "fmt", None
\* if that is no format; the first certificate of x5c, None if x5c is not an array of
\* certificates; and whether the intermediate follows.  The verifier of another format
\* returns "other" for what is sent, and "again" for what comes back from the store.
Statements ==
  [format : Formats, fmt : Formats \cup {None}, leaf : Attestations \cup {None},
   intermediate : BOOLEAN, other : OtherInfos \cup {None}, again : OtherInfos \cup {None}]

ASSUME DeviceIdentityAssumption ==
  /\ Verifiers \subseteq Formats
  /\ Devices \subseteq [serial : Seq(Nat), udid : Seq(Nat)]
  /\ OtherInfos \subseteq DeviceInfos
  /\ URIs \in Seq(Seq(Nat)) /\ IsFiniteSet(Challenges)
  /\ None \notin PermanentIdentifiers \cup HardwareModules /\ None \notin Statements
  /\ None \notin Extensions \cup Formats

TypeOK ==
  /\ authorizer \in {"abm", "null"}
  /\ organization \subseteq Serials
  /\ attested \subseteq Attestations
  /\ status \in [Challenges -> {"pending", "processing", "valid", "invalid"}]
  /\ step \in [Challenges -> {"idle", "verify", "authorize", "decide"}]
  /\ stmt \in [Challenges -> Statements \cup {None}]
  /\ info \in [Challenges -> DeviceInfos \cup {None}]
  /\ listed \in [Challenges -> SUBSET Serials]
  /\ enrolled \in [Challenges -> SUBSET Serials]

Init ==
  /\ authorizer \in {"abm", "null"}
  /\ organization \in SUBSET Serials
  /\ attested = {}
  /\ status = [c \in Challenges |-> "pending"]
  /\ step = [c \in Challenges |-> "idle"]
  /\ stmt = [c \in Challenges |-> None]
  /\ info = [c \in Challenges |-> None]
  /\ listed = [c \in Challenges |-> {}]
  /\ enrolled = [c \in Challenges |-> {}]
  /\ certificate = None

-----------------------------------------------------------------------------
(* Outside.                                                                *)

\* A device has itself attested for a challenge its owner has been given.
Attest(c, device) ==
  /\ attested' = attested \cup {[nonce |-> c, device |-> device, by |-> "apple"]}
  /\ UNCHANGED <<authorizer, organization, status, step, stmt, info, listed, enrolled,
                 certificate>>

\* A device joins or leaves the organization.
Reorganize(s) ==
  /\ organization' = IF s \in organization THEN organization \ {s} ELSE organization \cup {s}
  /\ enrolled' = [c \in Challenges |-> IF step[c] = "idle" THEN enrolled[c]
                                       ELSE enrolled[c] \cup organization']
  /\ UNCHANGED <<authorizer, attested, status, step, stmt, info, listed, certificate>>

\* What a client may send for c.  Nothing makes "fmt" agree with the format.
Sendable(c) ==
  {s \in
        [format : {"apple"}, fmt : Formats \cup {None}, leaf : attested \cup {None},
         intermediate : BOOLEAN, other : {None}, again : OtherInfos \cup {None}]
   \cup [format : {"apple"}, fmt : {None}, leaf : [nonce : {c}, device : Devices, by : {"other"}],
         intermediate : {FALSE}, other : {None}, again : {None}]
   \cup [format : {"null"}, fmt : Formats \cup {None}, leaf : {None}, intermediate : {FALSE},
         other : {None}, again : OtherInfos \cup {None}]
   \cup [format : {"other"}, fmt : Formats \cup {None}, leaf : {None}, intermediate : {FALSE},
         other : OtherInfos \cup {None}, again : OtherInfos \cup {None}] :
     /\ s.intermediate => s.leaf # None
     /\ s.again # None => s.fmt = "other"}

\* A verifier is looked up by the format of the attestation object; then, by
\* SetChallengeProcessing, one of several responses is looked at.
Respond(c, s) ==
  /\ s.format \in Verifiers
  /\ status[c] = "pending"
  /\ status' = [status EXCEPT ![c] = "processing"]
  /\ step' = [step EXCEPT ![c] = "verify"]
  /\ stmt' = [stmt EXCEPT ![c] = s]
  /\ enrolled' = [enrolled EXCEPT ![c] = organization]
  /\ UNCHANGED <<authorizer, organization, attested, info, listed, certificate>>

-----------------------------------------------------------------------------
(* The verifiers.                                                          *)

NullDevice == [pi |-> [identifier |-> <<0>>, assigner |-> <<>>], hm |-> None]

OIDDeviceUDID == <<1, 2, 840, 113635, 100, 8, 9, 2>>

NewDeviceInfo(serial, udid) ==
  [pi |-> IF serial = <<>> THEN None ELSE [identifier |-> serial, assigner |-> <<>>],
   hm |-> IF udid = <<>> THEN None ELSE [type |-> OIDDeviceUDID, value |-> udid]]

\* Mutant: the nonce of the certificate is only looked for, not compared.
NonceThere(leaf, c) == leaf.nonce \in Challenges

\* verifyNonceExtension, for the hash of the token of c.
NonceMatches(leaf, c) == leaf.nonce = c

\* verifyCertificateChain.
Trusted(s) == s.leaf.by = "apple" /\ s.intermediate

\* What Verify returns for a statement sent for c, None for an error.
Verified(s, c) ==
  CASE s.format = "null"  -> NullDevice
    [] s.format = "other" -> s.other
    [] s.format = "apple" ->
         IF s.leaf # None /\ NonceMatches(s.leaf, c) /\ Trusted(s)
           THEN NewDeviceInfo(s.leaf.device.serial, s.leaf.device.udid)
           ELSE None

-----------------------------------------------------------------------------
(* The rest of handleChallengeResponse.                                    *)

MayFail == "error" \in Faults

\* The verdict on c.  Of an invalid challenge nothing is kept.
Settle(c, verdict) ==
  /\ status' = [status EXCEPT ![c] = verdict]
  /\ step' = [step EXCEPT ![c] = "idle"]
  /\ listed' = [listed EXCEPT ![c] = {}]
  /\ IF verdict = "valid" THEN UNCHANGED <<stmt, info, enrolled>>
     ELSE /\ stmt' = [stmt EXCEPT ![c] = None]
          /\ info' = [info EXCEPT ![c] = None]
          /\ enrolled' = [enrolled EXCEPT ![c] = {}]

Verify(c) ==
  /\ step[c] = "verify"
  /\ LET device == Verified(stmt[c], c)
     IN  \/ /\ device # None
            /\ info' = [info EXCEPT ![c] = device]
            /\ step' = [step EXCEPT ![c] = "authorize"]
            /\ UNCHANGED <<status, stmt, listed, enrolled>>
         \/ /\ device = None
            /\ Settle(c, "invalid")
  /\ UNCHANGED <<authorizer, organization, attested, certificate>>

\* The null authorizer allows every device.
AuthorizeNull(c) ==
  /\ step[c] = "authorize" /\ authorizer = "null"
  /\ Settle(c, "valid")
  /\ UNCHANGED <<authorizer, organization, attested, certificate>>

\* Empty if the device has no permanent identifier.
SerialOf(device) == IF device.pi = None THEN <<>> ELSE device.pi.identifier

\* Mutant: the list is searched for a device without a serial number too.
FetchAnyway(c) ==
  /\ step[c] = "authorize" /\ authorizer = "abm"
  /\ listed' = [listed EXCEPT ![c] = organization]
  /\ step' = [step EXCEPT ![c] = "decide"]
  /\ UNCHANGED <<authorizer, organization, attested, certificate, status, stmt, info, enrolled>>

\* ABMAuthorizer.Authorize: a device without a serial number is an error, and so is
\* a list that cannot be fetched; an error makes the challenge invalid.
FetchDevices(c) ==
  /\ step[c] = "authorize" /\ authorizer = "abm"
  /\ \/ /\ SerialOf(info[c]) # <<>>
        /\ listed' = [listed EXCEPT ![c] = organization]
        /\ step' = [step EXCEPT ![c] = "decide"]
        /\ UNCHANGED <<status, stmt, info, enrolled>>
     \/ /\ SerialOf(info[c]) = <<>> \/ MayFail
        /\ Settle(c, "invalid")
  /\ UNCHANGED <<authorizer, organization, attested, certificate>>

Decide(c) ==
  /\ step[c] = "decide"
  /\ Settle(c, IF SerialOf(info[c]) \in listed[c] THEN "valid" ELSE "invalid")
  /\ UNCHANGED <<authorizer, organization, attested, certificate>>

-----------------------------------------------------------------------------
(* Finalize.                                                               *)

\* The statement as finalize has it from the store: of the attestation object there is
\* only attStmt left, with text for its byte strings.
Stored(s) == [s EXCEPT !.format = s.fmt, !.leaf = None, !.other = s.again]

\* extractDeviceInfoFromChallenge looks the verifier up by the "fmt" of attStmt.
Extracted(c) == IF stmt[c].fmt \in Verifiers THEN Verified(Stored(stmt[c]), c) ELSE None

\* The devices for which finalizeCertificate issues a certificate.
DevicesOf(order) ==
  FlattenSeq([i \in DOMAIN order |->
                IF Extracted(order[i]) = None THEN <<>> ELSE <<Extracted(order[i])>>])

\* Mutant: an order is ready for its certificate while a response to it is looked at.
AnsweredOrders ==
  {order \in UNION {[1 .. n -> Challenges] : n \in 1 .. Cardinality(Challenges)} :
     /\ \A i \in DOMAIN order : stmt[order[i]] # None
     /\ \A i, j \in DOMAIN order : order[i] = order[j] => i = j}

\* The challenges of an order that is ready, in the order of its authorizations,
\* without those that finalize fails to read and leaves out.
ReadyOrders ==
  {order \in UNION {[1 .. n -> Challenges] : n \in 1 .. Cardinality(Challenges)} :
     /\ \A i \in DOMAIN order : status[order[i]] = "valid"
     /\ \A i, j \in DOMAIN order : order[i] = order[j] => i = j}

\* IssueCertificate.  The certificate has other extensions before that of
\* BuildSANExtension.
IssueCertificate(order, uris) ==
  /\ ~Refused(DevicesOf(order))
  /\ certificate' = [order |-> order,
                     extensions |-> <<[id |-> "keyUsage", value |-> <<>>]>>
                                      \o BuildSANExtension(DevicesOf(order), uris)]
  /\ UNCHANGED <<authorizer, organization, attested, status, step, stmt, info, listed, enrolled>>

-----------------------------------------------------------------------------
\* The process dies: what it was processing stays so.
Crash ==
  /\ "crash" \in Faults
  /\ step' = [c \in Challenges |-> "idle"]
  /\ listed' = [c \in Challenges |-> {}]
  /\ stmt' = [c \in Challenges |-> IF status[c] = "valid" THEN stmt[c] ELSE None]
  /\ info' = [c \in Challenges |-> IF status[c] = "valid" THEN info[c] ELSE None]
  /\ enrolled' = [c \in Challenges |-> IF status[c] = "valid" THEN enrolled[c] ELSE {}]
  /\ UNCHANGED <<authorizer, organization, attested, status, certificate>>

Next ==
  \/ \E c \in Challenges :
       \/ \E device \in Devices : Attest(c, device)
       \/ \E s \in Sendable(c) : Respond(c, s)
       \/ Verify(c) \/ AuthorizeNull(c) \/ FetchDevices(c) \/ Decide(c)
  \/ \E s \in Serials \ {<<>>} : Reorganize(s)
  \/ \E order \in ReadyOrders, uris \in {<<>>, URIs} : IssueCertificate(order, uris)
  \/ Crash

Spec == Init /\ [][Next]_vars
==============================================================================
