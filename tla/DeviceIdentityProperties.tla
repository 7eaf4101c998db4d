----------------------- MODULE DeviceIdentityProperties -----------------------
(* What a certificate, and a valid challenge, should say of a device.      *)
EXTENDS DeviceIdentity

\* A challenge is valid for an Apple device only if that device was attested for this
\* very challenge, whatever statements clients have sent for it, and with the Apple
\* Business Manager authorizer only if its serial number was in the organization at
\* some time while the challenge was processed; a device without one never is.
AuthorizedIsAttested ==
  \A c \in Challenges : status[c] = "valid" =>
    /\ stmt[c].format = "apple" =>
         \E device \in Devices :
           /\ [nonce |-> c, device |-> device, by |-> "apple"] \in attested
           /\ info[c] = NewDeviceInfo(device.serial, device.udid)
    /\ authorizer = "abm" => SerialOf(info[c]) \in enrolled[c] \ {<<>>}

\* AuthorizedIsAttested, and what it rests on: a device that is to be authorized has been
\* verified, and what was listed for it was in the organization meanwhile.
IdentityInv ==
  /\ TypeOK
  /\ AuthorizedIsAttested
  /\ \A c \in Challenges :
       /\ step[c] # "idle" => status[c] = "processing" /\ organization \subseteq enrolled[c]
       /\ step[c] # "idle" \/ status[c] = "valid" => stmt[c] # None
       /\ step[c] \in {"authorize", "decide"} \/ status[c] = "valid" =>
            info[c] = Verified(stmt[c], c) /\ info[c] # None
       /\ listed[c] \subseteq (IF step[c] = "decide" THEN enrolled[c] ELSE {})
       /\ step[c] = "decide" => authorizer = "abm" /\ SerialOf(info[c]) # <<>>
       /\ stmt[c] # None /\ stmt[c].leaf # None /\ stmt[c].leaf.by = "apple" =>
            stmt[c].leaf \in attested

\* Finalize asks the verifier that the response was verified with, or none, and of a
\* stored statement that verifier says what it said of the statement sent, or nothing.
SameVerifier(s) == s.fmt \in {s.format, None} /\ s.again \in {None, s.other}

\* A certificate is for challenges that are valid.  Where finalize, which verifies each
\* statement again as it comes back from the store, asks the verifier that was asked
\* before, it finds the device that the authorizer allowed, or none.
CertifiedAsAuthorized ==
  certificate # None => \A i \in DOMAIN certificate.order :
    LET c == certificate.order[i]
    IN  /\ status[c] = "valid"
        /\ SameVerifier(stmt[c]) =>
             /\ Extracted(c) \in {None, info[c]}
             /\ Extracted(c) # None /\ authorizer = "abm" =>
                  SerialOf(Extracted(c)) \in enrolled[c] \ {<<>>}

\* abm.go says of Authorize that it "determines if a device is authorized for certificate
\* issuance by checking if the device serial number exists in the ABM organization".  So
\* a device for which a certificate is issued has a serial number that was there while
\* its challenge was processed.  It is not so where the map of the statement names
\* another verifier than the one that was asked before the authorizer was.
CertifiedInOrganization ==
  certificate # None /\ authorizer = "abm" => \A i \in DOMAIN certificate.order :
    LET c == certificate.order[i]
    IN  Extracted(c) # None => SerialOf(Extracted(c)) \in enrolled[c] \ {<<>>}

\* What the readers of parse.go find in the certificate.
NamesRead ==
  LET san   == FindExtension(certificate.extensions, "subjectAltName")
      names == ParseOtherNames(san.value).names
  IN  IF san = None THEN <<>>
      ELSE [i \in DOMAIN names |->
              IF names[i].typeID = OIDPermanentIdentifier
                THEN ParsePermanentIdentifier(names[i].value)
                ELSE ParseHardwareModule(names[i].value)]

Read(x) == IF x = None THEN <<>> ELSE <<[ok |-> TRUE, value |-> x]>>

\* A certificate names, one after the other and with nothing else between them, the
\* permanent identifiers and hardware modules of the devices that finalize has found for
\* its challenges: whatever else is in it, they are read from it as they were found.
CertificateIdentifies ==
  certificate # None =>
    LET devices == DevicesOf(certificate.order)
    IN  NamesRead = FlattenSeq([i \in DOMAIN devices |->
                                  Read(devices[i].pi) \o Read(devices[i].hm)])
==============================================================================
