------------------------- MODULE DeviceIdentityProofs -------------------------
(* Theorems about DeviceIdentity and SubjectAltName, for any devices.      *)
EXTENDS DeviceIdentityProperties, TLAPS, SequenceTheorems, FiniteSetTheorems, WellFoundedInduction,
        Integers

-----------------------------------------------------------------------------
(* What is written is read again.                                          *)

\* The first element of what begins with one is that element.
LEMMA UnmarshalElement ==
  ASSUME NEW tag \in Nat, NEW content \in Seq(Nat), NEW rest \in Seq(Nat)
  PROVE  Unmarshal(Element(tag, content) \o rest) =
           [ok |-> TRUE, tag |-> tag, content |-> content, rest |-> rest]
  <1> DEFINE head == <<tag, Len(content)>>
             der  == (head \o content) \o rest
  <1>1. head \in Seq(Nat) /\ Len(head) = 2 /\ head[1] = tag /\ head[2] = Len(content)
    OBVIOUS
  <1>2. der \in Seq(Nat) /\ Len(der) = 2 + Len(content) + Len(rest)
    BY <1>1
  <1>3. der[1] = tag /\ der[2] = Len(content)
    BY <1>1
  <1>4. SubSeq(der, 3, der[2] + 2) = content
    BY <1>1, <1>2, <1>3
  <1>5. SubSeq(der, der[2] + 3, Len(der)) = rest
    BY <1>1, <1>2, <1>3
  <1>6. Element(tag, content) \o rest = der
    BY DEF Element
  <1>7. Len(content) \in Nat /\ Len(rest) \in Nat
    OBVIOUS
  <1>8. Len(der) >= 2 /\ Len(der) >= der[2] + 2
    BY <1>2, <1>3, <1>7
  <1> HIDE DEF der
  <1> QED BY <1>3, <1>4, <1>5, <1>6, <1>8 DEF Unmarshal

LEMMA ElementType ==
  ASSUME NEW tag \in Nat, NEW content \in Seq(Nat)
  PROVE  Element(tag, content) \in Seq(Nat) /\ Element(tag, content) # <<>>
  <1> DEFINE head == <<tag, Len(content)>>
  <1>1. head \in Seq(Nat) /\ Len(head) = 2 OBVIOUS
  <1>2. head \o content \in Seq(Nat) /\ Len(head \o content) = 2 + Len(content)
    BY <1>1
  <1>3. Len(head \o content) # 0 BY <1>2
  <1>4. head \o content # <<>> BY <1>3
  <1> HIDE DEF head
  <1>5. Element(tag, content) = head \o content BY DEF Element, head
  <1> QED BY <1>2, <1>4, <1>5

\* An element with nothing after it.
LEMMA UnmarshalAlone ==
  ASSUME NEW tag \in Nat, NEW content \in Seq(Nat)
  PROVE  Unmarshal(Element(tag, content)) =
           [ok |-> TRUE, tag |-> tag, content |-> content, rest |-> <<>>]
  <1>1. Element(tag, content) \o <<>> = Element(tag, content)
    BY ElementType, ConcatEmptySeq
  <1>2. <<>> \in Seq(Nat) OBVIOUS
  <1> QED BY <1>1, <1>2, UnmarshalElement

LEMMA OptionalType ==
  ASSUME NEW tag \in Nat, NEW content \in Seq(Nat)
  PROVE  Optional(tag, content) \in Seq(Nat)
  BY ElementType DEF Optional

LEMMA UnmarshalEmpty == Unmarshal(<<>>).ok = FALSE
  BY DEF Unmarshal

\* ParsePermanentIdentifier reads what AddPermanentIdentifierOtherName has written, with
\* either part, both or none, whatever the texts and object identifiers are.
THEOREM PermanentIdentifierRoundTrip ==
  ASSUME NEW pi \in PermanentIdentifiers
  PROVE  ParsePermanentIdentifier(PermanentIdentifierValue(pi)) = [ok |-> TRUE, value |-> pi]
  <1> DEFINE id    == pi.identifier
             as    == pi.assigner
             body  == Optional(UTF8String, id) \o Optional(ObjectIdentifier, as)
             seq   == Unmarshal(PermanentIdentifierValue(pi))
             first == Unmarshal(body)
             named == first.ok /\ first.tag = UTF8String
             inner == IF named THEN first.rest ELSE body
  <1>1. id \in Seq(Nat) /\ as \in Seq(Nat) /\ pi = [identifier |-> id, assigner |-> as]
    BY DEF PermanentIdentifiers
  <1>2. UTF8String \in Nat /\ ObjectIdentifier \in Nat /\ SEQUENCE \in Nat
        /\ UTF8String # ObjectIdentifier
    BY DEF UTF8String, ObjectIdentifier, SEQUENCE
  <1>3. /\ Optional(UTF8String, id) \in Seq(Nat) /\ Optional(ObjectIdentifier, as) \in Seq(Nat)
        /\ body \in Seq(Nat)
    BY <1>1, <1>2, OptionalType
  <1>4. seq = [ok |-> TRUE, tag |-> SEQUENCE, content |-> body, rest |-> <<>>]
    BY <1>2, <1>3, UnmarshalAlone DEF PermanentIdentifierValue
  <1>5. /\ named <=> id # <<>>
        /\ named => first.content = id
        /\ inner = Optional(ObjectIdentifier, as)
    <2>1. CASE id # <<>>
      <3>1. body = Element(UTF8String, id) \o Optional(ObjectIdentifier, as)
        BY <2>1 DEF Optional
      <3>2. first = [ok |-> TRUE, tag |-> UTF8String, content |-> id,
                     rest |-> Optional(ObjectIdentifier, as)]
        BY <3>1, <1>1, <1>2, <1>3, UnmarshalElement
      <3> QED BY <3>2, <2>1
    <2>2. CASE id = <<>>
      <3>1. body = Optional(ObjectIdentifier, as)
        BY <2>2, <1>3, ConcatEmptySeq DEF Optional
      <3>2. ~named
        <4>1. CASE as = <<>>
          <5>1. body = <<>> BY <3>1, <4>1 DEF Optional
          <5> QED BY <5>1, UnmarshalEmpty
        <4>2. CASE as # <<>>
          <5>1. body = Element(ObjectIdentifier, as) BY <3>1, <4>2 DEF Optional
          <5>2. first.tag = ObjectIdentifier BY <5>1, <1>1, <1>2, UnmarshalAlone
          <5> QED BY <5>2, <1>2
        <4> QED BY <4>1, <4>2
      <3> QED BY <3>1, <3>2, <2>2
    <2> QED BY <2>1, <2>2
  <1>6. /\ inner = <<>> <=> as = <<>>
        /\ as # <<>> => IsOID(Unmarshal(inner)) /\ Unmarshal(inner).content = as
    <2>1. CASE as = <<>> BY <2>1, <1>5 DEF Optional
    <2>2. CASE as # <<>>
      <3>1. inner = Element(ObjectIdentifier, as) BY <2>2, <1>5 DEF Optional
      <3>2. inner # <<>> BY <3>1, <1>1, <1>2, ElementType
      <3>3. Unmarshal(inner) = [ok |-> TRUE, tag |-> ObjectIdentifier, content |-> as,
                                rest |-> <<>>]
        BY <3>1, <1>1, <1>2, UnmarshalAlone
      <3> QED BY <3>2, <3>3, <2>2 DEF IsOID
    <2> QED BY <2>1, <2>2
  <1>7. ParsePermanentIdentifier(PermanentIdentifierValue(pi)) =
          [ok    |-> seq.ok /\ seq.rest = <<>> /\ (inner # <<>> => IsOID(Unmarshal(inner))),
           value |-> [identifier |-> IF named THEN first.content ELSE <<>>,
                      assigner   |-> IF inner # <<>> THEN Unmarshal(inner).content ELSE <<>>]]
    BY <1>4 DEF ParsePermanentIdentifier
  <1>8. seq.ok = TRUE /\ seq.rest = <<>> BY <1>4
  <1> HIDE DEF seq, inner, first, named, body
  <1>9. (seq.ok /\ seq.rest = <<>> /\ (inner # <<>> => IsOID(Unmarshal(inner)))) = TRUE
    BY <1>6, <1>8
  <1>10. (IF named THEN first.content ELSE <<>>) = id BY <1>5
  <1>11. (IF inner # <<>> THEN Unmarshal(inner).content ELSE <<>>) = as BY <1>6
  <1> QED BY <1>1, <1>7, <1>9, <1>10, <1>11

\* ParseHardwareModule reads what AddHardwareModuleOtherName has written.
THEOREM HardwareModuleRoundTrip ==
  ASSUME NEW hm \in HardwareModules, hm.type # <<>>
  PROVE  ParseHardwareModule(HardwareModuleValue(hm)) = [ok |-> TRUE, value |-> hm]
  <1> DEFINE ty   == hm.type
             va   == hm.value
             body == Element(ObjectIdentifier, ty) \o Element(OctetString, va)
  <1>1. ty \in Seq(Nat) /\ va \in Seq(Nat) /\ hm = [type |-> ty, value |-> va]
    BY DEF HardwareModules
  <1>2. OctetString \in Nat /\ ObjectIdentifier \in Nat /\ SEQUENCE \in Nat
    BY DEF OctetString, ObjectIdentifier, SEQUENCE
  <1>3. /\ Element(ObjectIdentifier, ty) \in Seq(Nat) /\ Element(OctetString, va) \in Seq(Nat)
        /\ body \in Seq(Nat)
    BY <1>1, <1>2, ElementType
  <1>4. Unmarshal(HardwareModuleValue(hm)) =
          [ok |-> TRUE, tag |-> SEQUENCE, content |-> body, rest |-> <<>>]
    BY <1>2, <1>3, UnmarshalAlone DEF HardwareModuleValue
  <1>5. Unmarshal(body) = [ok |-> TRUE, tag |-> ObjectIdentifier, content |-> ty,
                           rest |-> Element(OctetString, va)]
    BY <1>1, <1>2, <1>3, UnmarshalElement
  <1>6. Unmarshal(Element(OctetString, va)) =
          [ok |-> TRUE, tag |-> OctetString, content |-> va, rest |-> <<>>]
    BY <1>1, <1>2, UnmarshalAlone
  <1> DEFINE seq    == Unmarshal(HardwareModuleValue(hm))
             type   == Unmarshal(seq.content)
             serial == Unmarshal(type.rest)
  <1>7. ParseHardwareModule(HardwareModuleValue(hm)) =
          [ok    |-> seq.ok /\ seq.rest = <<>> /\ IsOID(type)
                       /\ serial.ok /\ serial.tag = OctetString,
           value |-> [type |-> type.content, value |-> serial.content]]
    BY DEF ParseHardwareModule
  <1>8. seq.ok = TRUE /\ seq.rest = <<>> /\ seq.content = body
    BY <1>4
  <1>9. type.ok = TRUE /\ type.tag = ObjectIdentifier /\ type.content = ty
        /\ type.rest = Element(OctetString, va)
    BY <1>5, <1>8
  <1>10. serial.ok = TRUE /\ serial.tag = OctetString /\ serial.content = va
    BY <1>6, <1>9
  <1> HIDE DEF seq, type, serial, body
  <1>11. (seq.ok /\ seq.rest = <<>> /\ IsOID(type) /\ serial.ok /\ serial.tag = OctetString) = TRUE
    BY <1>8, <1>9, <1>10 DEF IsOID
  <1> QED BY <1>1, <1>7, <1>9, <1>10, <1>11

\* ParseOtherNames finds an otherName in front of other names as it was written.
THEOREM OtherNameRoundTrip ==
  ASSUME NEW typeID \in Seq(Nat), typeID # <<>>, NEW value \in Seq(Nat), NEW rest \in Seq(Nat)
  PROVE  LET name == Unmarshal(OtherName(typeID, value) \o rest)
         IN  /\ name.ok /\ name.tag = Context0 /\ name.rest = rest
             /\ ParseOtherNameContent(name.content) =
                  [ok |-> TRUE, typeID |-> typeID, value |-> value]
  <1> DEFINE body == Element(ObjectIdentifier, typeID) \o Element(Context0, value)
  <1>1. Context0 \in Nat /\ ObjectIdentifier \in Nat BY DEF Context0, ObjectIdentifier
  <1>2. /\ Element(ObjectIdentifier, typeID) \in Seq(Nat) /\ Element(Context0, value) \in Seq(Nat)
        /\ body \in Seq(Nat)
    BY <1>1, ElementType
  <1>3. Unmarshal(OtherName(typeID, value) \o rest) =
          [ok |-> TRUE, tag |-> Context0, content |-> body, rest |-> rest]
    BY <1>1, <1>2, UnmarshalElement DEF OtherName
  <1>4. Unmarshal(body) = [ok |-> TRUE, tag |-> ObjectIdentifier, content |-> typeID,
                           rest |-> Element(Context0, value)]
    BY <1>1, <1>2, UnmarshalElement
  <1>5. Unmarshal(Element(Context0, value)) =
          [ok |-> TRUE, tag |-> Context0, content |-> value, rest |-> <<>>]
    BY <1>1, UnmarshalAlone
  <1> DEFINE id       == Unmarshal(body)
             explicit == Unmarshal(id.rest)
  <1>6. ParseOtherNameContent(body) =
          [ok |-> IsOID(id) /\ explicit.ok /\ explicit.rest = <<>>,
           typeID |-> id.content, value |-> explicit.content]
    BY DEF ParseOtherNameContent
  <1>7. id.ok = TRUE /\ id.tag = ObjectIdentifier /\ id.content = typeID
        /\ id.rest = Element(Context0, value)
    BY <1>4
  <1>8. explicit.ok = TRUE /\ explicit.content = value /\ explicit.rest = <<>>
    BY <1>5, <1>7
  <1> HIDE DEF id, explicit, body
  <1>9. (IsOID(id) /\ explicit.ok /\ explicit.rest = <<>>) = TRUE
    BY <1>7, <1>8 DEF IsOID
  <1>10. ParseOtherNameContent(body) = [ok |-> TRUE, typeID |-> typeID, value |-> value]
    BY <1>6, <1>7, <1>8, <1>9
  <1> QED BY <1>3, <1>10

\* A certificate is never refused on account of devices that the apple verifier or the
\* null verifier has found, with or without a serial number and a UDID.
THEOREM VerifiedDevicesIssuable ==
  ASSUME NEW n \in Nat,
         NEW devices \in [1 .. n -> {NewDeviceInfo(s, u) : s \in Seq(Nat), u \in Seq(Nat)}
                                     \cup {NullDevice}]
  PROVE  ~Refused(devices)
  <1> SUFFICES ASSUME NEW i \in 1 .. n
               PROVE  ~Incomplete(devices[i]) /\ ~Unencodable(devices[i])
    BY DEF Refused
  <1>1. CASE devices[i] = NullDevice
    BY <1>1 DEF NullDevice, Incomplete, Unencodable
  <1>2. CASE devices[i] # NullDevice
    <2>1. PICK s \in Seq(Nat), u \in Seq(Nat) : devices[i] = NewDeviceInfo(s, u)
      BY <1>2
    <2>2. Len(OIDDeviceUDID) = 8 /\ OIDDeviceUDID[1] = 1 /\ OIDDeviceUDID[2] = 2
          /\ OIDDeviceUDID # <<>>
      BY DEF OIDDeviceUDID
    <2>3. ValidOID(OIDDeviceUDID) BY <2>2 DEF ValidOID
    <2> QED BY <2>1, <2>2, <2>3 DEF NewDeviceInfo, Incomplete, Unencodable
  <1> QED BY <1>1, <1>2

-----------------------------------------------------------------------------
(* The invariant.                                                          *)

\* What IdentityInv says of one challenge.
Sound(c) ==
  /\ status[c] = "valid" =>
       /\ stmt[c].format = "apple" =>
            \E device \in Devices :
              /\ [nonce |-> c, device |-> device, by |-> "apple"] \in attested
              /\ info[c] = NewDeviceInfo(device.serial, device.udid)
       /\ authorizer = "abm" => SerialOf(info[c]) \in enrolled[c] \ {<<>>}
  /\ step[c] # "idle" => status[c] = "processing" /\ organization \subseteq enrolled[c]
  /\ step[c] # "idle" \/ status[c] = "valid" => stmt[c] # None
  /\ step[c] \in {"authorize", "decide"} \/ status[c] = "valid" =>
       info[c] = Verified(stmt[c], c) /\ info[c] # None
  /\ listed[c] \subseteq (IF step[c] = "decide" THEN enrolled[c] ELSE {})
  /\ step[c] = "decide" => authorizer = "abm" /\ SerialOf(info[c]) # <<>>
  /\ stmt[c] # None /\ stmt[c].leaf # None /\ stmt[c].leaf.by = "apple" =>
       stmt[c].leaf \in attested

LEMMA InvIsSound ==
  /\ IdentityInv <=> TypeOK /\ \A c \in Challenges : Sound(c)
  /\ IdentityInv' <=> TypeOK' /\ \A c \in Challenges : Sound(c)'
  BY DEF IdentityInv, AuthorizedIsAttested, Sound

\* What nothing happens to stays sound.
LEMMA SoundFrame ==
  ASSUME NEW c \in Challenges, Sound(c), attested \subseteq attested',
         UNCHANGED <<authorizer, organization, status[c], step[c], stmt[c], info[c], listed[c],
                     enrolled[c]>>
  PROVE  Sound(c)'
  BY DEF Sound

\* An apple statement that verifies carries an attestation by Apple for its challenge.
LEMMA VerifiedApple ==
  ASSUME NEW c \in Challenges, NEW s \in Statements, s.format = "apple", Verified(s, c) # None
  PROVE  /\ s.leaf # None /\ s.leaf.by = "apple"
         /\ s.leaf = [nonce |-> c, device |-> s.leaf.device, by |-> "apple"]
         /\ s.leaf.device \in Devices
         /\ Verified(s, c) = NewDeviceInfo(s.leaf.device.serial, s.leaf.device.udid)
  <1>1. s.leaf # None /\ s.leaf.nonce = c /\ s.leaf.by = "apple"
        /\ Verified(s, c) = NewDeviceInfo(s.leaf.device.serial, s.leaf.device.udid)
    BY DEF Verified, NonceMatches, Trusted
  <1>2. s.leaf \in Attestations BY <1>1 DEF Statements
  <1> QED BY <1>1, <1>2 DEF Attestations

LEMMA VerifiedType ==
  ASSUME NEW c \in Challenges, NEW s \in Statements
  PROVE  Verified(s, c) \in DeviceInfos \cup {None}
  <1>1. CASE s.format = "null"
    <2>1. NullDevice \in DeviceInfos
      BY DEF NullDevice, DeviceInfos, PermanentIdentifiers
    <2> QED BY <2>1, <1>1 DEF Verified
  <1>2. CASE s.format = "other"
    BY <1>2, DeviceIdentityAssumption DEF Verified, Statements
  <1>3. CASE s.format = "apple"
    <2>1. CASE Verified(s, c) = None BY <2>1
    <2>2. CASE Verified(s, c) # None
      <3>1. /\ s.leaf.device \in [serial : Seq(Nat), udid : Seq(Nat)]
            /\ Verified(s, c) = NewDeviceInfo(s.leaf.device.serial, s.leaf.device.udid)
        BY <1>3, <2>2, VerifiedApple, DeviceIdentityAssumption
      <3>2. OIDDeviceUDID \in Seq(Nat) /\ <<>> \in Seq(Nat) BY DEF OIDDeviceUDID
      <3> QED BY <3>1, <3>2 DEF NewDeviceInfo, DeviceInfos, PermanentIdentifiers, HardwareModules
    <2> QED BY <2>1, <2>2
  <1> QED BY <1>1, <1>2, <1>3 DEF Statements, Formats

\* What a client may send is a statement, with no attestation by Apple that there is not.
LEMMA SendableStatement ==
  ASSUME TypeOK, NEW c \in Challenges, NEW s \in Sendable(c)
  PROVE  /\ s \in Statements /\ s # None
         /\ s.leaf # None /\ s.leaf.by = "apple" => s.leaf \in attested
  <1>1. attested \subseteq Attestations BY DEF TypeOK
  <1>2. s \in Statements
    BY <1>1 DEF Sendable, Statements, Formats, Attestations
  <1>3. s.leaf # None /\ s.leaf.by = "apple" => s.leaf \in attested
    BY DEF Sendable
  <1> QED BY <1>2, <1>3, DeviceIdentityAssumption

LEMMA InitSound == Init => IdentityInv
  <1> SUFFICES ASSUME Init PROVE IdentityInv
    OBVIOUS
  <1>1. TypeOK BY DEF Init, TypeOK
  <1>2. ASSUME NEW c \in Challenges PROVE Sound(c) BY <1>2 DEF Init, Sound
  <1> QED BY <1>1, <1>2, InvIsSound

LEMMA AttestSound ==
  ASSUME IdentityInv, NEW c \in Challenges, NEW device \in Devices, Attest(c, device)
  PROVE  IdentityInv'
  <1>1. TypeOK' BY InvIsSound DEF TypeOK, Attest, Attestations
  <1>2. ASSUME NEW d \in Challenges PROVE Sound(d)'
    BY <1>2, InvIsSound, SoundFrame DEF Attest
  <1> QED BY <1>1, <1>2, InvIsSound

LEMMA ReorganizeSound ==
  ASSUME IdentityInv, NEW s \in Serials, Reorganize(s)
  PROVE  IdentityInv'
  <1>1. TypeOK' BY InvIsSound DEF TypeOK, Reorganize
  <1>2. ASSUME NEW d \in Challenges PROVE Sound(d)'
    <2>1. TypeOK /\ Sound(d) BY <1>2, InvIsSound
    <2>2. /\ enrolled[d] \subseteq enrolled'[d]
          /\ step[d] # "idle" => organization' \subseteq enrolled'[d]
      BY <1>2, <2>1 DEF TypeOK, Reorganize
    <2>3. UNCHANGED <<authorizer, attested, status, step, stmt, info, listed>>
      BY DEF Reorganize
    <2> QED BY <1>2, <2>1, <2>2, <2>3 DEF Sound
  <1> QED BY <1>1, <1>2, InvIsSound

LEMMA RespondSound ==
  ASSUME IdentityInv, NEW c \in Challenges, NEW s \in Sendable(c), Respond(c, s)
  PROVE  IdentityInv'
  <1>1. TypeOK /\ \A d \in Challenges : Sound(d) BY InvIsSound
  <1>2. s \in Statements /\ s # None /\ (s.leaf # None /\ s.leaf.by = "apple" => s.leaf \in attested)
    BY <1>1, SendableStatement
  <1>3. TypeOK' BY <1>1, <1>2 DEF TypeOK, Respond
  <1>4. Sound(c)'
    <2>1. /\ status'[c] = "processing" /\ step'[c] = "verify" /\ stmt'[c] = s
          /\ enrolled'[c] = organization /\ listed'[c] = listed[c]
          /\ UNCHANGED <<authorizer, organization, attested>>
      BY <1>1 DEF TypeOK, Respond
    <2>2. listed[c] = {}
      BY <1>1 DEF Sound, Respond
    <2> QED BY <2>1, <2>2, <1>2 DEF Sound
  <1>5. ASSUME NEW d \in Challenges, d # c PROVE Sound(d)'
    BY <1>1, <1>5, SoundFrame DEF TypeOK, Respond
  <1> QED BY <1>3, <1>4, <1>5, InvIsSound

\* A challenge that becomes invalid is sound, and so is one that becomes valid for a
\* device which the authorizer lets pass.
LEMMA SettleSound ==
  ASSUME IdentityInv, NEW c \in Challenges, NEW verdict \in {"valid", "invalid"},
         Settle(c, verdict), UNCHANGED <<authorizer, organization, attested>>,
         verdict = "valid" =>
           /\ step[c] \in {"authorize", "decide"}
           /\ authorizer = "abm" => SerialOf(info[c]) \in enrolled[c] \ {<<>>}
  PROVE  IdentityInv'
  <1>1. TypeOK /\ \A d \in Challenges : Sound(d) BY InvIsSound
  <1>2. TypeOK' BY <1>1 DEF TypeOK, Settle
  <1>3. Sound(c)'
    <2>1. status'[c] = verdict /\ step'[c] = "idle" /\ listed'[c] = {}
      BY <1>1 DEF TypeOK, Settle
    <2>2. CASE verdict = "invalid"
      <3>1. stmt'[c] = None BY <1>1, <2>2 DEF TypeOK, Settle
      <3> QED BY <2>1, <2>2, <3>1 DEF Sound
    <2>3. CASE verdict = "valid"
      <3>1. UNCHANGED <<stmt[c], info[c], enrolled[c]>> BY <2>3 DEF Settle
      <3>2. /\ stmt[c] # None /\ info[c] = Verified(stmt[c], c) /\ info[c] # None
            /\ stmt[c] \in Statements
        BY <1>1, <2>3 DEF Sound, TypeOK
      <3>3. ASSUME stmt[c].format = "apple"
            PROVE  \E device \in Devices :
                     /\ [nonce |-> c, device |-> device, by |-> "apple"] \in attested
                     /\ info[c] = NewDeviceInfo(device.serial, device.udid)
        <4>1. /\ stmt[c].leaf # None /\ stmt[c].leaf.by = "apple"
              /\ stmt[c].leaf = [nonce |-> c, device |-> stmt[c].leaf.device, by |-> "apple"]
              /\ stmt[c].leaf.device \in Devices
              /\ info[c] = NewDeviceInfo(stmt[c].leaf.device.serial, stmt[c].leaf.device.udid)
          BY <3>2, <3>3, VerifiedApple
        <4>2. stmt[c].leaf \in attested BY <1>1, <3>2, <4>1 DEF Sound
        <4> QED BY <4>1, <4>2
      <3>4. /\ stmt[c].leaf # None /\ stmt[c].leaf.by = "apple" => stmt[c].leaf \in attested
            /\ authorizer = "abm" => SerialOf(info[c]) \in enrolled[c] \ {<<>>}
        BY <1>1, <2>3, <3>2 DEF Sound
      <3> QED BY <2>1, <2>3, <3>1, <3>2, <3>3, <3>4 DEF Sound
    <2> QED BY <2>2, <2>3
  <1>4. ASSUME NEW d \in Challenges, d # c PROVE Sound(d)'
    <2>1. UNCHANGED <<status[d], step[d], stmt[d], info[d], listed[d], enrolled[d]>>
      BY <1>1, <1>4 DEF TypeOK, Settle
    <2> QED BY <1>1, <2>1, SoundFrame
  <1> QED BY <1>2, <1>3, <1>4, InvIsSound

LEMMA VerifySound ==
  ASSUME IdentityInv, NEW c \in Challenges, Verify(c)
  PROVE  IdentityInv'
  <1>1. TypeOK /\ \A d \in Challenges : Sound(d) BY InvIsSound
  <1>2. stmt[c] # None /\ stmt[c] \in Statements /\ status[c] = "processing"
    BY <1>1 DEF Sound, Verify, TypeOK
  <1>3. CASE Settle(c, "invalid")
    BY <1>3, SettleSound DEF Verify
  <1>4. CASE ~Settle(c, "invalid")
    <2> DEFINE device == Verified(stmt[c], c)
    <2>1. /\ device # None /\ step[c] = "verify"
          /\ info' = [info EXCEPT ![c] = device]
          /\ step' = [step EXCEPT ![c] = "authorize"]
          /\ UNCHANGED <<authorizer, organization, attested, status, stmt, listed, enrolled>>
      BY <1>4 DEF Verify
    <2>2. device \in DeviceInfos \cup {None} BY <1>2, VerifiedType
    <2> HIDE DEF device
    <2>3. TypeOK' BY <1>1, <2>1, <2>2 DEF TypeOK
    <2>4. step'[c] = "authorize" /\ info'[c] = device BY <1>1, <2>1 DEF TypeOK
    <2>5. Sound(c)' BY <1>1, <1>2, <2>1, <2>4 DEF Sound, device
    <2>6. ASSUME NEW d \in Challenges, d # c PROVE Sound(d)'
      BY <1>1, <2>1, <2>6, SoundFrame DEF TypeOK
    <2> QED BY <2>3, <2>5, <2>6, InvIsSound
  <1> QED BY <1>3, <1>4

LEMMA AuthorizeNullSound ==
  ASSUME IdentityInv, NEW c \in Challenges, AuthorizeNull(c)
  PROVE  IdentityInv'
  BY SettleSound DEF AuthorizeNull

LEMMA FetchDevicesSound ==
  ASSUME IdentityInv, NEW c \in Challenges, FetchDevices(c)
  PROVE  IdentityInv'
  <1>1. TypeOK /\ \A d \in Challenges : Sound(d) BY InvIsSound
  <1>2. CASE Settle(c, "invalid")
    BY <1>2, SettleSound DEF FetchDevices
  <1>3. CASE ~Settle(c, "invalid")
    <2>1. /\ SerialOf(info[c]) # <<>> /\ step[c] = "authorize" /\ authorizer = "abm"
          /\ listed' = [listed EXCEPT ![c] = organization]
          /\ step' = [step EXCEPT ![c] = "decide"]
          /\ UNCHANGED <<authorizer, organization, attested, status, stmt, info, enrolled>>
      BY <1>3 DEF FetchDevices
    <2>2. TypeOK' BY <1>1, <2>1 DEF TypeOK
    <2>3. step'[c] = "decide" /\ listed'[c] = organization BY <1>1, <2>1 DEF TypeOK
    <2>4. Sound(c)' BY <1>1, <2>1, <2>3 DEF Sound
    <2>5. ASSUME NEW d \in Challenges, d # c PROVE Sound(d)'
      BY <1>1, <2>1, <2>5, SoundFrame DEF TypeOK
    <2> QED BY <2>2, <2>4, <2>5, InvIsSound
  <1> QED BY <1>2, <1>3

LEMMA DecideSound ==
  ASSUME IdentityInv, NEW c \in Challenges, Decide(c)
  PROVE  IdentityInv'
  <1>1. /\ step[c] = "decide" /\ UNCHANGED <<authorizer, organization, attested>>
        /\ Settle(c, IF SerialOf(info[c]) \in listed[c] THEN "valid" ELSE "invalid")
    BY DEF Decide
  <1>2. listed[c] \subseteq enrolled[c] /\ SerialOf(info[c]) # <<>>
    BY <1>1, InvIsSound DEF Sound
  <1>3. CASE SerialOf(info[c]) \in listed[c] BY <1>1, <1>2, <1>3, SettleSound
  <1>4. CASE SerialOf(info[c]) \notin listed[c] BY <1>1, <1>4, SettleSound
  <1> QED BY <1>3, <1>4

LEMMA CrashSound == IdentityInv /\ Crash => IdentityInv'
  <1> SUFFICES ASSUME IdentityInv, Crash PROVE IdentityInv'
    OBVIOUS
  <1>1. TypeOK /\ \A d \in Challenges : Sound(d) BY InvIsSound
  <1>2. TypeOK' BY <1>1 DEF TypeOK, Crash
  <1>3. ASSUME NEW d \in Challenges PROVE Sound(d)'
    <2>1. step'[d] = "idle" /\ listed'[d] = {} BY <1>3 DEF Crash
    <2>2. UNCHANGED <<authorizer, organization, attested, status>> BY DEF Crash
    <2>3. CASE status[d] = "valid"
      <3>1. UNCHANGED <<stmt[d], info[d], enrolled[d]>> BY <1>3, <2>3 DEF Crash
      <3> QED BY <1>1, <1>3, <2>1, <2>2, <2>3, <3>1 DEF Sound
    <2>4. CASE status[d] # "valid"
      <3>1. stmt'[d] = None BY <1>3, <2>4 DEF Crash
      <3> QED BY <2>1, <2>2, <2>4, <3>1 DEF Sound
    <2> QED BY <2>3, <2>4
  <1> QED BY <1>2, <1>3, InvIsSound

\* IdentityInv is an invariant: challenges become valid only for devices that were attested
\* for them and that the authorizer knew, for any devices, statements and interleavings.
THEOREM IdentityInvariance == Spec => []IdentityInv
  <1>1. IdentityInv /\ [Next]_vars => IdentityInv'
    <2> SUFFICES ASSUME IdentityInv, [Next]_vars PROVE IdentityInv'
      OBVIOUS
    <2>1. ASSUME NEW c \in Challenges,
                 \/ \E device \in Devices : Attest(c, device)
                 \/ \E s \in Sendable(c) : Respond(c, s)
                 \/ Verify(c) \/ AuthorizeNull(c) \/ FetchDevices(c) \/ Decide(c)
          PROVE  IdentityInv'
      BY <2>1, AttestSound, RespondSound, VerifySound, AuthorizeNullSound, FetchDevicesSound,
         DecideSound
    <2>2. CASE \E s \in Serials \ {<<>>} : Reorganize(s)
      BY <2>2, ReorganizeSound
    <2>3. CASE \/ \E order \in ReadyOrders, uris \in {<<>>, URIs} : IssueCertificate(order, uris)
               \/ UNCHANGED vars
      <3>1. UNCHANGED <<authorizer, organization, attested, status, step, stmt, info, listed,
                        enrolled>>
        BY <2>3 DEF IssueCertificate, vars
      <3>2. TypeOK' BY <3>1, InvIsSound DEF TypeOK
      <3>3. ASSUME NEW d \in Challenges PROVE Sound(d)' BY <3>1, <3>3, InvIsSound, SoundFrame
      <3> QED BY <3>2, <3>3, InvIsSound
    <2>4. CASE Crash BY <2>4, CrashSound
    <2> QED BY <2>1, <2>2, <2>3, <2>4 DEF Next
  <1> QED BY InitSound, <1>1, PTL DEF Spec

\* A valid challenge's device was attested for it, and in the organization.
THEOREM AuthorizedDevicesAttested == Spec => []AuthorizedIsAttested
  <1>1. IdentityInv => AuthorizedIsAttested BY DEF IdentityInv
  <1> QED BY IdentityInvariance, <1>1, PTL

-----------------------------------------------------------------------------
(* What finalize verifies again.                                           *)

\* The challenges of the last certificate are valid.
CertifiedValid ==
  certificate # None =>
    \A i \in DOMAIN certificate.order :
      certificate.order[i] \in Challenges /\ status[certificate.order[i]] = "valid"

\* What is found in the stored statement of a challenge is a device or none, and if the
\* verifier is the same, the device that it was verified for.
LEMMA ExtractedIsVerified ==
  ASSUME NEW c \in Challenges, stmt[c] \in Statements
  PROVE  /\ Extracted(c) \in DeviceInfos \cup {None}
         /\ SameVerifier(stmt[c]) => Extracted(c) \in {None, Verified(stmt[c], c)}
  <1> SUFFICES ASSUME Extracted(c) # None
               PROVE  /\ Extracted(c) \in DeviceInfos \cup {None}
                      /\ SameVerifier(stmt[c]) => Extracted(c) \in {None, Verified(stmt[c], c)}
    OBVIOUS
  <1> DEFINE s == stmt[c]
             t == Stored(s)
  <1>1. s.fmt \in Verifiers /\ Extracted(c) = Verified(t, c) BY DEF Extracted
  <1>2. t.format = s.fmt /\ t.other = s.again /\ t.leaf = None
    BY DEF Stored, Statements
  <1>3. t \in Statements
    BY <1>1, DeviceIdentityAssumption DEF Stored, Statements
  <1> HIDE DEF t
  <1>4. Verified(t, c) \in DeviceInfos \cup {None} BY <1>3, VerifiedType
  <1>5. ASSUME SameVerifier(s), s.fmt # None PROVE Verified(t, c) \in {None, Verified(s, c)}
    <2>1. t.format = s.format /\ t.other \in {None, s.other}
      BY <1>2, <1>5 DEF SameVerifier
    <2>2. CASE s.format = "null" BY <2>1, <2>2 DEF Verified
    <2>3. CASE s.format = "other" BY <2>1, <2>3 DEF Verified
    <2>4. CASE s.format = "apple" BY <1>2, <2>1, <2>4 DEF Verified
    <2> QED BY <2>2, <2>3, <2>4 DEF Statements, Formats
  <1>6. s.fmt # None BY <1>1, DeviceIdentityAssumption
  <1> QED BY <1>1, <1>4, <1>5, <1>6

\* Nothing takes the validity of a challenge back.
LEMMA ValidStays ==
  ASSUME IdentityInv, [Next]_vars, NEW c \in Challenges, status[c] = "valid"
  PROVE  status'[c] = "valid"
  <1>1. TypeOK /\ \A d \in Challenges : Sound(d) BY InvIsSound
  <1>2. step[c] = "idle" BY <1>1 DEF Sound
  <1>3. ASSUME NEW d \in Challenges,
               \/ \E s \in Sendable(d) : Respond(d, s)
               \/ Verify(d) \/ AuthorizeNull(d) \/ FetchDevices(d) \/ Decide(d)
        PROVE  status'[c] = "valid"
    <2>1. d # c BY <1>2, <1>3 DEF Respond, Verify, AuthorizeNull, FetchDevices, Decide
    <2> QED
      BY <1>1, <1>3, <2>1
      DEF TypeOK, Respond, Verify, AuthorizeNull, FetchDevices, Decide, Settle
  <1> QED
    BY <1>3 DEF Next, vars, Attest, Reorganize, IssueCertificate, Crash

\* A certificate is issued for an order whose challenges are all valid.
LEMMA CertifiedStep ==
  ASSUME IdentityInv, CertifiedValid, [Next]_vars
  PROVE  CertifiedValid'
  <1>1. CASE UNCHANGED certificate
    BY <1>1, ValidStays DEF CertifiedValid
  <1>2. ASSUME NEW order \in ReadyOrders, NEW uris, IssueCertificate(order, uris)
        PROVE  CertifiedValid'
    <2>1. /\ \A i \in DOMAIN order : status[order[i]] = "valid" /\ order[i] \in Challenges
          /\ certificate'.order = order /\ UNCHANGED status
      BY <1>2 DEF IssueCertificate, ReadyOrders
    <2> QED BY <2>1 DEF CertifiedValid
  <1> QED
    BY <1>1, <1>2
    DEF Next, vars, Attest, Reorganize, Respond, Verify, AuthorizeNull, FetchDevices, Decide, Crash

\* A certificate is issued for valid challenges, and where finalize asks the verifier that
\* was asked before, it names no device but those that were verified and authorized for
\* them, for any devices, verifiers and organization.
THEOREM CertificatesAreAuthorized == Spec => []CertifiedAsAuthorized
  <1>1. Init => CertifiedValid BY DEF Init, CertifiedValid
  <1>2. IdentityInv /\ CertifiedValid => CertifiedAsAuthorized
    <2> SUFFICES ASSUME IdentityInv, CertifiedValid, certificate # None,
                        NEW i \in DOMAIN certificate.order,
                        NEW c, c = certificate.order[i]
                 PROVE  /\ status[c] = "valid"
                        /\ SameVerifier(stmt[c]) =>
                             /\ Extracted(c) \in {None, info[c]}
                             /\ Extracted(c) # None /\ authorizer = "abm" =>
                                  SerialOf(Extracted(c)) \in enrolled[c] \ {<<>>}
      BY DEF CertifiedAsAuthorized
    <2>1. c \in Challenges /\ status[c] = "valid" BY DEF CertifiedValid
    <2>2. TypeOK /\ Sound(c) BY <2>1, InvIsSound
    <2>3. stmt[c] \in Statements /\ info[c] = Verified(stmt[c], c)
      BY <2>1, <2>2 DEF Sound, TypeOK
    <2>4. SameVerifier(stmt[c]) => Extracted(c) \in {None, info[c]}
      BY <2>1, <2>3, ExtractedIsVerified
    <2> QED BY <2>1, <2>2, <2>4 DEF Sound
  <1> QED BY <1>1, <1>2, CertifiedStep, IdentityInvariance, PTL DEF Spec

-----------------------------------------------------------------------------
(* Induction.                                                              *)

\* A nonempty set of numbers has a least one.
LEMMA LeastNumber ==
  ASSUME NEW T \in SUBSET Nat, T # {}
  PROVE  \E n \in T : \A m \in T : n <= m
  <1> DEFINE Less == {p \in Nat \X Nat : p[1] < p[2]}
  <1>1. IsWellFoundedOn(Less, Nat) BY NatLessThanWellFounded DEF OpToRel
  <1> HIDE DEF Less
  <1>2. PICK n \in T : \A m \in T : <<m, n>> \notin Less BY <1>1, WFMin
  <1>3. ASSUME NEW m \in T PROVE n <= m
    <2>1. m \in Nat /\ n \in Nat OBVIOUS
    <2>2. ~(m < n)
      <3>1. <<m, n>> \in Nat \X Nat BY <2>1
      <3>2. m < n => <<m, n>> \in Less BY <3>1 DEF Less
      <3> QED BY <1>2, <3>2
    <2> QED BY <2>1, <2>2
  <1> QED BY <1>3

\* What holds of no least number holds of no number.
LEMMA Descent ==
  ASSUME NEW T \in SUBSET Nat,
         \A n \in T : \E m \in T : m < n
  PROVE  T = {}
  <1> SUFFICES ASSUME T # {} PROVE FALSE OBVIOUS
  <1>1. PICK n \in T : \A m \in T : n <= m BY LeastNumber
  <1>2. PICK m \in T : m < n BY <1>1
  <1> QED BY <1>1, <1>2

-----------------------------------------------------------------------------
(* FlattenSeq.                                                             *)

\* f is what FlattenSeq computes for the first n members of s.
Flattens(f, s, n) == f = [i \in 1 .. n |-> IF i = 1 THEN s[i] ELSE f[i - 1] \o s[i]]

LEMMA FlattensExists ==
  ASSUME NEW s, NEW n \in Nat
  PROVE  \E f : Flattens(f, s, n)
  <1> DEFINE T == {k \in Nat : ~ \E f : Flattens(f, s, k)}
  <1>1. ASSUME NEW k \in T PROVE \E m \in T : m < k
    <2>1. k # 0
      <3> SUFFICES ASSUME k = 0 PROVE FALSE OBVIOUS
      <3> DEFINE f == [i \in 1 .. 0 |-> s]
      <3>1. Flattens(f, s, 0) BY DEF Flattens
      <3> QED BY <3>1
    <2>2. k \in Nat /\ k - 1 \in Nat /\ k - 1 < k
      <3>1. k \in Nat OBVIOUS
      <3> QED BY <2>1, <3>1
    <2>3. ASSUME NEW f, Flattens(f, s, k - 1) PROVE FALSE
      <3> DEFINE g == [i \in 1 .. k |-> IF i = 1 THEN s[i] ELSE f[i - 1] \o s[i]]
      <3>1. ASSUME NEW i \in 1 .. k PROVE g[i] = IF i = 1 THEN s[i] ELSE f[i - 1] \o s[i]
        OBVIOUS
      <3>2. ASSUME NEW i \in 1 .. k - 1 PROVE g[i] = f[i]
        <4>1. i \in 1 .. k BY <2>2
        <4>2. f[i] = IF i = 1 THEN s[i] ELSE f[i - 1] \o s[i] BY <2>3 DEF Flattens
        <4> QED BY <3>1, <4>1, <4>2
      <3>3. ASSUME NEW i \in 1 .. k PROVE g[i] = IF i = 1 THEN s[i] ELSE g[i - 1] \o s[i]
        <4>1. i # 1 => i - 1 \in 1 .. k - 1 BY <2>2
        <4> HIDE DEF g
        <4> QED BY <3>1, <3>2, <4>1
      <3>4. Flattens(g, s, k)
        <4>1. g = [i \in 1 .. k |-> g[i]] OBVIOUS
        <4> HIDE DEF g
        <4> QED BY <3>3, <4>1 DEF Flattens
      <3> QED BY <3>4
    <2> QED BY <2>2, <2>3
  <1>2. T = {}
    <2> HIDE DEF T
    <2>1. T \in SUBSET Nat BY DEF T
    <2> QED BY <1>1, <2>1, Descent
  <1> QED BY <1>2

Agree(s, t, n) == \A i \in 1 .. n : s[i] = t[i]

LEMMA FlattensAgree ==
  ASSUME NEW n \in Nat, n # 0, NEW s, NEW t, Agree(s, t, n - 1),
         NEW f, Flattens(f, s, n), NEW g, Flattens(g, t, n - 1)
  PROVE  Agree(f, g, n - 1)
  <1> DEFINE T == {i \in 1 .. n - 1 : f[i] # g[i]}
  <1>1. ASSUME NEW i \in T PROVE \E j \in T : j < i
    <2>1. i \in 1 .. n - 1 /\ i \in 1 .. n OBVIOUS
    <2>2. /\ f[i] = IF i = 1 THEN s[i] ELSE f[i - 1] \o s[i]
          /\ g[i] = IF i = 1 THEN t[i] ELSE g[i - 1] \o t[i]
      BY <2>1 DEF Flattens
    <2>3. i # 1 /\ f[i - 1] # g[i - 1] BY <2>1, <2>2 DEF Agree
    <2> QED BY <2>1, <2>3
  <1>2. T = {}
    <2> HIDE DEF T
    <2>1. T \in SUBSET Nat BY DEF T
    <2> QED BY <1>1, <2>1, Descent
  <1> QED BY <1>2 DEF Agree

LEMMA FlattenValue ==
  ASSUME NEW n \in Nat, n # 0, NEW s, Len(s) = n
  PROVE  \E f : Flattens(f, s, n) /\ FlattenSeq(s) = f[n]
  <1> DEFINE f == CHOOSE f : f = [i \in 1 .. n |-> IF i = 1 THEN s[i] ELSE f[i - 1] \o s[i]]
  <1>1. FlattenSeq(s) = f[n] BY Zenon DEF FlattenSeq
  <1>2. Flattens(f, s, n) BY FlattensExists DEF Flattens
  <1> QED BY <1>1, <1>2

\* The first n members of s.
First(s, n) == [i \in 1 .. n |-> s[i]]

LEMMA FlattenNone == FlattenSeq(<<>>) = <<>>
  BY DEF FlattenSeq

\* The last member comes last.
LEMMA FlattenStep ==
  ASSUME NEW S, NEW n \in Nat, n # 0, NEW s \in [1 .. n -> Seq(S)],
         FlattenSeq(First(s, n - 1)) \in Seq(S)
  PROVE  FlattenSeq(s) = FlattenSeq(First(s, n - 1)) \o s[n]
  <1> DEFINE t == First(s, n - 1)
  <1>1. t \in [1 .. n - 1 -> Seq(S)] /\ \A i \in 1 .. n - 1 : s[i] = t[i] BY DEF First
  <1>2. Len(s) = n /\ Len(t) = n - 1 /\ n - 1 \in Nat
    <2>1. s \in Seq(Seq(S)) /\ t \in Seq(Seq(S)) BY <1>1
    <2> HIDE DEF t
    <2> QED BY <1>1, <2>1
  <1> HIDE DEF t
  <1>3. PICK f : Flattens(f, s, n) /\ FlattenSeq(s) = f[n] BY <1>2, FlattenValue
  <1>4. f[n] = IF n = 1 THEN s[n] ELSE f[n - 1] \o s[n]
    <2>1. n \in 1 .. n OBVIOUS
    <2> QED BY <1>3, <2>1 DEF Flattens
  <1>5. CASE n = 1
    <2>1. t = <<>> BY <1>1, <1>5
    <2>2. s[n] \in Seq(S) BY <1>5
    <2>3. FlattenSeq(t) \o s[n] = s[n] BY <2>1, <2>2, FlattenNone
    <2> QED BY <1>3, <1>4, <1>5, <2>3 DEF t
  <1>6. CASE n # 1
    <2>1. n - 1 # 0 /\ n - 1 \in 1 .. n - 1 BY <1>6
    <2>2. PICK g : Flattens(g, t, n - 1) /\ FlattenSeq(t) = g[n - 1]
      BY <1>2, <2>1, FlattenValue
    <2>3. Agree(s, t, n - 1) BY <1>1 DEF Agree
    <2>4. Agree(f, g, n - 1) BY <1>3, <2>2, <2>3, FlattensAgree
    <2>5. f[n - 1] = g[n - 1] BY <2>1, <2>4 DEF Agree
    <2> QED BY <1>3, <1>4, <1>6, <2>2, <2>5 DEF t
  <1> QED BY <1>5, <1>6

LEMMA FlattenType ==
  ASSUME NEW S, NEW n \in Nat, NEW s \in [1 .. n -> Seq(S)]
  PROVE  FlattenSeq(s) \in Seq(S)
  <1> DEFINE T == {k \in Nat : \E t \in [1 .. k -> Seq(S)] : FlattenSeq(t) \notin Seq(S)}
  <1>1. ASSUME NEW k \in T PROVE \E m \in T : m < k
    <2>1. PICK t \in [1 .. k -> Seq(S)] : FlattenSeq(t) \notin Seq(S) OBVIOUS
    <2>2. k \in Nat OBVIOUS
    <2>3. k # 0
      <3> SUFFICES ASSUME k = 0 PROVE FALSE OBVIOUS
      <3>1. t = <<>> BY <2>1
      <3> QED BY <2>1, <3>1, FlattenNone
    <2>4. k - 1 \in Nat /\ k - 1 < k /\ t[k] \in Seq(S)
      BY <2>1, <2>2, <2>3
    <2>5. First(t, k - 1) \in [1 .. k - 1 -> Seq(S)] BY <2>4 DEF First
    <2>6. ASSUME FlattenSeq(First(t, k - 1)) \in Seq(S) PROVE FALSE
      <3>1. FlattenSeq(t) = FlattenSeq(First(t, k - 1)) \o t[k]
        BY <2>1, <2>2, <2>3, <2>6, FlattenStep
      <3> QED BY <2>1, <2>4, <2>6, <3>1
    <2> QED BY <2>4, <2>5, <2>6
  <1>2. T = {}
    <2> HIDE DEF T
    <2>1. T \in SUBSET Nat BY DEF T
    <2> QED BY <1>1, <2>1, Descent
  <1> QED BY <1>2

LEMMA FlattenLast ==
  ASSUME NEW S, NEW n \in Nat, n # 0, NEW s \in [1 .. n -> Seq(S)]
  PROVE  FlattenSeq(s) = FlattenSeq(First(s, n - 1)) \o s[n]
  <1>1. n - 1 \in Nat /\ First(s, n - 1) \in [1 .. n - 1 -> Seq(S)] BY DEF First
  <1>2. FlattenSeq(First(s, n - 1)) \in Seq(S) BY <1>1, FlattenType
  <1> QED BY <1>2, FlattenStep

-----------------------------------------------------------------------------
(* OtherNames.                                                             *)

\* One turn of the loop, f being what the rest of it returns.
ReadNames(f, inner) ==
  LET name == Unmarshal(inner)
      this == ParseOtherNameContent(name.content)
      more == f[name.rest]
  IN  IF inner = <<>> THEN [ok |-> TRUE, names |-> <<>>]
      ELSE IF ~name.ok THEN [ok |-> FALSE, names |-> <<>>]
      ELSE IF name.tag # Context0 THEN more
      ELSE [ok |-> this.ok /\ more.ok, names |-> <<this>> \o more.names]

Shorter(n) == {inner \in Seq(Nat) : Len(inner) < n}

\* f is what the loop computes for what is shorter than n.
Reads(f, n) == f = [inner \in Shorter(n) |-> ReadNames(f, inner)]

LEMMA RestShorter ==
  ASSUME NEW inner \in Seq(Nat), Unmarshal(inner).ok
  PROVE  Unmarshal(inner).rest \in Shorter(Len(inner))
  <1>1. Len(inner) \in Nat /\ Len(inner) >= 2 /\ Len(inner) >= inner[2] + 2
        /\ Unmarshal(inner).rest = SubSeq(inner, inner[2] + 3, Len(inner))
    <2>1. Len(inner) >= 2 /\ Len(inner) >= inner[2] + 2
      <3> SUFFICES ASSUME ~(Len(inner) >= 2 /\ Len(inner) >= inner[2] + 2) PROVE FALSE
        OBVIOUS
      <3>1. Unmarshal(inner) = [ok |-> FALSE, tag |-> 0, content |-> <<>>, rest |-> <<>>]
        BY DEF Unmarshal
      <3> QED BY <3>1
    <2> DEFINE result == [ok |-> TRUE, tag |-> inner[1], content |-> SubSeq(inner, 3, inner[2] + 2),
                          rest |-> SubSeq(inner, inner[2] + 3, Len(inner))]
    <2>2. Unmarshal(inner) = result BY <2>1 DEF Unmarshal
    <2>3. result.rest = SubSeq(inner, inner[2] + 3, Len(inner)) OBVIOUS
    <2> HIDE DEF result
    <2> QED BY <2>1, <2>2, <2>3
  <1>2. inner[2] \in Nat BY <1>1
  <1> DEFINE a == inner[2] + 3
             b == Len(inner)
  <1>3. a \in Nat /\ b \in Nat /\ a <= b + 1 /\ a >= 3 BY <1>1, <1>2
  <1>4. SubSeq(inner, a, b) \in Seq(Nat) BY <1>3
  <1>5. Len(SubSeq(inner, a, b)) = IF a <= b THEN b - a + 1 ELSE 0
    BY <1>3
  <1>6. Len(SubSeq(inner, a, b)) < b BY <1>1, <1>3, <1>5
  <1> HIDE DEF a, b
  <1>7. SubSeq(inner, a, b) \in Shorter(b) BY <1>4, <1>6 DEF Shorter
  <1> QED BY <1>1, <1>7 DEF a, b

LEMMA ReadNamesAgree ==
  ASSUME NEW inner \in Seq(Nat), NEW f, NEW g,
         \A s \in Shorter(Len(inner)) : f[s] = g[s]
  PROVE  ReadNames(f, inner) = ReadNames(g, inner)
  <1>1. CASE inner = <<>> BY <1>1 DEF ReadNames
  <1>2. CASE inner # <<>> /\ ~Unmarshal(inner).ok BY <1>2 DEF ReadNames
  <1>3. CASE inner # <<>> /\ Unmarshal(inner).ok
    <2> DEFINE rest == Unmarshal(inner).rest
    <2>1. f[rest] = g[rest] BY <1>3, RestShorter
    <2> QED BY <2>1 DEF ReadNames
  <1> QED BY <1>1, <1>2, <1>3

LEMMA ReadsAt ==
  ASSUME NEW n, NEW f, Reads(f, n), NEW inner \in Shorter(n)
  PROVE  f[inner] = ReadNames(f, inner)
  BY DEF Reads

LEMMA ReadsAgree ==
  ASSUME NEW n \in Nat, NEW m \in Nat, NEW f, Reads(f, n), NEW g, Reads(g, m),
         NEW inner \in Shorter(n), inner \in Shorter(m)
  PROVE  f[inner] = g[inner]
  <1> DEFINE Bad(s) == s \in Shorter(n) /\ s \in Shorter(m) /\ f[s] # g[s]
             T == {k \in Nat : \E s \in Seq(Nat) : Len(s) = k /\ Bad(s)}
  <1>1. ASSUME NEW k \in T PROVE \E j \in T : j < k
    <2>1. PICK s \in Seq(Nat) : Len(s) = k /\ Bad(s) OBVIOUS
    <2>2. f[s] = ReadNames(f, s) /\ g[s] = ReadNames(g, s) BY <2>1, ReadsAt
    <2>3. PICK r \in Shorter(Len(s)) : f[r] # g[r] BY <2>1, <2>2, ReadNamesAgree
    <2>4. r \in Seq(Nat) /\ Len(r) \in Nat /\ Len(r) < k BY <2>1, <2>3 DEF Shorter
    <2>5. r \in Shorter(n) /\ r \in Shorter(m) BY <2>1, <2>4 DEF Shorter
    <2> QED BY <2>3, <2>4, <2>5
  <1>2. T = {}
    <2> HIDE DEF T
    <2>1. T \in SUBSET Nat BY DEF T
    <2> QED BY <1>1, <2>1, Descent
  <1>3. inner \in Seq(Nat) /\ Len(inner) \in Nat BY DEF Shorter
  <1> QED BY <1>2, <1>3

LEMMA ReadsExists ==
  ASSUME NEW n \in Nat
  PROVE  \E f : Reads(f, n)
  <1> DEFINE T == {k \in Nat : ~ \E f : Reads(f, k)}
  <1>1. ASSUME NEW k \in T PROVE \E m \in T : m < k
    <2>1. k \in Nat OBVIOUS
    <2>2. k # 0
      <3> SUFFICES ASSUME k = 0 PROVE FALSE OBVIOUS
      <3>1. Shorter(0) = {} BY DEF Shorter
      <3> DEFINE f == [inner \in {} |-> 0]
      <3>2. Reads(f, 0) BY <3>1 DEF Reads
      <3> HIDE DEF f
      <3> QED BY <3>2
    <2>3. k - 1 \in Nat /\ k - 1 < k BY <2>1, <2>2
    <2>4. ASSUME NEW f, Reads(f, k - 1) PROVE FALSE
      <3> DEFINE g == [inner \in Shorter(k) |-> ReadNames(f, inner)]
      <3>1. ASSUME NEW s \in Shorter(k - 1) PROVE g[s] = f[s]
        <4>1. s \in Shorter(k) BY <2>3 DEF Shorter
        <4>2. f[s] = ReadNames(f, s) BY <2>4, ReadsAt
        <4> QED BY <4>1, <4>2
      <3>2. ASSUME NEW s \in Shorter(k) PROVE ReadNames(f, s) = ReadNames(g, s)
        <4>1. s \in Seq(Nat) /\ Shorter(Len(s)) \subseteq Shorter(k - 1)
          BY <2>1, <2>3 DEF Shorter
        <4> HIDE DEF g
        <4>2. \A r \in Shorter(Len(s)) : f[r] = g[r] BY <3>1, <4>1
        <4> QED BY <4>1, <4>2, ReadNamesAgree
      <3>3. g = [inner \in Shorter(k) |-> ReadNames(g, inner)]
        <4>1. g = [inner \in Shorter(k) |-> ReadNames(f, inner)] OBVIOUS
        <4> HIDE DEF g
        <4> QED BY <3>2, <4>1
      <3> HIDE DEF g
      <3>4. Reads(g, k) BY <3>3 DEF Reads
      <3> QED BY <3>4
    <2> QED BY <2>3, <2>4
  <1>2. T = {}
    <2> HIDE DEF T
    <2>1. T \in SUBSET Nat BY DEF T
    <2> QED BY <1>1, <2>1, Descent
  <1> QED BY <1>2

\* The loop ends, and OtherNames is what it computes.
LEMMA OtherNamesValue ==
  ASSUME NEW inner \in Seq(Nat)
  PROVE  OtherNames[inner] = ReadNames(OtherNames, inner)
  <1> DEFINE below(s) == CHOOSE f : Reads(f, Len(s) + 1)
             f == [s \in Seq(Nat) |-> below(s)[s]]
  <1>1. ASSUME NEW s \in Seq(Nat)
        PROVE  Len(s) + 1 \in Nat /\ Reads(below(s), Len(s) + 1) /\ s \in Shorter(Len(s) + 1)
    <2>1. Len(s) \in Nat /\ Len(s) + 1 \in Nat OBVIOUS
    <2>2. Reads(below(s), Len(s) + 1) BY <2>1, ReadsExists
    <2>3. s \in Shorter(Len(s) + 1) BY <2>1 DEF Shorter
    <2> QED BY <2>1, <2>2, <2>3
  <1> HIDE DEF below
  <1>2. ASSUME NEW s \in Seq(Nat) PROVE below(s)[s] = ReadNames(f, s)
    <2>1. below(s)[s] = ReadNames(below(s), s) BY <1>1, ReadsAt
    <2>2. ASSUME NEW r \in Shorter(Len(s)) PROVE below(s)[r] = f[r]
      <3>1. r \in Seq(Nat) /\ r \in Shorter(Len(s) + 1) BY <1>1 DEF Shorter
      <3>2. below(s)[r] = below(r)[r] BY <1>1, <3>1, ReadsAgree
      <3> QED BY <3>1, <3>2
    <2> HIDE DEF f
    <2> QED BY <2>1, <2>2, ReadNamesAgree
  <1>3. f = [s \in Seq(Nat) |-> ReadNames(f, s)]
    <2>1. f = [s \in Seq(Nat) |-> below(s)[s]] OBVIOUS
    <2> HIDE DEF f
    <2> QED BY <1>2, <2>1
  <1> HIDE DEF f
  <1>4. OtherNames = CHOOSE g : g = [s \in Seq(Nat) |-> ReadNames(g, s)]
    BY Zenon DEF OtherNames, ReadNames
  <1>5. OtherNames = [s \in Seq(Nat) |-> ReadNames(OtherNames, s)] BY <1>3, <1>4
  <1> HIDE DEF OtherNames
  <1> QED BY <1>5

-----------------------------------------------------------------------------
(* What is read from a certificate.                                        *)

\* What ParseOtherNameContent returns for what it can parse.
ParsedNames == [ok : {TRUE}, typeID : Seq(Nat), value : Seq(Nat)]

\* What is in an otherName.
Identity(name) ==
  IF name.typeID = OIDPermanentIdentifier
    THEN ParsePermanentIdentifier(name.value)
    ELSE ParseHardwareModule(name.value)

Identities == {Identity(name) : name \in ParsedNames}

\* What is in all that are found in inner.
IdentitiesIn(inner) ==
  LET names == OtherNames[inner].names IN [i \in DOMAIN names |-> Identity(names[i])]

\* inner can be read to its end.
Readable(inner) ==
  /\ inner \in Seq(Nat)
  /\ OtherNames[inner].ok = TRUE /\ OtherNames[inner].names \in Seq(ParsedNames)

LEMMA IdentitiesType ==
  ASSUME NEW inner, Readable(inner)
  PROVE  IdentitiesIn(inner) \in Seq(Identities)
  <1> DEFINE names == OtherNames[inner].names
  <1>1. names \in Seq(ParsedNames) BY DEF Readable
  <1> HIDE DEF names
  <1>2. [i \in DOMAIN names |-> Identity(names[i])] \in Seq(Identities)
    <2>1. DOMAIN names = 1 .. Len(names) /\ Len(names) \in Nat BY <1>1
    <2>2. \A i \in 1 .. Len(names) : Identity(names[i]) \in Identities
      BY <1>1 DEF Identities
    <2> HIDE DEF Identity
    <2> QED BY <2>1, <2>2
  <1> QED BY <1>2 DEF IdentitiesIn, names

\* An otherName in front is read first.
LEMMA ReadOtherName ==
  ASSUME NEW typeID \in Seq(Nat), typeID # <<>>, NEW value \in Seq(Nat),
         NEW rest, Readable(rest), NEW written, written = OtherName(typeID, value),
         NEW first, first = [ok |-> TRUE, typeID |-> typeID, value |-> value]
  PROVE  /\ written \in Seq(Nat) /\ Readable(written \o rest)
         /\ first \in ParsedNames
         /\ IdentitiesIn(written \o rest) = <<Identity(first)>> \o IdentitiesIn(rest)
  <1> DEFINE inner == written \o rest
             more  == OtherNames[rest].names
             name  == Unmarshal(inner)
  <1>1. rest \in Seq(Nat) /\ more \in Seq(ParsedNames) /\ OtherNames[rest].ok = TRUE
    BY DEF Readable
  <1>2. written \in Seq(Nat) /\ written # <<>>
    <2>1. Context0 \in Nat /\ ObjectIdentifier \in Nat BY DEF Context0, ObjectIdentifier
    <2>2. Element(ObjectIdentifier, typeID) \o Element(Context0, value) \in Seq(Nat)
      BY <2>1, ElementType
    <2> QED BY <2>1, <2>2, ElementType DEF OtherName
  <1>3. inner \in Seq(Nat) /\ inner # <<>> BY <1>1, <1>2
  <1>4. /\ name.ok /\ name.tag = Context0 /\ name.rest = rest
        /\ ParseOtherNameContent(name.content) = first
    BY <1>1, OtherNameRoundTrip
  <1>5. first \in ParsedNames BY DEF ParsedNames
  <1>6. OtherNames[inner].names = <<first>> \o more /\ OtherNames[inner].ok = TRUE
    <2>1. OtherNames[inner] = ReadNames(OtherNames, inner) BY <1>3, OtherNamesValue
    <2> HIDE DEF inner, name
    <2>2. ReadNames(OtherNames, inner) =
            [ok |-> first.ok /\ OtherNames[rest].ok, names |-> <<first>> \o more]
      BY <1>3, <1>4 DEF ReadNames, name
    <2>3. (first.ok /\ OtherNames[rest].ok) = TRUE BY <1>1
    <2>4. OtherNames[inner] = [ok |-> TRUE, names |-> <<first>> \o more]
      BY <2>1, <2>2, <2>3
    <2> QED BY <2>4
  <1> HIDE DEF inner, name, more
  <1>7. <<first>> \o more \in Seq(ParsedNames) BY <1>1, <1>5
  <1>8. IdentitiesIn(inner) = <<Identity(first)>> \o IdentitiesIn(rest)
    <2> DEFINE all   == <<first>> \o more
               left  == [i \in DOMAIN all |-> Identity(all[i])]
               tail  == [i \in DOMAIN more |-> Identity(more[i])]
               right == <<Identity(first)>> \o tail
    <2>1. /\ Len(more) \in Nat /\ DOMAIN more = 1 .. Len(more)
          /\ Len(all) = Len(more) + 1 /\ DOMAIN all = 1 .. Len(more) + 1
          /\ all[1] = first /\ \A i \in 2 .. Len(more) + 1 : all[i] = more[i - 1]
      BY <1>1, <1>5
    <2>2. tail \in Seq(Identities) /\ Len(tail) = Len(more)
      <3>1. tail = IdentitiesIn(rest) BY DEF IdentitiesIn, more
      <3>2. tail \in Seq(Identities) BY <3>1, IdentitiesType
      <3>3. DOMAIN tail = 1 .. Len(more) BY <2>1
      <3> HIDE DEF tail
      <3> QED BY <2>1, <3>2, <3>3
    <2>3. \A i \in 1 .. Len(more) : tail[i] = Identity(more[i]) BY <2>1
    <2>4. \A i \in 1 .. Len(more) + 1 : left[i] = Identity(all[i]) BY <2>1
    <2>5. Identity(first) \in Identities BY <1>5 DEF Identities
    <2>6. DOMAIN left = 1 .. Len(more) + 1 /\ left = [i \in 1 .. Len(more) + 1 |-> left[i]]
      BY <2>1
    <2> HIDE DEF all, left, tail
    <2>7. /\ right \in Seq(Identities) /\ Len(right) = Len(more) + 1
          /\ right[1] = Identity(first)
          /\ \A i \in 2 .. Len(more) + 1 : right[i] = tail[i - 1]
      BY <2>1, <2>2, <2>5
    <2>8. right = [i \in 1 .. Len(more) + 1 |-> right[i]]
      <3> HIDE DEF right
      <3> QED BY <2>7
    <2> HIDE DEF right
    <2>9. ASSUME NEW i \in 1 .. Len(more) + 1 PROVE left[i] = right[i]
      <3>1. CASE i = 1 BY <2>1, <2>4, <2>7, <3>1
      <3>2. CASE i # 1
        <4>1. i \in 2 .. Len(more) + 1 /\ i - 1 \in 1 .. Len(more) BY <2>1, <3>2
        <4> QED BY <2>1, <2>3, <2>4, <2>7, <4>1
      <3> QED BY <3>1, <3>2
    <2>10. left = right BY <2>6, <2>8, <2>9
    <2> QED BY <1>6, <2>10 DEF IdentitiesIn, left, right, tail, all, more
  <1> QED BY <1>2, <1>3, <1>5, <1>6, <1>7, <1>8 DEF Readable, inner

\* What BuildSANExtension makes of a device is read from it.
LEMMA ReadDevice ==
  ASSUME NEW device \in DeviceInfos, ~Incomplete(device), NEW rest, Readable(rest)
  PROVE  /\ OtherNamesOf(device) \in Seq(Nat) /\ Readable(OtherNamesOf(device) \o rest)
         /\ Read(device.pi) \o Read(device.hm) \in Seq(Identities)
         /\ IdentitiesIn(OtherNamesOf(device) \o rest) =
              (Read(device.pi) \o Read(device.hm)) \o IdentitiesIn(rest)
  <1> DEFINE pi == device.pi
             hm == device.hm
             pn == IF pi = None THEN <<>>
                   ELSE OtherName(OIDPermanentIdentifier, PermanentIdentifierValue(pi))
             hn == IF hm = None THEN <<>>
                   ELSE OtherName(OIDHardwareModuleName, HardwareModuleValue(hm))
  <1>1. pi \in PermanentIdentifiers \cup {None} /\ hm \in HardwareModules \cup {None}
    BY DEF DeviceInfos
  <1>2. /\ OIDPermanentIdentifier \in Seq(Nat) /\ OIDPermanentIdentifier # <<>>
        /\ OIDHardwareModuleName \in Seq(Nat) /\ OIDHardwareModuleName # <<>>
        /\ OIDHardwareModuleName # OIDPermanentIdentifier
    <2>1. OIDPermanentIdentifier[9] = 3 /\ OIDHardwareModuleName[9] = 4
          /\ Len(OIDPermanentIdentifier) = 9 /\ Len(OIDHardwareModuleName) = 9
      BY DEF OIDPermanentIdentifier, OIDHardwareModuleName
    <2>2. OIDPermanentIdentifier \in Seq(Nat) /\ OIDHardwareModuleName \in Seq(Nat)
      BY DEF OIDPermanentIdentifier, OIDHardwareModuleName
    <2> QED BY <2>1, <2>2
  <1>3. rest \in Seq(Nat) /\ IdentitiesIn(rest) \in Seq(Identities)
    BY IdentitiesType DEF Readable
  <1>4. /\ hn \in Seq(Nat) /\ Readable(hn \o rest)
        /\ Read(hm) \in Seq(Identities)
        /\ IdentitiesIn(hn \o rest) = Read(hm) \o IdentitiesIn(rest)
    <2>1. CASE hm = None
      BY <1>3, <2>1 DEF Read
    <2>2. CASE hm # None
      <3> DEFINE value == HardwareModuleValue(hm)
                 first == [ok |-> TRUE, typeID |-> OIDHardwareModuleName, value |-> value]
      <3>1. hm \in HardwareModules /\ hm.type # <<>> BY <1>1, <2>2 DEF Incomplete
      <3>2. value \in Seq(Nat)
        <4>1. /\ SEQUENCE \in Nat /\ ObjectIdentifier \in Nat /\ OctetString \in Nat
              /\ hm.type \in Seq(Nat) /\ hm.value \in Seq(Nat)
          BY <3>1 DEF SEQUENCE, ObjectIdentifier, OctetString, HardwareModules
        <4>2. Element(ObjectIdentifier, hm.type) \o Element(OctetString, hm.value) \in Seq(Nat)
          BY <4>1, ElementType
        <4> QED BY <4>1, <4>2, ElementType DEF HardwareModuleValue
      <3>3. ParseHardwareModule(value) = [ok |-> TRUE, value |-> hm]
        BY <3>1, HardwareModuleRoundTrip
      <3>4. hn = OtherName(OIDHardwareModuleName, value) BY <2>2
      <3>5. first.typeID = OIDHardwareModuleName /\ first.value = value OBVIOUS
      <3>6. first = [ok |-> TRUE, typeID |-> OIDHardwareModuleName, value |-> value] OBVIOUS
      <3> HIDE DEF value, hn, first
      <3>7. /\ hn \in Seq(Nat) /\ Readable(hn \o rest) /\ first \in ParsedNames
            /\ IdentitiesIn(hn \o rest) = <<Identity(first)>> \o IdentitiesIn(rest)
        <4>1. Readable(rest) OBVIOUS
        <4> QED BY ONLY <1>2, <3>2, <3>4, <3>6, <4>1, ReadOtherName, SMTT(60)
      <3>8. Identity(first) = [ok |-> TRUE, value |-> hm]
        BY <1>2, <3>3, <3>5 DEF Identity
      <3>9. Identity(first) \in Identities BY <3>7 DEF Identities
      <3>10. Read(hm) = <<Identity(first)>> BY <2>2, <3>8 DEF Read
      <3> QED BY <3>7, <3>9, <3>10
    <2> QED BY <2>1, <2>2
  <1> DEFINE more == hn \o rest
  <1> HIDE DEF hn, more
  <1>5. Readable(more) BY <1>4 DEF more
  <1>6. /\ pn \in Seq(Nat) /\ Readable(pn \o more)
        /\ Read(pi) \in Seq(Identities)
        /\ IdentitiesIn(pn \o more) = Read(pi) \o IdentitiesIn(more)
    <2>1. CASE pi = None
      <3>1. more \in Seq(Nat) /\ IdentitiesIn(more) \in Seq(Identities)
        BY <1>5, IdentitiesType DEF Readable
      <3>2. pn = <<>> /\ Read(pi) = <<>> BY <2>1 DEF Read
      <3> HIDE DEF pn
      <3> QED BY <1>5, <3>1, <3>2
    <2>2. CASE pi # None
      <3> DEFINE value == PermanentIdentifierValue(pi)
                 first == [ok |-> TRUE, typeID |-> OIDPermanentIdentifier, value |-> value]
      <3>1. pi \in PermanentIdentifiers BY <1>1, <2>2
      <3>2. value \in Seq(Nat)
        <4>1. /\ SEQUENCE \in Nat /\ ObjectIdentifier \in Nat /\ UTF8String \in Nat
              /\ pi.identifier \in Seq(Nat) /\ pi.assigner \in Seq(Nat)
          BY <3>1 DEF SEQUENCE, ObjectIdentifier, UTF8String, PermanentIdentifiers
        <4>2. Optional(UTF8String, pi.identifier) \o Optional(ObjectIdentifier, pi.assigner)
                \in Seq(Nat)
          BY <4>1, OptionalType
        <4> QED BY <4>1, <4>2, ElementType DEF PermanentIdentifierValue
      <3>3. ParsePermanentIdentifier(value) = [ok |-> TRUE, value |-> pi]
        BY <3>1, PermanentIdentifierRoundTrip
      <3>4. pn = OtherName(OIDPermanentIdentifier, value) BY <2>2
      <3>5. first.typeID = OIDPermanentIdentifier /\ first.value = value OBVIOUS
      <3>6. first = [ok |-> TRUE, typeID |-> OIDPermanentIdentifier, value |-> value] OBVIOUS
      <3> HIDE DEF value, pn, first
      <3>7. /\ pn \in Seq(Nat) /\ Readable(pn \o more) /\ first \in ParsedNames
            /\ IdentitiesIn(pn \o more) = <<Identity(first)>> \o IdentitiesIn(more)
        BY <1>2, <1>5, <3>2, <3>4, <3>6, ReadOtherName
      <3>8. Identity(first) = [ok |-> TRUE, value |-> pi]
        BY <3>3, <3>5 DEF Identity
      <3>9. Identity(first) \in Identities BY <3>7 DEF Identities
      <3>10. Read(pi) = <<Identity(first)>> BY <2>2, <3>8 DEF Read
      <3> QED BY <3>7, <3>9, <3>10
    <2> QED BY <2>1, <2>2
  <1>7. OtherNamesOf(device) = pn \o hn BY DEF OtherNamesOf, hn
  <1> HIDE DEF pn, pi, hm
  <1>8. (pn \o hn) \o rest = pn \o (hn \o rest)
    <2>1. pn \in Seq(Nat) /\ hn \in Seq(Nat) /\ rest \in Seq(Nat) BY <1>3, <1>4, <1>6
    <2> QED BY ONLY <2>1, SMTT(30)
  <1>9. Read(pi) \o (Read(hm) \o IdentitiesIn(rest)) = (Read(pi) \o Read(hm)) \o IdentitiesIn(rest)
    <2>1. Read(pi) \in Seq(Identities) /\ Read(hm) \in Seq(Identities)
          /\ IdentitiesIn(rest) \in Seq(Identities)
      BY <1>3, <1>4, <1>6
    <2> QED BY ONLY <2>1, SMTT(30)
  <1> QED BY <1>4, <1>6, <1>7, <1>8, <1>9 DEF pi, hm, more

\* What it makes of all devices.
DeviceNames(devices) == FlattenSeq([i \in DOMAIN devices |-> OtherNamesOf(devices[i])])
DeviceReads(devices) ==
  FlattenSeq([i \in DOMAIN devices |-> Read(devices[i].pi) \o Read(devices[i].hm)])

LEMMA ReadDevices ==
  ASSUME NEW n \in Nat, NEW devices \in [1 .. n -> DeviceInfos], ~Refused(devices),
         NEW rest, Readable(rest)
  PROVE  /\ DeviceNames(devices) \in Seq(Nat) /\ Readable(DeviceNames(devices) \o rest)
         /\ DeviceReads(devices) \in Seq(Identities)
         /\ IdentitiesIn(DeviceNames(devices) \o rest) = DeviceReads(devices) \o IdentitiesIn(rest)
  <1> DEFINE Holds(d, r) ==
               /\ DeviceNames(d) \in Seq(Nat) /\ Readable(DeviceNames(d) \o r)
               /\ DeviceReads(d) \in Seq(Identities)
               /\ IdentitiesIn(DeviceNames(d) \o r) = DeviceReads(d) \o IdentitiesIn(r)
             T == {k \in Nat : \E d \in [1 .. k -> DeviceInfos] :
                     ~Refused(d) /\ \E r : Readable(r) /\ ~Holds(d, r)}
  <1>1. ASSUME NEW k \in T PROVE \E m \in T : m < k
    <2>1. PICK d \in [1 .. k -> DeviceInfos] :
            ~Refused(d) /\ \E r : Readable(r) /\ ~Holds(d, r)
      OBVIOUS
    <2>2. PICK r : Readable(r) /\ ~Holds(d, r) BY <2>1
    <2>3. k \in Nat OBVIOUS
    <2>4. k # 0
      <3> SUFFICES ASSUME k = 0 PROVE FALSE OBVIOUS
      <3>1. DOMAIN d = {} BY <2>1
      <3>2. DeviceNames(d) = <<>> /\ DeviceReads(d) = <<>>
        <4>1. [i \in DOMAIN d |-> OtherNamesOf(d[i])] = <<>>
              /\ [i \in DOMAIN d |-> Read(d[i].pi) \o Read(d[i].hm)] = <<>>
          BY <3>1
        <4> QED BY <4>1, FlattenNone DEF DeviceNames, DeviceReads
      <3>3. r \in Seq(Nat) /\ IdentitiesIn(r) \in Seq(Identities)
        BY <2>2, IdentitiesType DEF Readable
      <3>4. Holds(d, r) BY <2>2, <3>2, <3>3
      <3> QED BY <2>2, <3>4
    <2> DEFINE m == k - 1
               c == First(d, m)
               e == d[k]
               names == [i \in 1 .. k |-> OtherNamesOf(d[i])]
               reads == [i \in 1 .. k |-> Read(d[i].pi) \o Read(d[i].hm)]
               q == OtherNamesOf(e) \o r
    <2> HIDE DEF q
    <2>5. m \in Nat /\ m < k /\ k = m + 1 BY <2>3, <2>4
    <2> HIDE DEF m
    <2>6. /\ c \in [1 .. m -> DeviceInfos] /\ \A i \in 1 .. m : c[i] = d[i]
          /\ e \in DeviceInfos /\ d \in [1 .. k -> DeviceInfos]
      BY <2>1, <2>5 DEF First
    <2>7. ~Incomplete(e) /\ ~Refused(c)
      BY <2>1, <2>5, <2>6 DEF Refused
    <2> HIDE DEF c
    <2>8. /\ OtherNamesOf(e) \in Seq(Nat) /\ Readable(q) /\ q = OtherNamesOf(e) \o r
          /\ Read(e.pi) \o Read(e.hm) \in Seq(Identities)
          /\ IdentitiesIn(q) = (Read(e.pi) \o Read(e.hm)) \o IdentitiesIn(r)
      BY <2>6, <2>7, <2>2, ReadDevice DEF q
    <2>9. r \in Seq(Nat) /\ IdentitiesIn(r) \in Seq(Identities)
      BY <2>2, IdentitiesType DEF Readable
    <2>10. ASSUME Holds(c, q) PROVE FALSE
      <3>1. \A i \in 1 .. k : /\ OtherNamesOf(d[i]) \in Seq(Nat)
                              /\ Read(d[i].pi) \o Read(d[i].hm) \in Seq(Identities)
        <4> TAKE i \in 1 .. k
        <4>1. d[i] \in DeviceInfos /\ ~Incomplete(d[i]) BY <2>1, <2>5, <2>6 DEF Refused
        <4> QED BY <2>2, <4>1, ReadDevice
      <3>2. names \in [1 .. k -> Seq(Nat)] /\ reads \in [1 .. k -> Seq(Identities)]
        BY <3>1
      <3>3. /\ First(names, m) = [i \in DOMAIN c |-> OtherNamesOf(c[i])]
            /\ First(reads, m) = [i \in DOMAIN c |-> Read(c[i].pi) \o Read(c[i].hm)]
            /\ names[k] = OtherNamesOf(e) /\ reads[k] = Read(e.pi) \o Read(e.hm)
        <4>1. DOMAIN c = 1 .. m /\ \A i \in 1 .. m : c[i] = d[i] /\ i \in 1 .. k BY <2>5, <2>6
        <4>2. \A i \in 1 .. m : names[i] = OtherNamesOf(c[i]) BY <4>1
        <4>3. \A i \in 1 .. m : reads[i] = Read(c[i].pi) \o Read(c[i].hm) BY <4>1
        <4>4. k \in 1 .. k BY <2>3, <2>4
        <4>5. names[k] = OtherNamesOf(e) /\ reads[k] = Read(e.pi) \o Read(e.hm)
          BY <2>5, <4>4
        <4> HIDE DEF names, reads
        <4> QED BY <4>1, <4>2, <4>3, <4>5 DEF First
      <3>4. DeviceNames(d) = FlattenSeq(names) /\ DeviceReads(d) = FlattenSeq(reads)
        BY <2>6 DEF DeviceNames, DeviceReads
      <3>5. /\ FlattenSeq(First(names, m)) = DeviceNames(c)
            /\ FlattenSeq(First(reads, m)) = DeviceReads(c)
        BY <3>3 DEF DeviceNames, DeviceReads
      <3>6. DeviceNames(c) \in Seq(Nat) /\ DeviceReads(c) \in Seq(Identities) BY <2>10
      <3> HIDE DEF names, reads
      <3>7. DeviceNames(d) = DeviceNames(c) \o OtherNamesOf(e)
        <4>1. FlattenSeq(names) = FlattenSeq(First(names, k - 1)) \o names[k]
          BY <2>3, <2>4, <3>2, FlattenLast
        <4> QED BY <3>3, <3>4, <3>5, <4>1 DEF m
      <3>8. DeviceReads(d) = DeviceReads(c) \o (Read(e.pi) \o Read(e.hm))
        <4>1. FlattenSeq(reads) = FlattenSeq(First(reads, k - 1)) \o reads[k]
          BY <2>3, <2>4, <3>2, FlattenLast
        <4> QED BY <3>3, <3>4, <3>5, <4>1 DEF m
      <3> HIDE DEF e
      <3>9. DeviceNames(d) \o r = DeviceNames(c) \o q
        <4>1. (DeviceNames(c) \o OtherNamesOf(e)) \o r = DeviceNames(c) \o (OtherNamesOf(e) \o r)
          <5>1. /\ DeviceNames(c) \in Seq(Nat) /\ OtherNamesOf(e) \in Seq(Nat)
                /\ r \in Seq(Nat)
            BY <2>8, <2>9, <3>6
          <5> QED BY ONLY <5>1, SMTT(30)
        <4> QED BY <2>8, <3>7, <4>1, Zenon
      <3>10. DeviceReads(d) \o IdentitiesIn(r) = DeviceReads(c) \o IdentitiesIn(q)
        <4> DEFINE x == Read(e.pi) \o Read(e.hm)
        <4>1. x \in Seq(Identities) BY <2>8
        <4> HIDE DEF x
        <4>2. (DeviceReads(c) \o x) \o IdentitiesIn(r) = DeviceReads(c) \o (x \o IdentitiesIn(r))
          <5>1. DeviceReads(c) \in Seq(Identities) /\ IdentitiesIn(r) \in Seq(Identities)
            BY <2>9, <3>6
          <5> QED BY ONLY <4>1, <5>1, SMTT(30)
        <4> QED BY <2>8, <3>8, <4>2, Zenon DEF x
      <3>11. DeviceNames(d) \in Seq(Nat) /\ DeviceReads(d) \in Seq(Identities)
        BY <2>8, <3>6, <3>7, <3>8
      <3>12. Holds(d, r) BY <2>10, <3>9, <3>10, <3>11
      <3> QED BY <2>2, <3>12
    <2> QED BY <2>5, <2>6, <2>7, <2>8, <2>10
  <1>2. T = {}
    <2> HIDE DEF T
    <2>1. T \in SUBSET Nat BY DEF T
    <2> QED BY <1>1, <2>1, Descent
  <1> QED BY <1>2

\* A URI in front is skipped.
LEMMA ReadURI ==
  ASSUME NEW uri \in Seq(Nat), NEW rest \in Seq(Nat)
  PROVE  /\ Element(URI, uri) \in Seq(Nat) /\ Element(URI, uri) \o rest \in Seq(Nat)
         /\ OtherNames[Element(URI, uri) \o rest] = OtherNames[rest]
  <1> DEFINE inner == Element(URI, uri) \o rest
  <1>1. URI \in Nat /\ URI # Context0 BY DEF URI, Context0
  <1>2. Element(URI, uri) \in Seq(Nat) /\ Element(URI, uri) # <<>> BY <1>1, ElementType
  <1>3. inner \in Seq(Nat) /\ inner # <<>> BY <1>2
  <1>4. Unmarshal(inner) = [ok |-> TRUE, tag |-> URI, content |-> uri, rest |-> rest]
    BY <1>1, UnmarshalElement
  <1>5. Unmarshal(inner).ok /\ Unmarshal(inner).tag # Context0 /\ Unmarshal(inner).rest = rest
    BY <1>1, <1>4
  <1> HIDE DEF inner
  <1>6. OtherNames[inner] = ReadNames(OtherNames, inner) BY <1>3, OtherNamesValue
  <1>7. ReadNames(OtherNames, inner) = OtherNames[rest] BY <1>3, <1>5 DEF ReadNames
  <1> QED BY <1>2, <1>3, <1>6, <1>7 DEF inner

LEMMA ReadNothing == OtherNames[<<>>].names = <<>> /\ OtherNames[<<>>].ok = TRUE
  <1>1. <<>> \in Seq(Nat) OBVIOUS
  <1>2. OtherNames[<<>>] = ReadNames(OtherNames, <<>>) BY <1>1, OtherNamesValue
  <1>3. ReadNames(OtherNames, <<>>) = [ok |-> TRUE, names |-> <<>>] BY DEF ReadNames
  <1> QED BY <1>2, <1>3

Links(uris) == FlattenSeq([i \in DOMAIN uris |-> Element(URI, uris[i])])

LEMMA ReadLinks ==
  ASSUME NEW n \in Nat, NEW uris \in [1 .. n -> Seq(Nat)], NEW rest \in Seq(Nat)
  PROVE  /\ Links(uris) \in Seq(Nat)
         /\ OtherNames[Links(uris) \o rest] = OtherNames[rest]
  <1> DEFINE Holds(u, r) ==
               Links(u) \in Seq(Nat) /\ OtherNames[Links(u) \o r] = OtherNames[r]
             T == {k \in Nat : \E u \in [1 .. k -> Seq(Nat)], r \in Seq(Nat) : ~Holds(u, r)}
  <1>1. ASSUME NEW k \in T PROVE \E m \in T : m < k
    <2>1. PICK u \in [1 .. k -> Seq(Nat)], r \in Seq(Nat) : ~Holds(u, r) OBVIOUS
    <2>2. k \in Nat OBVIOUS
    <2>3. k # 0
      <3> SUFFICES ASSUME k = 0 PROVE FALSE OBVIOUS
      <3>1. DOMAIN u = {} BY <2>1
      <3>2. [i \in DOMAIN u |-> Element(URI, u[i])] = <<>> BY <3>1
      <3>3. Links(u) = <<>> BY <3>2, FlattenNone DEF Links
      <3>4. Holds(u, r) BY <2>1, <3>3
      <3> QED BY <2>1, <3>4
    <2> DEFINE m == k - 1
               v == First(u, m)
               e == Element(URI, u[k])
               all == [i \in 1 .. k |-> Element(URI, u[i])]
               q == e \o r
    <2>4. m \in Nat /\ m < k /\ k \in 1 .. k BY <2>2, <2>3
    <2> HIDE DEF m
    <2>5. v \in [1 .. m -> Seq(Nat)] /\ \A i \in 1 .. m : v[i] = u[i] /\ i \in 1 .. k
      BY <2>1, <2>4 DEF First, m
    <2> HIDE DEF v, q
    <2>6. /\ e \in Seq(Nat) /\ q \in Seq(Nat) /\ q = e \o r /\ OtherNames[q] = OtherNames[r]
      BY <2>1, <2>4, ReadURI DEF q
    <2>7. ASSUME Holds(v, q) PROVE FALSE
      <3>1. \A i \in 1 .. k : Element(URI, u[i]) \in Seq(Nat) BY <2>1, ReadURI
      <3>2. all \in [1 .. k -> Seq(Nat)] BY <3>1
      <3>3. First(all, m) = [i \in DOMAIN v |-> Element(URI, v[i])] /\ all[k] = e
        <4>1. DOMAIN v = 1 .. m BY <2>5
        <4>2. \A i \in 1 .. m : all[i] = Element(URI, v[i]) BY <2>5
        <4>3. all[k] = e BY <2>4
        <4> HIDE DEF all
        <4> QED BY <4>1, <4>2, <4>3 DEF First
      <3>4. Links(u) = FlattenSeq(all) BY <2>1 DEF Links
      <3>5. FlattenSeq(First(all, m)) = Links(v) BY <3>3 DEF Links
      <3> HIDE DEF all, e
      <3>6. FlattenSeq(all) = FlattenSeq(First(all, k - 1)) \o all[k]
        BY <2>2, <2>3, <3>2, FlattenLast
      <3>7. Links(u) = Links(v) \o e BY <3>3, <3>4, <3>5, <3>6 DEF m
      <3>8. Links(v) \in Seq(Nat) BY <2>7
      <3>9. (Links(v) \o e) \o r = Links(v) \o (e \o r)
        <4>1. Links(v) \in Seq(Nat) /\ e \in Seq(Nat) /\ r \in Seq(Nat) BY <2>1, <2>6, <3>8
        <4> QED BY ONLY <4>1, SMTT(30)
      <3>10. Links(u) \o r = Links(v) \o q BY <2>6, <3>7, <3>9
      <3>11. Links(u) \in Seq(Nat) BY <2>6, <3>7, <3>8
      <3>12. OtherNames[Links(v) \o q] = OtherNames[q] BY <2>7
      <3>13. Holds(u, r) BY <2>6, <3>10, <3>11, <3>12
      <3> QED BY <2>1, <3>13
    <2> QED BY <2>4, <2>5, <2>6, <2>7
  <1>2. T = {}
    <2> HIDE DEF T
    <2>1. T \in SUBSET Nat BY DEF T
    <2> QED BY <1>1, <2>1, Descent
  <1> QED BY <1>2

\* ParseOtherNames reads what BuildSANExtension has put together, however many devices and
\* URIs there are, with or without their parts: it does not fail, and what it finds is
\* each device's permanent identifier and hardware module in turn, and nothing else.
THEOREM SubjectAltNameRoundTrip ==
  ASSUME NEW devices \in Seq(DeviceInfos), ~Refused(devices), NEW uris \in Seq(Seq(Nat)),
         NEW body, body = DeviceNames(devices) \o Links(uris)
  PROVE  /\ body \in Seq(Nat) /\ ParseOtherNames(Element(SEQUENCE, body)) = OtherNames[body]
         /\ OtherNames[body].ok = TRUE /\ IdentitiesIn(body) = DeviceReads(devices)
  <1>1. /\ Len(devices) \in Nat /\ devices \in [1 .. Len(devices) -> DeviceInfos]
        /\ Len(uris) \in Nat /\ uris \in [1 .. Len(uris) -> Seq(Nat)]
    OBVIOUS
  <1> DEFINE links == Links(uris)
  <1>2. links \in Seq(Nat) /\ OtherNames[links] = OtherNames[<<>>]
    <2>1. <<>> \in Seq(Nat) OBVIOUS
    <2>2. Links(uris) \in Seq(Nat) /\ OtherNames[Links(uris) \o <<>>] = OtherNames[<<>>]
      BY <1>1, <2>1, ReadLinks
    <2> QED BY <2>2
  <1> HIDE DEF links
  <1>3. OtherNames[<<>>].names = <<>> /\ OtherNames[<<>>].ok = TRUE BY ReadNothing
  <1>4. Readable(links) /\ IdentitiesIn(links) = <<>>
    BY <1>2, <1>3 DEF Readable, IdentitiesIn
  <1>5. /\ DeviceNames(devices) \in Seq(Nat) /\ DeviceReads(devices) \in Seq(Identities)
        /\ Readable(DeviceNames(devices) \o links)
        /\ IdentitiesIn(DeviceNames(devices) \o links) = DeviceReads(devices) \o IdentitiesIn(links)
    BY <1>1, <1>4, ReadDevices
  <1>6. DeviceReads(devices) \o <<>> = DeviceReads(devices) BY <1>5
  <1>7. /\ body \in Seq(Nat) /\ OtherNames[body].ok = TRUE
        /\ IdentitiesIn(body) = DeviceReads(devices)
    BY <1>2, <1>4, <1>5, <1>6 DEF links, Readable
  <1>8. ParseOtherNames(Element(SEQUENCE, body)) = OtherNames[body]
    <2> DEFINE seq == Unmarshal(Element(SEQUENCE, body))
    <2>1. SEQUENCE \in Nat BY DEF SEQUENCE
    <2>2. seq = [ok |-> TRUE, tag |-> SEQUENCE, content |-> body, rest |-> <<>>]
      BY <1>7, <2>1, UnmarshalAlone
    <2>3. seq.ok /\ seq.rest = <<>> /\ seq.content = body BY <2>2
    <2> QED BY <2>3 DEF ParseOtherNames
  <1> QED BY <1>7, <1>8

\* They are found in the certificate, which has the extension unless it would be empty.
LEMMA ReadCertificate ==
  ASSUME NEW devices \in Seq(DeviceInfos), ~Refused(devices), NEW uris \in Seq(Seq(Nat)),
         certificate.extensions = <<[id |-> "keyUsage", value |-> <<>>]>>
                                    \o BuildSANExtension(devices, uris)
  PROVE  NamesRead = DeviceReads(devices)
  <1> DEFINE body == DeviceNames(devices) \o Links(uris)
             ku   == [id |-> "keyUsage", value |-> <<>>]
             san  == [id |-> "subjectAltName", value |-> Element(SEQUENCE, body)]
             ext  == certificate.extensions
             found == FindExtension(ext, "subjectAltName")
  <1>1. /\ body \in Seq(Nat) /\ IdentitiesIn(body) = DeviceReads(devices)
        /\ ParseOtherNames(Element(SEQUENCE, body)) = OtherNames[body]
    BY SubjectAltNameRoundTrip
  <1>2. BuildSANExtension(devices, uris) = IF body = <<>> THEN <<>> ELSE <<san>>
    BY DEF BuildSANExtension, DeviceNames, Links
  <1>3. NamesRead = LET names == ParseOtherNames(found.value).names
                    IN  IF found = None THEN <<>> ELSE [i \in DOMAIN names |-> Identity(names[i])]
    BY DEF NamesRead, Identity
  <1>4. SEQUENCE \in Nat BY DEF SEQUENCE
  <1>5. Element(SEQUENCE, body) \in Seq(Nat) BY <1>1, <1>4, ElementType
  <1>6. san \in Extensions BY <1>5 DEF Extensions
  <1>7. ku.id # "subjectAltName" /\ san.id = "subjectAltName" /\ san.value = Element(SEQUENCE, body)
    OBVIOUS
  <1>8. CASE body = <<>>
    <2>1. IdentitiesIn(<<>>) = <<>> BY ReadNothing DEF IdentitiesIn
    <2>2. ext = <<ku>> BY <1>2, <1>8
    <2> HIDE DEF ku, san, ext, body
    <2>3. found = None
      <3>1. {i \in 1 .. Len(ext) : ext[i].id = "subjectAltName"} = {} BY <1>7, <2>2
      <3> QED BY <3>1 DEF FindExtension, SelectInSeq
    <2> QED BY <1>1, <1>3, <1>8, <2>1, <2>3
  <1>9. CASE body # <<>>
    <2>1. ext = <<ku>> \o <<san>> BY <1>2, <1>9
    <2> HIDE DEF ku, san, ext, body
    <2>2. Len(ext) = 2 /\ ext[1] = ku /\ ext[2] = san BY <2>1
    <2>3. found = san
      <3> DEFINE those == {i \in 1 .. Len(ext) : ext[i].id = "subjectAltName"}
                 first == IF those # {} THEN Min(those) ELSE 0
      <3>1. those = {2} BY <1>7, <2>2
      <3>2. found = IF first = 0 THEN None ELSE ext[first] BY DEF FindExtension, SelectInSeq
      <3> HIDE DEF those
      <3>3. first = 2 BY <3>1 DEF Min
      <3> HIDE DEF first
      <3> QED BY <2>2, <3>2, <3>3
    <2>4. found # None BY <1>6, <2>3, DeviceIdentityAssumption
    <2>5. ParseOtherNames(found.value) = OtherNames[body] BY <1>1, <1>7, <2>3
    <2> QED BY <1>1, <1>3, <2>4, <2>5 DEF IdentitiesIn
  <1> QED BY <1>8, <1>9

-----------------------------------------------------------------------------
(* What a certificate says.                                                *)

\* The last certificate was issued for the devices that its challenges still tell of.
CertifiedDevices ==
  certificate # None =>
    /\ \E n \in Nat : certificate.order \in [1 .. n -> Challenges]
    /\ ~Refused(DevicesOf(certificate.order))
    /\ \E uris \in {<<>>, URIs} :
         certificate.extensions = <<[id |-> "keyUsage", value |-> <<>>]>>
                                   \o BuildSANExtension(DevicesOf(certificate.order), uris)

\* Finalize finds devices, of which not every part need be there.
LEMMA DevicesOfType ==
  ASSUME IdentityInv, NEW n \in Nat, NEW order \in [1 .. n -> Challenges],
         \A i \in 1 .. n : status[order[i]] = "valid"
  PROVE  DevicesOf(order) \in Seq(DeviceInfos)
  <1> DEFINE found == [i \in 1 .. n |->
                         IF Extracted(order[i]) = None THEN <<>> ELSE <<Extracted(order[i])>>]
  <1>1. ASSUME NEW i \in 1 .. n PROVE found[i] \in Seq(DeviceInfos)
    <2>1. order[i] \in Challenges /\ TypeOK /\ Sound(order[i]) BY InvIsSound
    <2>2. stmt[order[i]] \in Statements BY <2>1 DEF Sound, TypeOK
    <2>3. Extracted(order[i]) \in DeviceInfos \cup {None} BY <2>1, <2>2, ExtractedIsVerified
    <2>4. Extracted(order[i]) # None => <<Extracted(order[i])>> \in Seq(DeviceInfos) BY <2>3
    <2> QED BY <2>4
  <1>2. found \in [1 .. n -> Seq(DeviceInfos)] BY <1>1
  <1>3. DevicesOf(order) = FlattenSeq(found) BY DEF DevicesOf
  <1> HIDE DEF found
  <1> QED BY <1>2, <1>3, FlattenType

\* Nothing changes the statement of a valid challenge.
LEMMA ValidStatementStays ==
  ASSUME IdentityInv, [Next]_vars, NEW c \in Challenges, status[c] = "valid"
  PROVE  stmt'[c] = stmt[c]
  <1>1. TypeOK /\ \A d \in Challenges : Sound(d) BY InvIsSound
  <1>2. step[c] = "idle" BY <1>1 DEF Sound
  <1>3. ASSUME NEW d \in Challenges,
               \/ \E s \in Sendable(d) : Respond(d, s)
               \/ Verify(d) \/ AuthorizeNull(d) \/ FetchDevices(d) \/ Decide(d)
        PROVE  stmt'[c] = stmt[c]
    <2>1. d # c BY <1>2, <1>3 DEF Respond, Verify, AuthorizeNull, FetchDevices, Decide
    <2> QED
      BY <1>1, <1>3, <2>1
      DEF TypeOK, Respond, Verify, AuthorizeNull, FetchDevices, Decide, Settle
  <1>4. CASE Crash BY <1>4 DEF Crash
  <1> QED
    BY <1>3, <1>4 DEF Next, vars, Attest, Reorganize, IssueCertificate

LEMMA CertifiedDevicesStep ==
  ASSUME IdentityInv, CertifiedValid, CertifiedDevices, [Next]_vars
  PROVE  CertifiedDevices'
  <1>1. CASE UNCHANGED certificate
    <2> SUFFICES ASSUME certificate # None PROVE CertifiedDevices'
      BY <1>1 DEF CertifiedDevices
    <2>1. PICK order : order = certificate.order OBVIOUS
    <2>2. \A i \in DOMAIN order : order[i] \in Challenges /\ status[order[i]] = "valid"
      BY <2>1 DEF CertifiedValid
    <2>3. ASSUME NEW i \in DOMAIN order PROVE Extracted(order[i])' = Extracted(order[i])
      <3>1. stmt'[order[i]] = stmt[order[i]] BY <2>2, ValidStatementStays
      <3> QED BY <3>1 DEF Extracted
    <2>4. DevicesOf(order)' = DevicesOf(order) BY <2>3 DEF DevicesOf
    <2>5. /\ DevicesOf(certificate.order) = DevicesOf(order)
          /\ DevicesOf(certificate.order)' = DevicesOf(order)'
      BY <1>1, <2>1 DEF DevicesOf, Extracted
    <2> QED BY <1>1, <2>1, <2>4, <2>5 DEF CertifiedDevices
  <1>2. ASSUME NEW order \in ReadyOrders, NEW uris \in {<<>>, URIs}, IssueCertificate(order, uris)
        PROVE  CertifiedDevices'
    <2>1. Cardinality(Challenges) \in Nat BY DeviceIdentityAssumption, FS_CardinalityType
    <2>2. \E n \in Nat : order \in [1 .. n -> Challenges] BY <2>1 DEF ReadyOrders
    <2>3. /\ UNCHANGED stmt /\ ~Refused(DevicesOf(order)) /\ certificate'.order = order
          /\ certificate'.extensions = <<[id |-> "keyUsage", value |-> <<>>]>>
                                        \o BuildSANExtension(DevicesOf(order), uris)
      BY <1>2 DEF IssueCertificate
    <2>4. DevicesOf(certificate.order)' = DevicesOf(order)
      BY <2>3 DEF DevicesOf, Extracted
    <2> QED BY <2>2, <2>3, <2>4 DEF CertifiedDevices
  <1> QED
    BY <1>1, <1>2
    DEF Next, vars, Attest, Reorganize, Respond, Verify, AuthorizeNull, FetchDevices, Decide, Crash

\* Whatever devices a certificate is issued for, and whatever URIs, from it the identities
\* are read that finalize has found for its challenges, and no others.
THEOREM CertificatesIdentify == Spec => []CertificateIdentifies
  <1>1. Init => CertifiedValid /\ CertifiedDevices BY DEF Init, CertifiedValid, CertifiedDevices
  <1>2. IdentityInv /\ CertifiedValid /\ CertifiedDevices => CertificateIdentifies
    <2> SUFFICES ASSUME IdentityInv, CertifiedValid, CertifiedDevices, certificate # None,
                        NEW devices, devices = DevicesOf(certificate.order)
                 PROVE  NamesRead = DeviceReads(devices)
      BY DEF CertificateIdentifies, DeviceReads
    <2>1. PICK n \in Nat : certificate.order \in [1 .. n -> Challenges]
      BY DEF CertifiedDevices
    <2>2. devices \in Seq(DeviceInfos) BY <2>1, DevicesOfType DEF CertifiedValid
    <2>3. PICK uris \in {<<>>, URIs} :
            certificate.extensions = <<[id |-> "keyUsage", value |-> <<>>]>>
                                      \o BuildSANExtension(devices, uris)
      BY DEF CertifiedDevices
    <2>4. ~Refused(devices) BY DEF CertifiedDevices
    <2>5. uris \in Seq(Seq(Nat))
      <3>1. <<>> \in Seq(Seq(Nat)) OBVIOUS
      <3> QED BY <3>1, DeviceIdentityAssumption
    <2> QED BY <2>2, <2>3, <2>4, <2>5, ReadCertificate
  <1> QED BY <1>1, <1>2, CertifiedStep, CertifiedDevicesStep, IdentityInvariance, PTL DEF Spec
==============================================================================
