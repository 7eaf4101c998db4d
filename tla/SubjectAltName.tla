---------------------------- MODULE SubjectAltName ----------------------------
(***************************************************************************)
(* The identities of devices in the SubjectAltName of a certificate: how   *)
(* certutil.go writes them and parse.go reads them.                        *)
(*                                                                         *)
(* DER is a sequence of numbers, an element being its tag, the length of   *)
(* its content and the content.  Lengths of any size fit in one number,    *)
(* and so does an arc of an object identifier.  Texts are sequences of     *)
(* numbers too, the empty one being the empty string.                      *)
(***************************************************************************)
EXTENDS Naturals, Sequences, SequencesExt

CONSTANT None

\* Tags, as the first byte of an element: universal, then context-specific.
OctetString == 4
ObjectIdentifier == 6
UTF8String  == 12
SEQUENCE    == 48
URI         == 134
Context0    == 160   \* [0], constructed

OIDPermanentIdentifier == <<1, 3, 6, 1, 5, 5, 7, 8, 3>>
OIDHardwareModuleName  == <<1, 3, 6, 1, 5, 5, 7, 8, 4>>

\* What cryptobyte accepts as an object identifier.
ValidOID(oid) == Len(oid) >= 2 /\ oid[1] <= 2 /\ (oid[1] <= 1 => oid[2] < 40)

\* A PermanentIdentifier and a HardwareModule; of a device, either may be missing.
PermanentIdentifiers == [identifier : Seq(Nat), assigner : Seq(Nat)]
HardwareModules      == [type : Seq(Nat), value : Seq(Nat)]

\* An extension of a certificate.
Extensions == [id : {"keyUsage", "subjectAltName"}, value : Seq(Nat)]

-----------------------------------------------------------------------------
(* Writing: certutil.go.                                                   *)

\* AddASN1 with the content that its function adds.
Element(tag, content) == <<tag, Len(content)>> \o content

\* An optional element, left out if it would be empty.
Optional(tag, content) == IF content = <<>> THEN <<>> ELSE Element(tag, content)

\* Mutant: the optional parts of a PermanentIdentifier come in the other order.
AssignerFirst(pi) ==
  Element(SEQUENCE, Optional(ObjectIdentifier, pi.assigner) \o Optional(UTF8String, pi.identifier))

PermanentIdentifierValue(pi) ==
  Element(SEQUENCE, Optional(UTF8String, pi.identifier) \o Optional(ObjectIdentifier, pi.assigner))

HardwareModuleValue(hm) ==
  Element(SEQUENCE, Element(ObjectIdentifier, hm.type) \o Element(OctetString, hm.value))

\* otherName [0] IMPLICIT SEQUENCE { type-id OID, value [0] EXPLICIT ANY }
OtherName(typeID, value) ==
  Element(Context0, Element(ObjectIdentifier, typeID) \o Element(Context0, value))

\* AddPermanentIdentifierOtherName and AddHardwareModuleOtherName, for what a device has.
OtherNamesOf(device) ==
     (IF device.pi = None THEN <<>>
      ELSE OtherName(OIDPermanentIdentifier, PermanentIdentifierValue(device.pi)))
  \o (IF device.hm = None THEN <<>>
      ELSE OtherName(OIDHardwareModuleName, HardwareModuleValue(device.hm)))

\* A hardware module lacks a part that RFC 4108 demands.
Incomplete(device) == device.hm # None /\ (device.hm.type = <<>> \/ device.hm.value = <<>>)

\* An object identifier of the device makes the builder fail.
Unencodable(device) ==
  \/ device.pi # None /\ device.pi.assigner # <<>> /\ ~ValidOID(device.pi.assigner)
  \/ device.hm # None /\ ~ValidOID(device.hm.type)

\* BuildSANExtension returns an error for these devices.
Refused(devices) == \E i \in DOMAIN devices : Incomplete(devices[i]) \/ Unencodable(devices[i])

\* The extension it returns otherwise: none (nil) if it would be empty.
BuildSANExtension(devices, uris) ==
  LET names == FlattenSeq([i \in DOMAIN devices |-> OtherNamesOf(devices[i])])
      links == FlattenSeq([i \in DOMAIN uris |-> Element(URI, uris[i])])
  IN  IF names \o links = <<>> THEN <<>>
      ELSE <<[id |-> "subjectAltName", value |-> Element(SEQUENCE, names \o links)]>>

-----------------------------------------------------------------------------
(* Reading: parse.go.  A result that is not ok is an error.                *)

\* asn1.Unmarshal into a RawValue: the first element, and what follows it.
Unmarshal(der) ==
  IF Len(der) >= 2 /\ Len(der) >= der[2] + 2
    THEN [ok |-> TRUE, tag |-> der[1], content |-> SubSeq(der, 3, der[2] + 2),
          rest |-> SubSeq(der, der[2] + 3, Len(der))]
    ELSE [ok |-> FALSE, tag |-> 0, content |-> <<>>, rest |-> <<>>]

\* asn1.Unmarshal into an ObjectIdentifier, which may not be empty.
IsOID(element) == element.ok /\ element.tag = ObjectIdentifier /\ element.content # <<>>

ParsePermanentIdentifier(der) ==
  LET seq   == Unmarshal(der)
      first == Unmarshal(seq.content)
      named == first.ok /\ first.tag = UTF8String
      inner == IF named THEN first.rest ELSE seq.content
      oid   == Unmarshal(inner)
  IN  [ok    |-> seq.ok /\ seq.rest = <<>> /\ (inner # <<>> => IsOID(oid)),
       value |-> [identifier |-> IF named THEN first.content ELSE <<>>,
                  assigner   |-> IF inner # <<>> THEN oid.content ELSE <<>>]]

ParseHardwareModule(der) ==
  LET seq    == Unmarshal(der)
      type   == Unmarshal(seq.content)
      serial == Unmarshal(type.rest)
  IN  [ok    |-> seq.ok /\ seq.rest = <<>> /\ IsOID(type)
                   /\ serial.ok /\ serial.tag = OctetString,
       value |-> [type |-> type.content, value |-> serial.content]]

ParseOtherNameContent(content) ==
  LET typeID   == Unmarshal(content)
      explicit == Unmarshal(typeID.rest)
  IN  [ok     |-> IsOID(typeID) /\ explicit.ok /\ explicit.rest = <<>>,
       typeID |-> typeID.content,
       value  |-> explicit.content]

\* The loop of ParseOtherNames over the content of the SEQUENCE: it takes the
\* otherNames, skips other names, and stops at what it cannot read.
OtherNames[inner \in Seq(Nat)] ==
  LET name == Unmarshal(inner)
      this == ParseOtherNameContent(name.content)
      more == OtherNames[name.rest]
  IN  IF inner = <<>> THEN [ok |-> TRUE, names |-> <<>>]
      ELSE IF ~name.ok THEN [ok |-> FALSE, names |-> <<>>]
      ELSE IF name.tag # Context0 THEN more
      ELSE [ok |-> this.ok /\ more.ok, names |-> <<this>> \o more.names]

ParseOtherNames(der) ==
  LET seq == Unmarshal(der)
  IN  IF seq.ok /\ seq.rest = <<>> THEN OtherNames[seq.content]
      ELSE [ok |-> FALSE, names |-> <<>>]

\* FindExtension: the first one with that id, or none.
FindExtension(extensions, id) ==
  LET found == SelectInSeq(extensions, LAMBDA e : e.id = id)
  IN  IF found = 0 THEN None ELSE extensions[found]
==============================================================================
