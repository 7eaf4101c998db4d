--------------------------- MODULE AttestationData ---------------------------
(***************************************************************************)
(* What happens to the data of an attestation between the two times the CA *)
(* verifies it: first as the client sends it (CBOR decoded, in             *)
(* handleChallengeResponse), then as it comes back from the stored         *)
(* challenge (JSON decoded, in extractDeviceInfoFromChallenge).            *)
(*                                                                         *)
(* A statement is the attStmt map reduced to what the code looks at:       *)
(*   fmt     the value of its "fmt" key if that is a string, or "none"     *)
(*   x5c     its "x5c" array: of byte strings, of text strings, or "none"  *)
(*   nested  whether some value of the map is itself a map                 *)
(***************************************************************************)

CONSTANT Verifiers   \* the formats registered with WithVerifier

Formats == {"null", "apple"}

\* New refuses a CA without an attestation verifier.
ASSUME VerifiersAssumption == Verifiers \subseteq Formats /\ Verifiers # {}

Statements == [fmt : Formats \cup {"none"}, x5c : {"bytes", "text", "none"}, nested : BOOLEAN]

NoAttestation == [fmt |-> "none", x5c |-> "none", nested |-> FALSE]

(***************************************************************************)
(* The possible results of verifier.Verify for a statement.                *)
(***************************************************************************)

\* The null verifier never looks at the statement.
NullOutcomes == {TRUE}

\* The apple verifier wants an array of byte slices; whether the certificates
\* in it carry the expected nonce and chain to Apple's root is left open.
AppleOutcomes(att) == IF att.x5c = "bytes" THEN BOOLEAN ELSE {FALSE}

VerifyOutcomes(format, att) == IF format = "null" THEN NullOutcomes ELSE AppleOutcomes(att)

(***************************************************************************)
(* The challenge is stored as JSON.  encoding/json has no encoding for the *)
(* map[any]any the CBOR decoder builds for a nested map; a []byte becomes  *)
(* a base64 string and stays one; an empty map is dropped (omitempty).     *)
(***************************************************************************)
Encodable(att) == ~att.nested

AsStored(att) == IF att.x5c = "bytes" THEN [att EXCEPT !.x5c = "text"] ELSE att

\* Whether extractDeviceInfoFromChallenge finds a device in a stored statement.
ExtractOutcomes(att) ==
  IF att # NoAttestation /\ att.fmt \in Verifiers
    THEN VerifyOutcomes(att.fmt, att)
    ELSE {FALSE}
==============================================================================
