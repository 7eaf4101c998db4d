\* Two challenges, an Apple device, and devices that another verifier knows.
SPECIFICATION Spec
CONSTANTS
  None = None
  Challenges = {c1, c2}
  Devices <- MCDevices
  Verifiers = {"apple", "null", "other"}
  OtherInfos <- MCOtherInfos
  URIs <- MCURIs
  Faults = {"error", "crash"}
SYMMETRY Symmetry
INVARIANTS
  IdentityInv
  AuthorizedIsAttested
  CertifiedAsAuthorized
  CertificateIdentifies
CHECK_DEADLOCK FALSE
