\* One challenge, and a server with the verifiers of both formats of the repository.
SPECIFICATION Spec
CONSTANTS
  None = None
  Challenges = {c1}
  Devices <- MCDevices
  Verifiers = {"apple", "null"}
  OtherInfos = {}
  URIs <- MCURIs
  Faults = {}
INVARIANT CertifiedInOrganization
CHECK_DEADLOCK FALSE
