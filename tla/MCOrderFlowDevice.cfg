\* One Apple device, one request at a time, nothing fails.
\* CHECK_DEADLOCK FALSE: the system is at rest when no client sends anything.
SPECIFICATION Spec
CONSTANTS
  None = None
  Accounts = {a1}
  OrderIds = {o1}
  MaxIdents = 1
  Serials = {s1}
  Handlers = {h1}
  Verifiers = {"apple"}
  Submissions <- DeviceSubmission
  Faults = {}
INVARIANTS
  CertificateNamesDevice
CHECK_DEADLOCK FALSE
