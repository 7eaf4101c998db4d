\* Three requests at a time on one order with up to two identifiers; any storage
\* or issuer call may fail and the process may die at any point.
\* CHECK_DEADLOCK FALSE: the system is at rest when no client sends anything.
SPECIFICATION Spec
CONSTANTS
  None = None
  Accounts = {a1, a2}
  OrderIds = {o1}
  MaxIdents = 2
  Serials = {s1, s2}
  Handlers = {h1, h2, h3}
  Verifiers = {"null", "apple"}
  Submissions <- AnySubmission
  Faults = {"error", "crash"}
SYMMETRY Symmetry
INVARIANTS
  TypeOK
  IssuanceJustified
  OrderJustified
  AuthzJustified
  SoleProcessor
  CertificateUrlResolves
  DownloadByOwner
  ReferentialIntegrity
  IInv
  RefInv
  SettleInv
PROPERTIES
  VerdictFinal
  AloneFinalStates
CHECK_DEADLOCK FALSE
