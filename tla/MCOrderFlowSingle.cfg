\* Orders with one identifier: two of them, of two accounts, three requests at a
\* time, with failures and crashes.
\* CHECK_DEADLOCK FALSE: the system is at rest when no client sends anything.
SPECIFICATION Spec
CONSTANTS
  None = None
  Accounts = {a1, a2}
  OrderIds = {o1, o2}
  MaxIdents = 1
  Serials = {s1, s2}
  Handlers = {h1, h2, h3}
  Verifiers = {"null", "apple"}
  Submissions <- AnySubmission
  Faults = {"error", "crash"}
SYMMETRY Symmetry
INVARIANTS
  FinalizedAnswer
  CertificatesReachable
PROPERTIES
  OrderFinalStates
  LifecycleKept
CHECK_DEADLOCK FALSE
