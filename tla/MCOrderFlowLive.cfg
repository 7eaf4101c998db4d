\* Progress of concurrent requests.
\* CHECK_DEADLOCK FALSE: the system is at rest when no client sends anything.
SPECIFICATION FairSpec
CONSTANTS
  None = None
  Accounts = {a1}
  OrderIds = {o1}
  MaxIdents = 2
  Serials = {s1, s2}
  Handlers = {h1, h2, h3}
  Verifiers = {"null", "apple"}
  Submissions <- PlainSubmission
  Faults = {}
INVARIANTS
  NothingStranded
  CertificatesReachable
PROPERTIES
  RequestsAnswered
  ChallengeDecided
  OrderSettles
CHECK_DEADLOCK FALSE
