\* Two requests at a time on an order with two identifiers; nothing fails.
\* CHECK_DEADLOCK FALSE: the system is at rest when no client sends anything.
SPECIFICATION Spec
CONSTANTS
  None = None
  Accounts = {a1}
  OrderIds = {o1}
  MaxIdents = 2
  Serials = {s1}
  Handlers = {h1, h2}
  Verifiers = {"apple"}
  Submissions <- DeviceSubmission
  Faults = {}
PROPERTIES
  OrderFinalStates
CHECK_DEADLOCK FALSE
