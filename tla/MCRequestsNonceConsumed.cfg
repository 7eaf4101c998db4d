\* One client, one request at a time; nothing fails.
\* CHECK_DEADLOCK FALSE: the system is at rest when no client sends anything.
SPECIFICATION Spec
CONSTANTS
  None = None
  Keys = {k1}
  AccountIds = {a1}
  NonceValues = {n1, n2, n3}
  Handlers = {h1}
  Expiry = 0
  MaxTime = 1
  Faults = {}
INVARIANTS
  NonceConsumed
CHECK_DEADLOCK FALSE
