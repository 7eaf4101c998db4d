\* One client, one request at a time; nothing fails.
\* CHECK_DEADLOCK FALSE: the system is at rest when no client sends anything.
SPECIFICATION Spec
CONSTANTS
  None = None
  Keys = {k1}
  AccountIds = {a1, a2}
  NonceValues = {n1, n2, n3, n4}
  Handlers = {h1}
  Expiry = 1
  MaxTime = 1
  Faults = {}
INVARIANTS
  AccountFound
CHECK_DEADLOCK FALSE
