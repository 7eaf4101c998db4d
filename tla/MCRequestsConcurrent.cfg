\* Two requests at a time, of two keys, with failures and crashes.
\* CHECK_DEADLOCK FALSE: the system is at rest when no client sends anything.
SPECIFICATION Spec
CONSTANTS
  None = None
  Keys = {k1, k2}
  AccountIds = {a1, a2}
  NonceValues = {n1, n2, n3}
  Handlers = {h1, h2}
  Expiry = 0
  MaxTime = 1
  Faults = {"error", "crash"}
SYMMETRY Symmetry
INVARIANTS
  TypeOK
  NonceSingleUse
  Authenticated
  ReplayNonceUsable
  KeyIndexed
  RInv
  ReplayInv
PROPERTIES
  TokensKept
CHECK_DEADLOCK FALSE
