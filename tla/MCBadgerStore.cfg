\* Two clients, any calls, with failures and crashes.
SPECIFICATION Spec
CONSTANTS
  None = None
  Done = Done
  Error = Error
  Documents = {d1, d2}
  ChallengeIds = {h1}
  AccountIds = {a1, a2}
  Keys = {k1, k2}
  Data = {x, y}
  Clients = {c1, c2}
  Faults = {"error", "crash"}
SYMMETRY Symmetry
INVARIANTS
  StoreInv
PROPERTIES
  StoreIsAtomic
CHECK_DEADLOCK FALSE
