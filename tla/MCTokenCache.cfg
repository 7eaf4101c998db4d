\* Two processes that share a cache file, with failures and restarts until they end.
SPECIFICATION FairSpec
CONSTANTS
  None = None
  Failed = Failed
  NoExpiry = NoExpiry
  Procs = {p1, p2}
  Lifetimes <- MCLifetimes
  MaxLife = 1
  CacheLife = 1
  Delta = 1
  MaxTime = 1
INVARIANTS
  CacheInv
PROPERTIES
  PromiseKept
  CallsRecover
