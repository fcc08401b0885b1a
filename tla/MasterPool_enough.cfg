SPECIFICATION PoolFairSpec
CONSTANTS
  Caller = {c1, c2, c3}
  Path <- MCPath
  Anc <- MCAnc
  Rank <- MCRank
  Request <- MCRequest
  Threads = 2
  Background = {c3}
  Deferrable = {c1, c2}
INVARIANTS PoolTypeOK MutualExclusion SubtreeExclusion EntriesExact NoLostWakeup NoDeadlock
INVARIANTS QueueExact DeferredHoldsLocks
PROPERTIES AcquireReturns AllCallsFinish
