SPECIFICATION PoolFairSpec
CONSTANTS
  Caller = {c1, c2, c3}
  Path <- MCPath
  Anc <- MCAnc
  Rank <- MCRank
  Request <- MCRequest
  Threads = 2
  Background = {}
  Deferrable = {c1}
PROPERTY DeferredCallsFinish
