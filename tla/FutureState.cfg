\* Two copies of one Promise race to satisfy two Futures.
CONSTANTS
  Promises = {p1, p2}
  Futures = {f1, f2}
  First = p1
  Values = {v1}
  Errors = {e1}
  NullPtr = NullPtr
  Broken = Broken
  Nothing = Nothing
SPECIFICATION FairSpec
INVARIANTS
  NoAbandonedFuture
  NoLostWakeup
PROPERTIES
  GetReturns
  ImplementsOneShot
