CONSTANTS
  Caller = {c1, c2}
  Empty = Empty
  Torn = Torn
  MaxPublished = 3
  MaxStarts = 2
SPECIFICATION Spec
INVARIANTS CacheIsFresh
PROPERTIES KeysNeverGoBack GetIsAnswered CloseReturns CatchesUp
CHECK_DEADLOCK FALSE
