CONSTANTS
  MaxCalls = 2
  Address = {a1, a2}
  None = None
SPECIFICATION FairSpec
INVARIANTS PreloadersHaveCalls CallsInTurnAgree
PROPERTIES OneAnswerOneFetch NoPreloaderForever
CHECK_DEADLOCK FALSE
