CONSTANTS
  MaxCheckouts = 2
  MaxResults = 3
  MaxInbox = 2
SPECIFICATION FairSpec
INVARIANTS UnansweredIsWatched
PROPERTIES NoAbortOnceSealed EveryCheckoutIsAnswered EveryResultIsEmitted ImplementsOutcomes
CHECK_DEADLOCK FALSE
