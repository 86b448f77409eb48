CONSTANTS
  MaxCheckouts = 1
  MaxResults = 1
  MaxInbox = 1
SPECIFICATION FairSpec
PROPERTIES NoAbortOnceReceived
CHECK_DEADLOCK FALSE
