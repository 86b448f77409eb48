CONSTANTS
  Payment = {p1, p2}
  Frame = {f1}
  None = None
  MaxChallenges = 1
SPECIFICATION FairSpec
INVARIANTS ProgressIsWatched ReportedIsPaid
PROPERTIES SuccessIsFinal CancelledComesToRest EveryPaymentEnds
CHECK_DEADLOCK FALSE
