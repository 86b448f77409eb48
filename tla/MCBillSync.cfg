CONSTANTS
  Task = {t1, t2, t3}
  DocId = {d1, d2}
  Value = {car, licence}
  car = car
  licence = licence
  fine1 = fine1
  fine2 = fine2
  Fine = {fine1, fine2}
  ChargedTo <- MCChargedTo
  NoDoc = NoDoc
  Unborn = Unborn
  Deleted = Deleted
  DocumentsLimit = 1
  MaxRetries = 2
  FinishMayFail = FALSE
  MaxRevision = 4
  MaxInFlight = 2
  MaxFaults = 1
SYMMETRY Rows
SPECIFICATION Spec
INVARIANTS LatestIsQueued HolderIsAlive CompletedIsCurrent CompletedBillsAreExact OneKaznaCall CompletedIsSubscribed
PROPERTIES ImplementsBook
CHECK_DEADLOCK FALSE
