CONSTANTS
  Task = {t1, t2, t3}
  DocId = {d1, d2}
  Value = {car}
  car = car
  licence = licence
  fine1 = fine1
  fine2 = fine2
  Fine = {fine1}
  ChargedTo <- MCOneFine
  NoDoc = NoDoc
  Unborn = Unborn
  Deleted = Deleted
  DocumentsLimit = 2
  MaxRetries = 2
  FinishMayFail = TRUE
  MaxRevision = 3
  MaxInFlight = 1
  MaxFaults = 1
SPECIFICATION FairSpec
PROPERTIES ImplementsFairBook
CHECK_DEADLOCK FALSE
