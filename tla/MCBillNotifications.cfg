CONSTANTS
  Task = {t1, t2}
  DocId = {d1}
  Value = {car}
  car = car
  fine1 = fine1
  fine2 = fine2
  Fine = {fine1, fine2}
  ChargedTo <- MCChargedTo
  NoDoc = NoDoc
  NoFine = NoFine
  Unborn = Unborn
  Deleted = Deleted
  DocumentsLimit = 2
  MaxRetries = 1
  FinishMayFail = FALSE
  MaxRevision = 3
  MaxInFlight = 1
  MaxFaults = 0
  Webhook = {w1, w2}
SYMMETRY Interchangeable
SPECIFICATION NotificationSpec
INVARIANTS CompletedBillsAreKnown NothingOverwritten
PROPERTIES ImplementsNotifiedBook
CHECK_DEADLOCK FALSE
