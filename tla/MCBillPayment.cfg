CONSTANTS
  Bill = {b1, b2}
  Order = {o1, o2}
  Tx = {x1, x2}
  Creator = {c1, c2}
  Updater = {u1, u2}
  Writer = {w1}
  NoBill = NoBill
  NoOrder = NoOrder
  NoTx = NoTx
  MaxFaults = 1
SYMMETRY Ids
SPECIFICATION Spec
INVARIANTS DeadlocksArePairsOrOverBills OneOpenAttempt PaidTogether ChargedOrderIsUnpaid PaidIsAuthorised
PROPERTIES ImplementsAttempts
CHECK_DEADLOCK FALSE
