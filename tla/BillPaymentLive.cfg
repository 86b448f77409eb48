CONSTANTS
  Bill = {b1, b2}
  Order = {o1}
  Tx = {x1}
  Creator = {c1}
  Updater = {u1}
  Writer = {w1, w2}
  NoBill = NoBill
  NoOrder = NoOrder
  NoTx = NoTx
  MaxFaults = 0
SPECIFICATION FairSpec
PROPERTIES EveryRequestEnds Settled
CHECK_DEADLOCK FALSE
