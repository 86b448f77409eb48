CONSTANTS
  Amount <- MCAmount
  DiscountSize <- MCSize
  MULTIPLIER = 23
  ADDITION = 10
  MIN = 20
  LastDay = 3
  Absent = Absent
SPECIFICATION Spec
INVARIANTS AmountsAreRounded
PROPERTIES NeverCheaperLater
CHECK_DEADLOCK FALSE
