------------------------- MODULE BillAmount_proofs -------------------------
(***************************************************************************)
(* The arithmetic of BillAmount for every amount, discount and setting.    *)
(***************************************************************************)
EXTENDS BillAmount, TLAPS

-----------------------------------------------------------------------------
(* Rounding.                                                               *)

\* The ceiling of x / 100: (x + 99) // 100 in Bill.discounted_amount.
LEMMA CeilingOfHundredths ==
  ASSUME NEW x \in Nat
  PROVE  /\ RoundedUp(x) \in Nat
         /\ x <= 100 * RoundedUp(x)
         /\ 100 * RoundedUp(x) < x + 100
<1> DEFINE q == (x + 99) \div 100
<1>1. q \in Int /\ 100 * q <= x + 99 /\ x + 99 < 100 * q + 100
  BY SMT
<1>2. q >= 0
  BY <1>1, SMT
<1> QED BY <1>1, <1>2, SMT DEF RoundedUp

\* The nearest minor unit: ROUND_HALF_UP in Bill.fee_amount.
LEMMA NearestUnit ==
  ASSUME NEW x \in Nat
  PROVE  /\ HalfUp(x) \in Nat
         /\ 1000 * HalfUp(x) <= x + 500
         /\ x + 500 < 1000 * HalfUp(x) + 1000
<1> DEFINE q == (x + 500) \div 1000
<1>1. q \in Int /\ 1000 * q <= x + 500 /\ x + 500 < 1000 * q + 1000
  BY SMT
<1>2. q >= 0
  BY <1>1, SMT
<1> QED BY <1>1, <1>2, SMT DEF HalfUp

\* A larger fee before rounding is not smaller after it.
LEMMA HalfUpMonotone ==
  ASSUME NEW x \in Nat, NEW y \in Nat, x <= y
  PROVE  HalfUp(x) <= HalfUp(y)
<1> DEFINE p == HalfUp(x)
           q == HalfUp(y)
<1>1. p \in Nat /\ 1000 * p <= x + 500
  BY NearestUnit
<1>2. q \in Nat /\ y + 500 < 1000 * q + 1000
  BY NearestUnit
<1> HIDE DEF p, q
<1>3. p <= q
  BY <1>1, <1>2, SMT
<1> QED BY <1>3 DEF p, q

-----------------------------------------------------------------------------
(* Discount and fee.                                                       *)

\* The fee before rounding is a natural number and grows with the amount; it
\* never falls below the minimum, whatever the sign of the addition.
LEMMA ExactFeeMonotone ==
  ASSUME NEW a \in Nat, NEW b \in Nat, a <= b
  PROVE  /\ ExactFee(a) \in Nat /\ ExactFee(b) \in Nat
         /\ ExactFee(a) <= ExactFee(b)
         /\ 100000 * MIN <= ExactFee(a)
<1> DEFINE s(n) == n * MULTIPLIER + ADDITION * 100000
           m == MIN * 100000
<1>1. MULTIPLIER \in Nat /\ ADDITION \in Int /\ MIN \in Nat
  BY AmountAssumption, SMT
<1>2. s(a) \in Int /\ s(b) \in Int /\ m \in Nat /\ m = 100000 * MIN
  BY <1>1, SMT
<1>3. s(a) <= s(b)
  <2>1. b - a \in Nat
    BY SMT
  <2>2. (b - a) * MULTIPLIER \in Nat
    BY <2>1, <1>1, SMT
  <2>3. b * MULTIPLIER = a * MULTIPLIER + (b - a) * MULTIPLIER
    BY <1>1, SMT
  <2> QED BY <2>2, <2>3, <1>1, SMT
<1>4. \A n : ExactFee(n) = IF s(n) < m THEN m ELSE s(n)
  BY DEF ExactFee
<1> HIDE DEF s, m
<1> QED BY <1>2, <1>3, <1>4, SMT

\* What a bill costs after its discount is a natural number, and at most the
\* amount of the bill.
LEMMA DiscountLemma ==
  ASSUME NEW b \in Bill, NEW day \in Nat, HasDiscount(b, day)
  PROVE  /\ Reduced(b.amount_to_pay, b.discount_size) \in Nat
         /\ discounted_amount(b, day) \in Nat
         /\ Reduced(b.amount_to_pay, b.discount_size) <= 100 * discounted_amount(b, day)
         /\ 100 * discounted_amount(b, day) < Reduced(b.amount_to_pay, b.discount_size) + 100
         /\ discounted_amount(b, day) <= b.amount_to_pay
<1> DEFINE a == b.amount_to_pay
           z == b.discount_size
           x == Reduced(a, z)
           d == RoundedUp(x)
<1>1. a \in Nat /\ z \in 0..100
  <2>1. a \in Amount /\ z \in DiscountSize \cup {Absent}
    BY DEF Bill
  <2>2. z # Absent
    BY DEF HasDiscount
  <2>3. Amount \subseteq Nat /\ DiscountSize \subseteq 0..100
    BY AmountAssumption
  <2> QED BY <2>1, <2>2, <2>3
<1>2. x \in Nat /\ x <= 100 * a
  <2>1. 100 - z \in Nat /\ z \in Nat
    BY <1>1, SMT
  <2>2. a * (100 - z) \in Nat /\ a * z \in Nat
    BY <1>1, <2>1, SMT
  <2>3. 100 * a = a * (100 - z) + a * z
    BY <1>1, <2>1, SMT
  <2> QED BY <1>1, <2>2, <2>3, SMT DEF Reduced
<1>3. d \in Nat /\ x <= 100 * d /\ 100 * d < x + 100
  BY <1>2, CeilingOfHundredths
<1>4. discounted_amount(b, day) = d
  BY DEF discounted_amount
<1> HIDE DEF a, x, d
<1>5. d <= a
  BY <1>1, <1>2, <1>3, SMT
<1> QED BY <1>2, <1>3, <1>4, <1>5 DEF a, x

\* With or without a discount.
LEMMA AmountBounds ==
  ASSUME NEW b \in Bill, NEW day \in Nat
  PROVE  discounted_amount(b, day) \in Nat /\ discounted_amount(b, day) <= b.amount_to_pay
<1>1. b.amount_to_pay \in Nat
  <2>1. b.amount_to_pay \in Amount
    BY DEF Bill
  <2>2. Amount \subseteq Nat
    BY AmountAssumption
  <2> QED BY <2>1, <2>2
<1>2. CASE HasDiscount(b, day)
  BY <1>2, DiscountLemma
<1>3. CASE ~HasDiscount(b, day)
  BY <1>1, <1>3, SMT DEF discounted_amount
<1> QED BY <1>2, <1>3

\* On a later day a bill costs the same or has lost its discount.
LEMMA LaterIsDearer ==
  ASSUME NEW b \in Bill, NEW day \in Nat
  PROVE  Total(b, day + 1) >= Total(b, day)
<1> DEFINE old == discounted_amount(b, day)
           new == discounted_amount(b, day + 1)
<1>1. day + 1 \in Nat
  BY SMT
<1>2. old \in Nat /\ new \in Nat /\ old <= b.amount_to_pay
  BY <1>1, AmountBounds
<1>3. old <= new
  <2>1. CASE HasDiscount(b, day + 1)
    <3>1. b.discount_date \in Int
      BY <2>1, AmountAssumption, SMT DEF Bill, HasDiscount
    <3>2. HasDiscount(b, day)
      BY <2>1, <3>1, SMT DEF HasDiscount
    <3>3. old = new
      BY <2>1, <3>2 DEF discounted_amount
    <3> QED BY <3>3, <1>2, SMT
  <2>2. CASE ~HasDiscount(b, day + 1)
    <3>1. new = b.amount_to_pay
      BY <2>2 DEF discounted_amount
    <3> QED BY <3>1, <1>2
  <2> QED BY <2>1, <2>2
<1>4. ExactFee(old) \in Nat /\ ExactFee(new) \in Nat /\ ExactFee(old) <= ExactFee(new)
  BY <1>2, <1>3, ExactFeeMonotone
<1>5. HalfUp(ExactFee(old)) <= HalfUp(ExactFee(new))
  BY <1>4, HalfUpMonotone
<1>6. HalfUp(ExactFee(old)) \in Nat /\ HalfUp(ExactFee(new)) \in Nat
  BY <1>4, NearestUnit
<1>7. /\ Total(b, day) = old + HalfUp(ExactFee(old))
      /\ Total(b, day + 1) = new + HalfUp(ExactFee(new))
  BY DEF Total, fee_amount
<1> DEFINE f == HalfUp(ExactFee(old))
           g == HalfUp(ExactFee(new))
<1> HIDE DEF old, new, f, g
<1>8. old \in Nat /\ new \in Nat /\ f \in Nat /\ g \in Nat /\ old <= new /\ f <= g
  BY <1>2, <1>3, <1>5, <1>6 DEF f, g
<1>9. new + g >= old + f
  BY <1>8, SMT
<1> QED BY <1>7, <1>9 DEF f, g

-----------------------------------------------------------------------------
(* The properties.                                                         *)

\* Bill and day keep their types.
LEMMA AmountType == Spec => []TypeOK
<1>1. Init => TypeOK
  BY AmountAssumption, SMT DEF Init, TypeOK
<1>2. TypeOK /\ [Next]_amountVars => TypeOK'
  BY AmountAssumption, SMT DEF TypeOK, Next, NextDay, amountVars
<1> QED BY <1>1, <1>2, PTL DEF Spec

\* Bill.discounted_amount is the exact amount rounded up, for every amount and
\* every discount.
THEOREM CeilingTheorem == Spec => []DiscountIsCeiling
<1>1. TypeOK => DiscountIsCeiling
  <2> SUFFICES ASSUME TypeOK, HasDiscount(bill, today) PROVE DiscountIsCeiling
    BY DEF DiscountIsCeiling
  <2>1. bill \in Bill /\ today \in Nat
    BY AmountAssumption, SMT DEF TypeOK
  <2> QED BY <2>1, DiscountLemma DEF DiscountIsCeiling
<1> QED BY <1>1, AmountType, PTL

\* Bill.fee_amount is the exact fee rounded half up and at least the minimum,
\* for every amount and all settings the assertions of bill.py admit.
THEOREM FeeTheorem == Spec => []FeeIsHalfUp
<1>1. TypeOK => FeeIsHalfUp
  <2> SUFFICES ASSUME TypeOK PROVE FeeIsHalfUp
    OBVIOUS
  <2> DEFINE x == ExactFee(discounted_amount(bill, today))
             f == HalfUp(x)
  <2>1. bill \in Bill /\ today \in Nat
    BY AmountAssumption, SMT DEF TypeOK
  <2>2. discounted_amount(bill, today) \in Nat
    BY <2>1, AmountBounds
  <2>3. x \in Nat /\ 100000 * MIN <= x
    BY <2>2, ExactFeeMonotone, SMT
  <2>4. f \in Nat /\ 1000 * f <= x + 500 /\ x + 500 < 1000 * f + 1000
    <3>1. x \in Nat
      BY <2>3
    <3> HIDE DEF x
    <3> QED BY <3>1, NearestUnit
  <2>5. fee_amount(bill, today) = f
    BY DEF fee_amount
  <2>6. MIN \in Nat
    BY AmountAssumption
  <2> HIDE DEF x, f
  <2>7. 1000 * f - x <= 500 /\ x - 1000 * f < 500 /\ f >= 100 * MIN
    BY <2>3, <2>4, <2>6, SMT
  <2> QED BY <2>5, <2>7 DEF FeeIsHalfUp, x
<1> QED BY <1>1, AmountType, PTL

\* Discount and fee are rounded as Bill.discounted_amount and Bill.fee_amount
\* mean to.
THEOREM RoundingTheorem == Spec => []AmountsAreRounded
<1>1. DiscountIsCeiling /\ FeeIsHalfUp => AmountsAreRounded
  BY DEF AmountsAreRounded
<1> QED BY <1>1, CeilingTheorem, FeeTheorem, PTL

\* A payment made after midnight is never cheaper than what was listed before.
THEOREM DearerTheorem == Spec => NeverCheaperLater
<1>1. TypeOK /\ [Next]_amountVars => [Total(bill', today') >= Total(bill, today)]_amountVars
  <2> SUFFICES ASSUME TypeOK, NextDay PROVE Total(bill', today') >= Total(bill, today)
    BY DEF Next, amountVars
  <2>1. bill \in Bill /\ today \in Nat
    BY AmountAssumption, SMT DEF TypeOK
  <2>2. bill' = bill /\ today' = today + 1
    BY DEF NextDay
  <2> QED BY <2>1, <2>2, LaterIsDearer
<1> QED BY <1>1, AmountType, PTL DEF Spec, NeverCheaperLater
=============================================================================
