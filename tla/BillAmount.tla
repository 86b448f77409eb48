----------------------------- MODULE BillAmount -----------------------------
(***************************************************************************)
(* What the user pays for a bill: Bill.discounted_amount plus              *)
(* Bill.fee_amount, both computed anew whenever they are asked for, from   *)
(* the amount of the bill and the day.  All amounts are in minor units     *)
(* (kopecks); the decimals of the code are integers of thousandths here,   *)
(* which is exact for settings with at most three decimals.                *)
(*                                                                         *)
(* An operator X_M is a mutant of X, what X would be with a plausible      *)
(* mistake.                                                                *)
(***************************************************************************)
EXTENDS Integers

CONSTANTS
  Amount,        \* amounts to pay
  DiscountSize,  \* discounts, per cent
  MULTIPLIER,    \* BILL_COMMISSION_MULTIPLIER, in thousandths
  ADDITION,      \* BILL_COMMISSION_ADDITION, roubles
  MIN,           \* BILL_COMMISSION_MIN, roubles
  LastDay,       \* bound: days are numbered from 0 to LastDay
  Absent         \* a discount size or date that is NULL

ASSUME AmountAssumption ==
  /\ Amount \subseteq Nat
  /\ DiscountSize \subseteq 0..100
  /\ MULTIPLIER \in 0..999 /\ ADDITION \in Int /\ MIN \in Nat
  /\ LastDay \in Nat
  /\ Absent \notin Int

VARIABLES bill, today

amountVars == <<bill, today>>

Bill == [amount_to_pay : Amount,
         discount_size : DiscountSize \cup {Absent},
         discount_date : (0..LastDay) \cup {Absent}]

Init ==
  /\ bill \in Bill
  /\ today = 0

HasDiscount_M(b, day) ==
  b.discount_size # Absent /\ b.discount_date # Absent /\ day > b.discount_date

HasDiscount(b, day) ==
  b.discount_size # Absent /\ b.discount_date # Absent /\ day <= b.discount_date

\* The amount less the discount, in hundredths of a minor unit.
Reduced(amount, size) == amount * (100 - size)

RoundedUp_M(hundredths) == hundredths \div 100

RoundedUp(hundredths) == (hundredths + 99) \div 100

discounted_amount(b, day) ==
  IF HasDiscount(b, day) THEN RoundedUp(Reduced(b.amount_to_pay, b.discount_size))
                         ELSE b.amount_to_pay

\* The fee of an amount before rounding, in thousandths of a minor unit.
ExactFee(amount) ==
  LET share == amount * MULTIPLIER + ADDITION * 100000
  IN  IF share < MIN * 100000 THEN MIN * 100000 ELSE share

HalfUp(thousandths) == (thousandths + 500) \div 1000

fee_amount(b, day) == HalfUp(ExactFee(discounted_amount(b, day)))

Total(b, day) == discounted_amount(b, day) + fee_amount(b, day)

\* Midnight passes between two answers of the API.
NextDay ==
  /\ today < LastDay
  /\ today' = today + 1
  /\ UNCHANGED bill

Next == NextDay

Spec == Init /\ [][Next]_amountVars

-----------------------------------------------------------------------------
(* Properties.                                                             *)

TypeOK == bill \in Bill /\ today \in 0..LastDay

\* The discount is rounded in favour of the payee, by less than one minor unit.
DiscountIsCeiling ==
  HasDiscount(bill, today) =>
    LET d == discounted_amount(bill, today)
        x == Reduced(bill.amount_to_pay, bill.discount_size)
    IN  /\ x <= 100 * d /\ 100 * d < x + 100
        /\ d <= bill.amount_to_pay

\* The fee is the nearest minor unit, ties going up, and never less than MIN.
FeeIsHalfUp ==
  LET f == fee_amount(bill, today)
      x == ExactFee(discounted_amount(bill, today))
  IN  /\ 1000 * f - x <= 500 /\ x - 1000 * f < 500
      /\ f >= 100 * MIN

\* Discount and fee are rounded as the two promise, whatever the amount, the
\* discount, the day and the settings of the fee.
AmountsAreRounded == DiscountIsCeiling /\ FeeIsHalfUp

\* Waiting never makes a bill cheaper: what CreateTransactionAction charges is at
\* least what was listed on an earlier day.
NeverCheaperLater == [][Total(bill', today') >= Total(bill, today)]_amountVars
=============================================================================
