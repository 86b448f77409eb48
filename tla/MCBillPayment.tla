--------------------------- MODULE MCBillPayment ---------------------------
(***************************************************************************)
(* BillPayment for TLC.                                                    *)
(***************************************************************************)
EXTENDS BillPayment, TLC

\* Bills, orders, transaction ids and workers are interchangeable.
Ids == Permutations(Bill) \cup Permutations(Order) \cup Permutations(Tx)
         \cup Permutations(Creator) \cup Permutations(Updater)
=============================================================================
