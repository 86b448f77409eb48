---------------------------- MODULE MCBillAmount ----------------------------
(***************************************************************************)
(* BillAmount for TLC: every amount near the limits of rounding and near   *)
(* the amount from which the fee exceeds its minimum.                      *)
(***************************************************************************)
EXTENDS BillAmount

MCAmount == 0..120 \cup 4000..4020 \cup 43400..43540 \cup 104480..104520 \cup 250000..250100
MCSize == {0, 1, 30, 33, 50, 99, 100}
=============================================================================
