------------------------- MODULE MCCheckoutPayment -------------------------
(***************************************************************************)
(* CheckoutPayment for TLC; no definition is needed, the values of the     *)
(* constants are in the configurations.                                    *)
(***************************************************************************)
EXTENDS CheckoutPayment
=============================================================================
