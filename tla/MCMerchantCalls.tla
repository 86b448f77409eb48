--------------------------- MODULE MCMerchantCalls ---------------------------
(***************************************************************************)
(* MerchantCalls for TLC; the values of the constants are in the           *)
(* configurations.                                                         *)
(***************************************************************************)
EXTENDS MerchantCalls
=============================================================================
