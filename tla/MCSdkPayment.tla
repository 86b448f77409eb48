---------------------------- MODULE MCSdkPayment ----------------------------
(***************************************************************************)
(* SdkPayment for TLC; the values of the constants are in the              *)
(* configurations.                                                         *)
(***************************************************************************)
EXTENDS SdkPayment
=============================================================================
