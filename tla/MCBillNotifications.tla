------------------------- MODULE MCBillNotifications -------------------------
(***************************************************************************)
(* BillNotifications for TLC.                                              *)
(***************************************************************************)
EXTENDS BillNotifications, TLC

CONSTANTS car, fine1, fine2

\* Two fines of one car, so that two batches can insert them in both orders.
MCChargedTo == fine1 :> car @@ fine2 :> car

Interchangeable == Permutations(Task) \cup Permutations(Webhook) \cup Permutations(DocId)
=============================================================================
