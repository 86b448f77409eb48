----------------------------- MODULE MCBillSync -----------------------------
(***************************************************************************)
(* BillSync for TLC: two fines of two documents' contents, so that a       *)
(* change of a document makes a charge of the old content stale.           *)
(***************************************************************************)
EXTENDS BillSync, TLC

CONSTANTS car, licence, fine1, fine2

MCChargedTo == fine1 :> car @@ fine2 :> licence

MCOneFine == fine1 :> car

\* Rows of the task table, and documents not yet created, are interchangeable.
Rows == Permutations(Task) \cup Permutations(DocId)
=============================================================================
