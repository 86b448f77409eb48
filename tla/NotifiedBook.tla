---------------------------- MODULE NotifiedBook ----------------------------
(***************************************************************************)
(* What the API promises about the bills of one user once Kazna also       *)
(* notifies about charges by itself: the book of BillBook, in which a      *)
(* charge may also appear between two searches, but only one that Kazna    *)
(* has notified about and that the book does not hold yet.                 *)
(***************************************************************************)
EXTENDS BillBook

VARIABLE notified  \* the fines Kazna has notified about

notifiedVars == <<bookVars, notified>>

NotifiedInit == Init /\ notified = {}

Notify(f) ==
  /\ notified' = notified \cup {f}
  /\ UNCHANGED bookVars

\* The bills of one batch appear together.  They may be late: the document may
\* have changed since, also when the book is "completed" again.
Add(fines) ==
  /\ fines \subseteq notified
  /\ fines \cap (listed \cup paid) = {}
  /\ listed' = listed \cup fines
  /\ UNCHANGED <<state, wanted, paid, notified>>

NotifiedNext ==
  \/ Next /\ UNCHANGED notified
  \/ \E f \in Fine : Notify(f)
  \/ \E fines \in SUBSET Fine : Add(fines)

NotifiedSpec == NotifiedInit /\ [][NotifiedNext]_notifiedVars
=============================================================================
