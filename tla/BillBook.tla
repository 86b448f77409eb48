------------------------------ MODULE BillBook ------------------------------
(***************************************************************************)
(* What the API promises about the bills of one user, without revisions,   *)
(* tasks or workers: the answer of GetBillsStateAction.                    *)
(*                                                                         *)
(* While the state is "syncing" the listed bills may be out of date in any *)
(* way.  It becomes "completed" only together with the charges of the      *)
(* present documents, and stays so until the documents change or a new     *)
(* search is forced.  A paid bill is never listed again while its document *)
(* exists.                                                                 *)
(***************************************************************************)
CONSTANTS Fine, Value, ChargedTo

VARIABLES
  state,   \* UserState: "unregistered", "syncing", "completed"
  wanted,  \* what the user's documents say
  listed,  \* the unpaid bills
  paid     \* the paid bills

bookVars == <<state, wanted, listed, paid>>

ChargesOf(vals) == {f \in Fine : ChargedTo[f] \in vals}

Init ==
  /\ state = "unregistered"
  /\ wanted = {} /\ listed = {} /\ paid = {}

\* Documents are created, changed or deleted; the bills of a deleted document
\* disappear.
Change ==
  /\ wanted' \in SUBSET Value
  /\ listed' \in SUBSET listed
  /\ paid' \in SUBSET paid
  /\ state' = "syncing"

\* A search of the present documents is saved.
Refresh ==
  /\ \E charges \in SUBSET ChargesOf(wanted) : listed' = charges \ paid
  /\ state' = "completed"
  /\ UNCHANGED <<wanted, paid>>

\* A search of documents the user had earlier is saved.
RefreshStale ==
  /\ state = "syncing"
  /\ listed' \in SUBSET (Fine \ paid)
  /\ UNCHANGED <<state, wanted, paid>>

\* A bill is paid, even one that is no longer listed.
Pay(f) ==
  /\ f \notin paid
  /\ paid' = paid \cup {f}
  /\ listed' = listed \ {f}
  /\ UNCHANGED <<state, wanted>>

CatchUp == state = "syncing" /\ Refresh
RefreshAgain == state = "completed" /\ Refresh

Next == Change \/ CatchUp \/ RefreshAgain \/ RefreshStale \/ \E f \in Fine : Pay(f)

Spec == Init /\ [][Next]_bookVars

\* The bills are brought up to date in the end, if the documents stay the same.
FairSpec == Spec /\ WF_bookVars(CatchUp)
=============================================================================
