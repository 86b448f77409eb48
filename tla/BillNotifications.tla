-------------------------- MODULE BillNotifications --------------------------
(***************************************************************************)
(* BillSync together with the webhook of Kazna that stores new bills,      *)
(* CreateBillsFromManyNotificationsAction.                                 *)
(*                                                                         *)
(* A batch of notifications is one database transaction of many            *)
(* statements: for each bill it looks for the bill, looks for a document   *)
(* with the same code and value, and inserts the bill under the document   *)
(* it has found.  Nothing is locked by the two reads, so everything of     *)
(* BillSync may happen between them and the insert.  A row once inserted   *)
(* holds its key and its document until the end of the transaction.        *)
(* Kazna may deliver any notification late and more than once, also after  *)
(* the webhook has answered with an error.                                 *)
(***************************************************************************)
EXTENDS BillSync

CONSTANTS
  Webhook,  \* workers of the API that handle the webhook
  NoFine    \* no fine

ASSUME NotificationAssumption == NoFine \notin Fine

VARIABLES
  sent,     \* Kazna: fines it has notified about
  webhook   \* the batches being handled

notificationVars == <<sent, webhook>>
allVars == <<vars, notificationVars>>

NoRows  == [f \in Fine |-> NoDoc]
NoBatch == [open |-> FALSE, todo |-> {}, fine |-> NoFine, doc |-> NoDoc, rows |-> NoRows]

(***************************************************************************)
(* A batch: open until the transaction ends, with the notifications still  *)
(* to be handled, the bill that is about to be inserted under the document *)
(* that was found, and the rows inserted but not committed.                *)
(***************************************************************************)
Batch == [open : BOOLEAN, todo : SUBSET Fine, fine : Fine \cup {NoFine},
          doc : DocId \cup {NoDoc}, rows : [Fine -> DocId \cup {NoDoc}]]

NotificationInit ==
  /\ Init
  /\ sent = {}
  /\ webhook = [w \in Webhook |-> NoBatch]

-----------------------------------------------------------------------------
\* Kazna finds a charge to a document the user is subscribed to.
Notice(f) ==
  /\ f \notin sent
  /\ ChargedTo[f] \in subscribed
  /\ sent' = sent \cup {f}
  /\ UNCHANGED <<vars, webhook>>

Receive(w, fines) ==
  /\ ~webhook[w].open
  /\ fines # {} /\ fines \subseteq sent
  /\ webhook' = [webhook EXCEPT ![w] = [NoBatch EXCEPT !.open = TRUE, !.todo = fines]]
  /\ UNCHANGED <<vars, sent>>

Matching(f) == {d \in Live(docs) : docs[d] = ChargedTo[f]}

\* A bill that exists is left as it is; a bill without document is ignored.
Ignore(w, f) ==
  /\ webhook[w].fine = NoFine
  /\ f \in webhook[w].todo
  /\ bills[f].status # "none" \/ Matching(f) = {}
  /\ webhook' = [webhook EXCEPT ![w].todo = @ \ {f}]
  /\ UNCHANGED <<vars, sent>>

MatchDocument(w, f, d) ==
  /\ webhook[w].fine = NoFine
  /\ f \in webhook[w].todo
  /\ bills[f].status = "none"
  /\ d \in Matching(f)
  /\ webhook' = [webhook EXCEPT ![w].fine = f, ![w].doc = d, ![w].todo = @ \ {f}]
  /\ UNCHANGED <<vars, sent>>

KeyIsTaken_M(w, f) == FALSE

\* Another transaction has inserted the key and is not over.
KeyIsTaken(w, f) == \E v \in Webhook \ {w} : webhook[v].rows[f] # NoDoc

IsRefused_M(w) == webhook[w].doc \notin Live(docs)

\* The unique key (uid, supplier_bill_id) and the foreign key of the document.
IsRefused(w) ==
  \/ bills[webhook[w].fine].status # "none"
  \/ webhook[w].doc \notin Live(docs)

InsertBill(w) ==
  LET b == webhook[w]
  IN  /\ b.fine # NoFine
      /\ ~KeyIsTaken(w, b.fine) /\ ~IsRefused(w)
      /\ webhook' = [webhook EXCEPT ![w] =
                       [b EXCEPT !.rows[b.fine] = b.doc, !.fine = NoFine, !.doc = NoDoc]]
      /\ UNCHANGED <<vars, sent>>

\* w waits for the key of a row of v.
WaitsFor(w, v) == webhook[w].fine # NoFine /\ webhook[v].rows[webhook[w].fine] # NoDoc

\* The insert is refused, or the database breaks a deadlock of two batches:
\* nothing of the batch is kept.
RollBack(w) ==
  /\ webhook[w].fine # NoFine
  /\ \/ ~KeyIsTaken(w, webhook[w].fine) /\ IsRefused(w)
     \/ \E v \in Webhook \ {w} : WaitsFor(w, v) /\ WaitsFor(v, w)
  /\ webhook' = [webhook EXCEPT ![w] = NoBatch]
  /\ UNCHANGED <<vars, sent>>

Stored(rows) ==
  [f \in Fine |-> IF rows[f] = NoDoc THEN bills[f] ELSE [status |-> "new", doc |-> rows[f]]]

CommitBatch(w) ==
  /\ webhook[w].open /\ webhook[w].todo = {} /\ webhook[w].fine = NoFine
  /\ bills' = Stored(webhook[w].rows)
  /\ webhook' = [webhook EXCEPT ![w] = NoBatch]
  /\ UNCHANGED <<userVars, docs, task, subscribed, apiVars, answered, faults, sent>>

\* An exception at any moment; Kazna may send the same fines again, so that no
\* bound is needed.
WebhookRaises(w) ==
  /\ webhook[w].open
  /\ webhook' = [webhook EXCEPT ![w] = NoBatch]
  /\ UNCHANGED <<vars, sent>>

\* A search that inserts a key a batch has inserted waits for it, and fails
\* when the batch commits.
CompleteConflicts(t) ==
  /\ task[t].pc = "saving"
  /\ \E w \in Webhook, f \in task[t].charges : webhook[w].rows[f] # NoDoc
  /\ fail(t)
  /\ UNCHANGED <<userVars, docs, bills, subscribed, apiVars, answered, faults, notificationVars>>

\* What a batch has inserted keeps others from writing the same key and from
\* deleting the document.
RowsAreLocked ==
  \A w \in Webhook, f \in Fine : webhook[w].rows[f] # NoDoc =>
    bills'[f] = bills[f] /\ docs'[webhook[w].rows[f]] # Deleted

HandleBatch(w) ==
  \/ \E f \in Fine : Ignore(w, f) \/ \E d \in DocId : MatchDocument(w, f, d)
  \/ InsertBill(w)
  \/ RollBack(w)
  \/ CommitBatch(w)

NotificationNext ==
  \/ Next /\ RowsAreLocked /\ UNCHANGED notificationVars
  \/ \E t \in Task : CompleteConflicts(t)
  \/ \E f \in Fine : Notice(f)
  \/ \E w \in Webhook :
       \/ \E fines \in SUBSET Fine : Receive(w, fines)
       \/ HandleBatch(w)
       \/ WebhookRaises(w)

NotificationSpec == NotificationInit /\ [][NotificationNext]_allVars

-----------------------------------------------------------------------------
NoticedBook == INSTANCE NotifiedBook WITH state <- UserState, wanted <- Values(docs),
                                          listed <- Unpaid, paid <- Paid, notified <- sent

-----------------------------------------------------------------------------
(* Properties.                                                             *)

NotificationTypeOK ==
  /\ TypeOK
  /\ sent \in SUBSET Fine
  /\ webhook \in [Webhook -> Batch]

\* While the state is COMPLETED, every unpaid charge of the last answer is
\* listed, and whatever else is listed has been notified by Kazna: notifications
\* that race with searches neither hide a charge nor revive a bill.
CompletedBillsAreKnown ==
  Completed =>
    /\ answered.charges \ Paid \subseteq Unpaid
    /\ Unpaid \subseteq answered.charges \cup sent

\* A batch holds no row of a bill that exists: its commit overwrites no bill
\* that a search or another batch has stored.
NothingOverwritten ==
  \A w \in Webhook, f \in Fine : webhook[w].rows[f] # NoDoc =>
    /\ bills[f].status = "none"
    /\ webhook[w].rows[f] \in Live(docs)
    /\ \A v \in Webhook \ {w} : webhook[v].rows[f] = NoDoc

\* A batch handles and has inserted only fines that Kazna has notified about.
BatchesAreSent ==
  \A w \in Webhook :
    /\ webhook[w].todo \subseteq sent
    /\ webhook[w].fine \in sent \cup {NoFine}
    /\ \A f \in Fine : webhook[w].rows[f] # NoDoc => f \in sent

\* Search and webhook together implement NotifiedBook: whatever their order, a
\* batch only adds bills the book did not hold, and everything else the user sees
\* is what the search alone would show.
ImplementsNotifiedBook == NoticedBook!NotifiedSpec

\* The inductive invariant of search and webhook together.
NotificationInv ==
  /\ NotificationTypeOK
  /\ TasksInv
  /\ CompletedBillsAreKnown
  /\ NothingOverwritten
  /\ BatchesAreSent
=============================================================================
