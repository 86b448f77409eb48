---------------------- MODULE BillNotifications_proofs ----------------------
(***************************************************************************)
(* Theorems about BillNotifications, for every set of tasks, webhook       *)
(* workers, documents and fines and every value of the limits.             *)
(***************************************************************************)
EXTENDS BillNotifications, BillSync_proofs

-----------------------------------------------------------------------------
(* Steps of the search and the API beside open batches.                    *)

\* No step turns a document that is stored into one that was never created: it
\* keeps a value or is deleted.
LEMMA LiveOrDeleted ==
  ASSUME TypeOK, [Next]_vars, NEW d \in Live(docs)
  PROVE  docs'[d] \in Value \cup {Deleted}
  <1>1. d \in DocId /\ docs[d] \in Value /\ docs \in DocTable
    BY DEF Live, TypeOK
  <1>2. CASE \E t \in Task, e \in DocId, v \in Value : CreateDocument(e, v, t)
    BY <1>1, <1>2 DEF CreateDocument, DocTable
  <1>3. CASE \E t \in Task, e \in DocId, v \in Value : UpdateDocument(e, v, t)
    BY <1>1, <1>3 DEF UpdateDocument, DocTable
  <1>4. CASE \E t \in Task, e \in DocId : DeleteDocument(e, t)
    BY <1>1, <1>4 DEF DeleteDocument, DocTable
  <1>5. CASE UNCHANGED docs
    BY <1>1, <1>5
  <1>6. CASE Api
    BY <1>2, <1>3, <1>4, <1>5, <1>6
       DEF Api, CheckDocumentsLimit, CheckSynced, ForceSearch, PayBill
  <1>7. CASE \E t \in Task : Process(t)
    BY <1>5, <1>7 DEF Process, DropObsolete, WaitForPrevious, AcquireUser, ReadDocuments,
                      GetSubscription, Unsubscribe, Complete, CompleteRaises, Finish
  <1>8. CASE \E t \in Task : Search(t) \/ Fault(t)
    BY <1>5, <1>8 DEF Search, Fault, SearchComplete, SearchPart, Raise, Die
  <1> QED BY <1>5, <1>6, <1>7, <1>8 DEF Next, vars

\* A step of the search or the API lists as complete only what its answer
\* charges or what was listed before.
LEMMA KnownInv ==
  ASSUME TasksInv, CompletedBillsAreKnown, [Next]_vars, sent' = sent
  PROVE  CompletedBillsAreKnown'
  <1>1. CASE \E t \in Task, s \in BOOLEAN : schedule(t, s)
    <2> PICK t \in Task, s \in BOOLEAN : schedule(t, s) BY <1>1
    <2>1. revision' = NextRevision /\ revision < NextRevision /\ synced' = synced
      BY DEF schedule, NextRevision, TypeOK, TasksInv
    <2>2. ~Completed'
      BY <2>1 DEF Completed, UserState, RevisionsOrdered, TypeOK, TasksInv
    <2> QED BY <2>2 DEF CompletedBillsAreKnown
  <1>2. CASE \E f \in Fine : PayBill(f)
    <2> PICK f \in Fine : PayBill(f) BY <1>2
    <2>1. Unpaid' = Unpaid \ {f} /\ Paid' = Paid \cup {f}
      BY DEF PayBill, Unpaid, Paid, TypeOK, Bill, TasksInv
    <2>2. UNCHANGED <<revision, synced, answered>>
      BY DEF PayBill, userVars
    <2> QED BY <2>1, <2>2 DEF CompletedBillsAreKnown, Completed, UserState
  <1>3. CASE \E t \in Task : Complete(t)
    <2> PICK t \in Task : Complete(t) BY <1>3
    <2>1. answered'.charges = task[t].charges
      BY DEF Complete
    <2> PICK docOf \in [Fine -> DocId \cup {NoDoc}] :
           /\ \A f \in task[t].charges : docOf[f] \in DocsOf(t, f)
           /\ SaveCharges(t, docOf)
      BY DEF Complete
    <2>2. Paid' = Paid /\ Unpaid' = task[t].charges \ Paid
      BY SavedCharges
    <2> QED BY <2>1, <2>2 DEF CompletedBillsAreKnown
  <1>4. CASE UNCHANGED <<revision, synced, bills, answered>>
    BY <1>4 DEF CompletedBillsAreKnown, Completed, UserState, Unpaid, Paid
  <1>5. CASE Api
    BY <1>1, <1>2, <1>4, <1>5
       DEF Api, CheckDocumentsLimit, CheckSynced, CreateDocument, UpdateDocument,
           DeleteDocument, ForceSearch, userVars
  <1>6. CASE \E t \in Task : Process(t)
    BY <1>3, <1>4, <1>6
       DEF Process, DropObsolete, WaitForPrevious, AcquireUser, ReadDocuments,
           GetSubscription, Unsubscribe, CompleteRaises, Finish, userVars
  <1>7. CASE \E t \in Task : Search(t) \/ Fault(t)
    BY <1>4, <1>7 DEF Search, Fault, SearchComplete, SearchPart, Raise, Die, userVars
  <1> QED BY <1>4, <1>5, <1>6, <1>7 DEF Next, vars, userVars

\* Whatever the search and the API do, what open batches hold stays theirs.
LEMMA NextInv ==
  ASSUME NotificationInv, [Next]_vars, RowsAreLocked, UNCHANGED notificationVars
  PROVE  NotificationInv'
  <1> USE DEF NotificationInv, NotificationTypeOK, notificationVars
  <1>1. TypeOK'
    <2>1. CASE UNCHANGED vars BY <2>1 DEF vars, TypeOK
    <2> QED BY <2>1, ApiType, TaskType DEF Next
  <1>2. TasksInv'
    <2>1. CASE Api BY <1>1, <2>1, ApiInv
    <2>2. CASE \E t \in Task : Process(t) \/ Search(t) \/ Fault(t)
      BY <1>1, <2>2, TaskInv
    <2>3. CASE UNCHANGED vars
      <3>1. \A t \in Task : RowInv(task'[t])
        BY <2>3 DEF vars, TasksInv
      <3> QED BY <1>1, <2>3, <3>1, RowsOnly DEF vars
    <2> QED BY <2>1, <2>2, <2>3 DEF Next
  <1>3. CompletedBillsAreKnown'
    BY KnownInv
  <1>4. NothingOverwritten'
    <2> SUFFICES ASSUME NEW w \in Webhook, NEW f \in Fine, webhook[w].rows[f] # NoDoc
                 PROVE  bills'[f].status = "none" /\ webhook[w].rows[f] \in Live(docs')
      BY DEF NothingOverwritten, Live
    <2>1. bills[f].status = "none" /\ webhook[w].rows[f] \in Live(docs)
      BY DEF NothingOverwritten
    <2>2. bills'[f] = bills[f] /\ docs'[webhook[w].rows[f]] # Deleted
      BY DEF RowsAreLocked
    <2>3. docs'[webhook[w].rows[f]] \in Value \cup {Deleted}
      BY <2>1, LiveOrDeleted
    <2> QED BY <2>1, <2>2, <2>3 DEF Live
  <1>5. BatchesAreSent'
    BY DEF BatchesAreSent
  <1> QED BY <1>1, <1>2, <1>3, <1>4, <1>5

\* A search that fails on the key of a batch changes its own row alone.
LEMMA ConflictInv ==
  ASSUME NotificationInv, NEW t \in Task, CompleteConflicts(t)
  PROVE  NotificationInv'
  <1> USE DEF NotificationInv, NotificationTypeOK, notificationVars, CompleteConflicts, userVars, apiVars
  <1>1. TypeOK'
    BY FailType DEF TypeOK
  <1>2. TasksInv'
    <2>1. \A u \in Task : RowInv(task'[u])
      BY FailInv DEF TasksInv
    <2> QED BY <1>1, <2>1, RowsOnly
  <1>3. CompletedBillsAreKnown' /\ NothingOverwritten' /\ BatchesAreSent'
    BY DEF CompletedBillsAreKnown, Completed, UserState, Unpaid, Paid, NothingOverwritten,
           BatchesAreSent, Live
  <1> QED BY <1>1, <1>2, <1>3

-----------------------------------------------------------------------------
(* Steps of Kazna and of the webhook.                                      *)

\* What depends on the tables alone is kept when only a batch changes.
LEMMA BatchOnly ==
  ASSUME NotificationInv, UNCHANGED vars, NotificationTypeOK', sent \subseteq sent',
         NothingOverwritten', BatchesAreSent'
  PROVE  NotificationInv'
  <1> USE DEF NotificationInv, vars
  <1>1. TypeOK' BY DEF NotificationTypeOK
  <1>2. TasksInv'
    <2>1. \A t \in Task : RowInv(task'[t])
      BY DEF TasksInv
    <2> QED BY <1>1, <2>1, RowsOnly
  <1>3. CompletedBillsAreKnown'
    BY DEF CompletedBillsAreKnown, Completed, UserState, Unpaid, Paid
  <1> QED BY <1>2, <1>3

\* A batch that is over holds nothing.
LEMMA ClosedBatch ==
  ASSUME NotificationInv, UNCHANGED <<vars, sent>>, NEW w \in Webhook,
         webhook' = [webhook EXCEPT ![w] = NoBatch]
  PROVE  NotificationInv'
  <1> USE DEF NotificationInv, vars
  <1>1. NoBatch \in Batch /\ \A f \in Fine : NoBatch.rows[f] = NoDoc
    BY DEF NoBatch, NoRows, Batch
  <1>2. NotificationTypeOK'
    BY <1>1 DEF NotificationTypeOK, TypeOK
  <1>3. \A v \in Webhook : webhook'[v] = IF v = w THEN NoBatch ELSE webhook[v]
    BY DEF NotificationTypeOK
  <1>4. NothingOverwritten'
    BY <1>1, <1>3 DEF NothingOverwritten, Live
  <1>5. BatchesAreSent'
    BY <1>3 DEF BatchesAreSent, NoBatch, NoRows
  <1> QED BY <1>2, <1>4, <1>5, BatchOnly

\* The steps that read: Kazna's notice, the start of a batch, a bill ignored and
\* a document found.
LEMMA ReadInv ==
  ASSUME NotificationInv,
         \/ \E f \in Fine : Notice(f)
         \/ \E w \in Webhook, fines \in SUBSET Fine : Receive(w, fines)
         \/ \E w \in Webhook, f \in Fine : Ignore(w, f)
         \/ \E w \in Webhook, f \in Fine, d \in DocId : MatchDocument(w, f, d)
  PROVE  NotificationInv'
  <1> USE DEF NotificationInv, vars
  <1>1. CASE \E f \in Fine : Notice(f)
    <2> PICK f \in Fine : Notice(f) BY <1>1
    <2>1. NotificationTypeOK'
      BY DEF Notice, NotificationTypeOK, TypeOK
    <2>2. NothingOverwritten' /\ BatchesAreSent'
      BY DEF Notice, NothingOverwritten, BatchesAreSent, Live
    <2> QED BY <2>1, <2>2, BatchOnly DEF Notice
  <1>2. CASE \E w \in Webhook, fines \in SUBSET Fine : Receive(w, fines)
    <2> PICK w \in Webhook, fines \in SUBSET Fine : Receive(w, fines) BY <1>2
    <2> DEFINE b == [NoBatch EXCEPT !.open = TRUE, !.todo = fines]
    <2>1. b \in Batch /\ b.rows = NoRows /\ b.fine = NoFine /\ b.todo \subseteq sent
      BY DEF Receive, NoBatch, NoRows, Batch
    <2>2. NotificationTypeOK'
      BY <2>1 DEF Receive, NotificationTypeOK, TypeOK
    <2>3. \A v \in Webhook : webhook'[v] = IF v = w THEN b ELSE webhook[v]
      BY DEF Receive, NotificationTypeOK
    <2>4. UNCHANGED <<vars, sent>>
      BY DEF Receive
    <2> HIDE DEF b
    <2>5. NothingOverwritten' /\ BatchesAreSent'
      BY <2>1, <2>3, <2>4 DEF NothingOverwritten, BatchesAreSent, Live, NoRows
    <2> QED BY <2>2, <2>4, <2>5, BatchOnly
  <1>3. CASE \E w \in Webhook, f \in Fine : Ignore(w, f)
    <2> PICK w \in Webhook, f \in Fine : Ignore(w, f) BY <1>3
    <2>1. webhook[w] \in Batch BY DEF NotificationTypeOK
    <2>2. NotificationTypeOK'
      BY <2>1 DEF Ignore, NotificationTypeOK, TypeOK, Batch
    <2>3. \A v \in Webhook : /\ webhook'[v].rows = webhook[v].rows
                             /\ webhook'[v].fine = webhook[v].fine
                             /\ webhook'[v].todo \subseteq webhook[v].todo
      BY <2>1 DEF Ignore, NotificationTypeOK, Batch
    <2>4. UNCHANGED <<vars, sent>>
      BY DEF Ignore
    <2>5. NothingOverwritten' /\ BatchesAreSent'
      BY <2>3, <2>4 DEF NothingOverwritten, BatchesAreSent, Live
    <2> QED BY <2>2, <2>4, <2>5, BatchOnly
  <1>4. CASE \E w \in Webhook, f \in Fine, d \in DocId : MatchDocument(w, f, d)
    <2> PICK w \in Webhook, f \in Fine, d \in DocId : MatchDocument(w, f, d) BY <1>4
    <2>1. webhook[w] \in Batch /\ f \in sent
      BY DEF NotificationTypeOK, MatchDocument, BatchesAreSent
    <2>2. NotificationTypeOK'
      <3>1. d \in DocId /\ f \in Fine
        OBVIOUS
      <3>2. [webhook[w] EXCEPT !.fine = f, !.doc = d, !.todo = @ \ {f}] \in Batch
        BY <2>1, <3>1 DEF Batch
      <3>3. webhook' \in [Webhook -> Batch]
        BY <3>2 DEF MatchDocument, NotificationTypeOK
      <3>4. UNCHANGED <<vars, sent>>
        BY DEF MatchDocument
      <3> QED BY <3>3, <3>4 DEF NotificationTypeOK, TypeOK, vars, userVars, apiVars
    <2>3. \A v \in Webhook : /\ webhook'[v].rows = webhook[v].rows
                             /\ webhook'[v].fine \in {webhook[v].fine, f}
                             /\ webhook'[v].todo \subseteq webhook[v].todo
      BY <2>1 DEF MatchDocument, NotificationTypeOK, Batch
    <2>4. UNCHANGED <<vars, sent>>
      BY DEF MatchDocument
    <2>5. NothingOverwritten' /\ BatchesAreSent'
      BY <2>1, <2>3, <2>4 DEF NothingOverwritten, BatchesAreSent, Live
    <2> QED BY <2>2, <2>4, <2>5, BatchOnly
  <1> QED BY <1>1, <1>2, <1>3, <1>4

\* A row that is inserted has a key nobody else has written and a document that
\* is stored.
LEMMA InsertInv ==
  ASSUME NotificationInv, NEW w \in Webhook, InsertBill(w)
  PROVE  NotificationInv'
  <1> USE DEF NotificationInv, vars
  <1> DEFINE b == webhook[w]
             c == [b EXCEPT !.rows[b.fine] = b.doc, !.fine = NoFine, !.doc = NoDoc]
  <1>1. /\ b \in Batch /\ b.fine \in Fine \cap sent /\ b.todo \subseteq sent
        /\ b.rows \in [Fine -> DocId \cup {NoDoc}]
    BY DEF NotificationTypeOK, Batch, InsertBill, BatchesAreSent
  <1>2. /\ bills[b.fine].status = "none" /\ b.doc \in Live(docs)
        /\ \A v \in Webhook \ {w} : webhook[v].rows[b.fine] = NoDoc
    BY DEF InsertBill, IsRefused, KeyIsTaken
  <1>3. /\ c \in Batch /\ c.fine = NoFine /\ c.todo \subseteq sent
        /\ \A f \in Fine : c.rows[f] = IF f = b.fine THEN b.doc ELSE b.rows[f]
    BY <1>1, <1>2 DEF Batch, Live
  <1>4. UNCHANGED <<vars, sent>> /\ webhook' = [webhook EXCEPT ![w] = c]
    BY DEF InsertBill
  <1> HIDE DEF c
  <1>5. NotificationTypeOK'
    BY <1>3, <1>4 DEF NotificationTypeOK, TypeOK
  <1>6. \A v \in Webhook : webhook'[v] = IF v = w THEN c ELSE webhook[v]
    BY <1>4 DEF NotificationTypeOK
  <1>7. NothingOverwritten'
    <2> SUFFICES ASSUME NEW v \in Webhook, NEW f \in Fine, webhook'[v].rows[f] # NoDoc
                 PROVE  /\ bills[f].status = "none"
                        /\ webhook'[v].rows[f] \in Live(docs)
                        /\ \A u \in Webhook \ {v} : webhook'[u].rows[f] = NoDoc
      BY <1>4 DEF NothingOverwritten, Live
    <2>1. CASE f = b.fine
      BY <1>2, <1>3, <1>6, <2>1
    <2>2. CASE f # b.fine
      <3>1. \A u \in Webhook : webhook'[u].rows[f] = webhook[u].rows[f]
        BY <1>3, <1>6, <2>2
      <3> QED BY <3>1 DEF NothingOverwritten
    <2> QED BY <2>1, <2>2
  <1>8. BatchesAreSent'
    BY <1>1, <1>3, <1>4, <1>6 DEF BatchesAreSent
  <1> QED BY <1>4, <1>5, <1>7, <1>8, BatchOnly

\* The commit of a batch adds bills that Kazna has notified about and that
\* nobody has stored.
LEMMA CommitInv ==
  ASSUME NotificationInv, NEW w \in Webhook, CommitBatch(w)
  PROVE  NotificationInv'
  <1> USE DEF NotificationInv
  <1> DEFINE rows == webhook[w].rows
  <1>1. /\ rows \in [Fine -> DocId \cup {NoDoc}] /\ bills \in [Fine -> Bill]
        /\ \A f \in Fine : bills'[f] = IF rows[f] = NoDoc THEN bills[f]
                                       ELSE [status |-> "new", doc |-> rows[f]]
    BY DEF NotificationTypeOK, Batch, CommitBatch, Stored, TypeOK
  <1>2. \A f \in Fine : rows[f] # NoDoc =>
          bills[f].status = "none" /\ rows[f] \in Live(docs) /\ f \in sent
    BY DEF NothingOverwritten, BatchesAreSent
  <1>s. \A f \in Fine :
          /\ rows[f] = NoDoc => bills'[f] = bills[f]
          /\ rows[f] # NoDoc => bills'[f].status = "new" /\ bills'[f].doc = rows[f]
    <2> SUFFICES ASSUME NEW f \in Fine
                 PROVE  /\ rows[f] = NoDoc => bills'[f] = bills[f]
                        /\ rows[f] # NoDoc => bills'[f].status = "new" /\ bills'[f].doc = rows[f]
      OBVIOUS
    <2>1. CASE rows[f] = NoDoc
      BY <1>1, <2>1
    <2>2. CASE rows[f] # NoDoc
      <3>1. bills'[f] = [status |-> "new", doc |-> rows[f]]
        BY <1>1, <2>2
      <3> QED BY <2>2, <3>1
    <2> QED BY <2>1, <2>2
  <1>3. /\ UNCHANGED <<revision, synced, syncing, docs, task, subscribed, creating,
                       forcing, answered, faults, sent>>
        /\ webhook' = [webhook EXCEPT ![w] = NoBatch]
    BY DEF CommitBatch, userVars, apiVars
  <1>4. NoBatch \in Batch /\ \A f \in Fine : NoBatch.rows[f] = NoDoc
    BY DEF NoBatch, NoRows, Batch
  <1>5. \A v \in Webhook : webhook'[v] = IF v = w THEN NoBatch ELSE webhook[v]
    BY <1>3 DEF NotificationTypeOK
  <1>6. NotificationTypeOK'
    <2>1. bills' \in [Fine -> Bill]
      BY <1>1 DEF CommitBatch, Stored, Bill
    <2> QED BY <1>3, <1>4, <2>1 DEF NotificationTypeOK, TypeOK
  <1>7. TasksInv'
    <2>1. BillsHaveDocuments'
      BY <1>s, <1>2, <1>3 DEF TasksInv, BillsHaveDocuments, Live
    <2>2. RevisionsOrdered' /\ CompletedIsCurrent' /\ \A t \in Task : RowInv(task[t])'
      BY <1>3 DEF TasksInv, RevisionsOrdered, CompletedIsCurrent, Completed, UserState, RowInv
    <2>3. TypeOK' BY <1>6 DEF NotificationTypeOK
    <2> QED BY <2>1, <2>2, <2>3 DEF TasksInv
  <1>8. CompletedBillsAreKnown'
    <2>1. Paid' = Paid /\ Unpaid' = Unpaid \cup {f \in Fine : rows[f] # NoDoc}
      BY <1>s, <1>2 DEF Paid, Unpaid
    <2> QED BY <1>2, <1>3, <2>1 DEF CompletedBillsAreKnown, Completed, UserState
  <1>9. NothingOverwritten'
    <2> SUFFICES ASSUME NEW v \in Webhook, NEW f \in Fine, webhook'[v].rows[f] # NoDoc
                 PROVE  /\ bills'[f].status = "none"
                        /\ webhook'[v].rows[f] \in Live(docs)
                        /\ \A u \in Webhook \ {v} : webhook'[u].rows[f] = NoDoc
      BY <1>3 DEF NothingOverwritten, Live
    <2>1. v # w /\ webhook[v].rows[f] # NoDoc
      BY <1>4, <1>5
    <2>2. /\ bills[f].status = "none" /\ webhook[v].rows[f] \in Live(docs)
          /\ \A u \in Webhook \ {v} : webhook[u].rows[f] = NoDoc
      BY <2>1 DEF NothingOverwritten
    <2> QED BY <1>1, <1>4, <1>5, <2>1, <2>2
  <1>10. BatchesAreSent'
    BY <1>3, <1>5 DEF BatchesAreSent, NoBatch, NoRows
  <1> QED BY <1>6, <1>7, <1>8, <1>9, <1>10

-----------------------------------------------------------------------------
(* Theorems.                                                               *)

\* NotificationInv is an invariant of search and webhook together, with any
\* number of batches open beside any number of tasks.
THEOREM NotificationInvariant == NotificationSpec => []NotificationInv
  <1>1. NotificationInit => NotificationInv
    <2> SUFFICES ASSUME NotificationInit PROVE NotificationInv OBVIOUS
    <2>1. TypeOK
      BY FreeRow, ConstantsAssumption
         DEF NotificationInit, Init, TypeOK, NoDocs, DocTable, NoBill, Bill, None
    <2>2. RevisionsOrdered /\ \A t \in Task : RowInv(task[t])
      BY <2>1, FreeInv DEF NotificationInit, Init, RevisionsOrdered, None, TypeOK
    <2>3. BillsHaveDocuments /\ ~Completed
      BY DEF NotificationInit, Init, BillsHaveDocuments, NoBill, Completed, UserState
    <2>4. NoBatch \in Batch
      BY DEF NoBatch, NoRows, Batch
    <2>5. NothingOverwritten /\ BatchesAreSent
      BY DEF NotificationInit, NothingOverwritten, BatchesAreSent, NoBatch, NoRows
    <2> QED BY <2>1, <2>2, <2>3, <2>4, <2>5
            DEF NotificationInit, NotificationInv, NotificationTypeOK, TasksInv,
                CompletedIsCurrent, CompletedBillsAreKnown
  <1>2. NotificationInv /\ [NotificationNext]_allVars => NotificationInv'
    <2> SUFFICES ASSUME NotificationInv, [NotificationNext]_allVars PROVE NotificationInv'
      OBVIOUS
    <2>1. CASE Next /\ RowsAreLocked /\ UNCHANGED notificationVars
      BY <2>1, NextInv
    <2>2. CASE \E t \in Task : CompleteConflicts(t)
      BY <2>2, ConflictInv
    <2>3. CASE \E f \in Fine : Notice(f)
      BY <2>3, ReadInv
    <2>4. CASE \E w \in Webhook, fines \in SUBSET Fine : Receive(w, fines)
      BY <2>4, ReadInv
    <2>5. CASE \E w \in Webhook : HandleBatch(w)
      <3>1. CASE \E w \in Webhook, f \in Fine : Ignore(w, f) \/ \E d \in DocId : MatchDocument(w, f, d)
        BY <3>1, ReadInv
      <3>2. CASE \E w \in Webhook : InsertBill(w)
        BY <3>2, InsertInv
      <3>3. CASE \E w \in Webhook : RollBack(w)
        BY <3>3, ClosedBatch DEF RollBack
      <3>4. CASE \E w \in Webhook : CommitBatch(w)
        BY <3>4, CommitInv
      <3> QED BY <2>5, <3>1, <3>2, <3>3, <3>4 DEF HandleBatch
    <2>6. CASE \E w \in Webhook : WebhookRaises(w)
      BY <2>6, ClosedBatch DEF WebhookRaises
    <2>7. CASE UNCHANGED allVars
      <3>1. UNCHANGED vars /\ sent' = sent /\ webhook' = webhook
        BY <2>7 DEF allVars, notificationVars
      <3>2. NotificationTypeOK' /\ NothingOverwritten' /\ BatchesAreSent'
        BY <3>1 DEF NotificationInv, NotificationTypeOK, TypeOK, NothingOverwritten,
                    BatchesAreSent, Live, vars
      <3> QED BY <3>1, <3>2, BatchOnly
    <2> QED BY <2>1, <2>2, <2>3, <2>4, <2>5, <2>6, <2>7 DEF NotificationNext
  <1> QED BY <1>1, <1>2, PTL DEF NotificationSpec

\* Every state of search and webhook is well typed.
THEOREM NotificationTypeCorrect == NotificationSpec => []NotificationTypeOK
  <1>1. NotificationInv => NotificationTypeOK
    BY DEF NotificationInv
  <1> QED BY <1>1, NotificationInvariant, PTL

\* A notification that races with searches neither hides a charge of the last
\* answer nor lists what Kazna has never notified about.
THEOREM CompletedBillsAreKnownCorrect == NotificationSpec => []CompletedBillsAreKnown
  <1>1. NotificationInv => CompletedBillsAreKnown
    BY DEF NotificationInv
  <1> QED BY <1>1, NotificationInvariant, PTL

\* The commit of a batch overwrites no bill that a search or another batch has
\* stored.
THEOREM NothingOverwrittenCorrect == NotificationSpec => []NothingOverwritten
  <1>1. NotificationInv => NothingOverwritten
    BY DEF NotificationInv
  <1> QED BY <1>1, NotificationInvariant, PTL

-----------------------------------------------------------------------------
(* What the search guarantees by itself and keeps beside the webhook.      *)

\* A step of search and webhook is one of the search, a search that fails on a
\* key, a notice, the commit of a batch, or changes batches alone.
LEMMA NoticeCases ==
  ASSUME [NotificationNext]_allVars
  PROVE  \/ [Next]_vars /\ UNCHANGED sent
         \/ \E t \in Task : CompleteConflicts(t)
         \/ \E f \in Fine : Notice(f)
         \/ \E w \in Webhook : CommitBatch(w)
  <1>1. CASE Next /\ RowsAreLocked /\ UNCHANGED notificationVars
    BY <1>1 DEF notificationVars
  <1>2. ASSUME NEW w \in Webhook,
               (\E fines \in SUBSET Fine : Receive(w, fines)) \/ WebhookRaises(w)
        PROVE  UNCHANGED <<vars, sent>>
    BY <1>2 DEF Receive, WebhookRaises
  <1>3. ASSUME NEW w \in Webhook, HandleBatch(w)
        PROVE  CommitBatch(w) \/ UNCHANGED <<vars, sent>>
    <2>1. CASE \E f \in Fine : Ignore(w, f) \/ \E d \in DocId : MatchDocument(w, f, d)
      BY <2>1 DEF Ignore, MatchDocument
    <2>2. CASE InsertBill(w) \/ RollBack(w)
      BY <2>2 DEF InsertBill, RollBack
    <2> QED BY <1>3, <2>1, <2>2 DEF HandleBatch
  <1>4. CASE UNCHANGED allVars
    BY <1>4 DEF allVars, notificationVars
  <1>5. CASE \/ \E t \in Task : CompleteConflicts(t)
             \/ \E f \in Fine : Notice(f)
    BY <1>5
  <1>6. CASE \E w \in Webhook : \/ \E fines \in SUBSET Fine : Receive(w, fines)
                               \/ HandleBatch(w) \/ WebhookRaises(w)
    BY <1>2, <1>3, <1>6
  <1> QED BY <1>1, <1>4, <1>5, <1>6 DEF NotificationNext

LEMMA StepCases ==
  ASSUME [NotificationNext]_allVars
  PROVE  \/ [Next]_vars
         \/ \E t \in Task : CompleteConflicts(t)
         \/ \E w \in Webhook : CommitBatch(w)
  BY NoticeCases DEF Notice

LEMMA ConflictRow ==
  ASSUME TypeOK, NEW t \in Task, CompleteConflicts(t)
  PROVE  /\ Active(task[t])
         /\ UNCHANGED <<revision, synced, syncing, docs, bills, subscribed>>
         /\ \A u \in Task : \/ task'[u] = task[u]
                            \/ task'[u].pc # "saving" /\ task'[u].stale = {}
  <1> DEFINE row == IF task[t].retries < MaxRetries
                    THEN Queued(task[t].rev, task[t].sync, task[t].retries + 1) ELSE Free
  <1>1. task \in [Task -> TaskRow] /\ task' = [task EXCEPT ![t] = row]
    BY DEF CompleteConflicts, fail, TypeOK
  <1>2. row.pc # "saving" /\ row.stale = {}
    BY FreshRow
  <1> HIDE DEF row
  <1>3. \A u \in Task : task'[u] = IF u = t THEN row ELSE task[u]
    BY <1>1
  <1>4. Active(task[t])
    BY DEF CompleteConflicts, Active
  <1>5. UNCHANGED <<revision, synced, syncing, docs, bills, subscribed>>
    BY DEF CompleteConflicts, userVars
  <1> QED BY <1>2, <1>3, <1>4, <1>5

\* synced_revision only grows, whatever the webhook stores meanwhile.
THEOREM SyncedMonotonicBeside == NotificationSpec => SyncedMonotonic
  <1>1. NotificationInv /\ NotificationInv' /\ [NotificationNext]_allVars
          => [synced <= synced' /\ synced' <= revision']_vars
    <2> SUFFICES ASSUME NotificationInv, NotificationInv', [NotificationNext]_allVars
                 PROVE  [synced <= synced' /\ synced' <= revision']_vars
      OBVIOUS
    <2>1. synced \in Nat /\ synced <= revision
      BY DEF NotificationInv, TasksInv, TypeOK, RevisionsOrdered
    <2>2. CASE UNCHANGED <<revision, synced>>
      BY <2>1, <2>2
    <2> QED BY <2>2, StepCases, SyncedStep
            DEF NotificationInv, CompleteConflicts, CommitBatch, userVars
  <1> QED BY <1>1, NotificationInvariant, PTL DEF NotificationSpec, SyncedMonotonic

\* Neither a search nor the commit of a batch touches a paid bill: what a batch
\* commits did not exist.
THEOREM PaidStaysPaidBeside == NotificationSpec => PaidStaysPaid
  <1>1. NotificationInv /\ [NotificationNext]_allVars =>
          [\A f \in Fine : bills[f].status = "paid" =>
             \/ bills'[f] = bills[f]
             \/ docs'[bills[f].doc] = Deleted]_vars
    <2> SUFFICES ASSUME NotificationInv, [NotificationNext]_allVars, vars' # vars,
                        NEW f \in Fine, bills[f].status = "paid"
                 PROVE  bills'[f] = bills[f] \/ docs'[bills[f].doc] = Deleted
      OBVIOUS
    <2>1. CASE Next
      BY <2>1, PaidStep DEF NotificationInv, NotificationTypeOK
    <2>2. CASE \E t \in Task : CompleteConflicts(t)
      BY <2>2 DEF CompleteConflicts
    <2>3. CASE \E w \in Webhook : CommitBatch(w)
      <3> PICK w \in Webhook : CommitBatch(w) BY <2>3
      <3>1. webhook[w].rows[f] = NoDoc
        BY DEF NotificationInv, NothingOverwritten
      <3> QED BY <3>1 DEF CommitBatch, Stored
    <2> QED BY <2>1, <2>2, <2>3, StepCases
  <1> QED BY <1>1, NotificationInvariant, PTL DEF NotificationSpec, PaidStaysPaid

\* A search that fails on the key of a batch gives the user up to nobody else.
LEMMA HolderBeside ==
  ASSUME ~FinishMayFail, NotificationInv, HolderInv, [NotificationNext]_allVars
  PROVE  HolderInv'
  <1>1. CASE [Next]_vars
    BY <1>1, HolderNext DEF NotificationInv
  <1>2. CASE \E t \in Task : CompleteConflicts(t)
    <2> PICK t \in Task : CompleteConflicts(t) BY <1>2
    <2>1. Active(task[t]) /\ fail(t) /\ UNCHANGED syncing
      BY ConflictRow DEF CompleteConflicts, NotificationInv, NotificationTypeOK
    <2> QED BY <2>1, HolderFail DEF NotificationInv
  <1>3. CASE \E w \in Webhook : CommitBatch(w)
    BY <1>3 DEF CommitBatch, userVars, HolderInv
  <1> QED BY <1>1, <1>2, <1>3, StepCases

\* One task at most asks Kazna for the user, also while batches make searches
\* fail and come back.
THEOREM OneKaznaCallBeside ==
  ASSUME ~FinishMayFail
  PROVE  NotificationSpec => []OneKaznaCall
  <1>1. NotificationInit => HolderInv
    BY HolderInit DEF NotificationInit
  <1>2. NotificationInv /\ HolderInv /\ [NotificationNext]_allVars => HolderInv'
    BY HolderBeside
  <1>3. HolderInv => OneKaznaCall
    BY DEF HolderInv, OneKaznaCall, Calling, InHandle, Active
  <1> QED BY <1>1, <1>2, <1>3, NotificationInvariant, PTL DEF NotificationSpec

\* A search that fails on the key of a batch has subscribed and removes nothing.
LEMMA SubscriptionBeside ==
  ASSUME NotificationInv, HolderInv, SubscriptionInv, [NotificationNext]_allVars
  PROVE  SubscriptionInv'
  <1>1. CASE [Next]_vars
    BY <1>1, SubscriptionNext DEF NotificationInv
  <1>2. CASE \E t \in Task : CompleteConflicts(t)
    BY <1>2, ConflictRow, SubscriptionRows
       DEF NotificationInv, NotificationTypeOK, Completed, UserState
  <1>3. CASE \E w \in Webhook : CommitBatch(w)
    BY <1>3 DEF CommitBatch, userVars, SubscriptionInv, CompletedIsSubscribed, Completed, UserState
  <1> QED BY <1>1, <1>2, <1>3, StepCases

\* Once COMPLETED, Kazna notifies about every present document, also while it is
\* notifying about others.
THEOREM CompletedIsSubscribedBeside ==
  ASSUME ~FinishMayFail
  PROVE  NotificationSpec => []CompletedIsSubscribed
  <1>1. NotificationInit => HolderInv /\ SubscriptionInv
    BY HolderInit, SubscriptionInit DEF NotificationInit
  <1>2. NotificationInv /\ HolderInv /\ [NotificationNext]_allVars => HolderInv'
    BY HolderBeside
  <1>3. NotificationInv /\ HolderInv /\ SubscriptionInv /\ [NotificationNext]_allVars
          => SubscriptionInv'
    BY SubscriptionBeside
  <1>4. SubscriptionInv => CompletedIsSubscribed
    BY DEF SubscriptionInv
  <1> QED BY <1>1, <1>2, <1>3, <1>4, NotificationInvariant, PTL DEF NotificationSpec

-----------------------------------------------------------------------------
(* The refinement.                                                         *)

\* A step of the book of the search is one of the book with notifications.
LEMMA BookIsNoticed ==
  ASSUME Book!Next \/ UNCHANGED Book!bookVars, UNCHANGED sent
  PROVE  [NoticedBook!NotifiedNext]_(NoticedBook!notifiedVars)
  <1>1. CASE Book!Next
    BY <1>1 DEF Book!Next, Book!Change, Book!CatchUp, Book!RefreshAgain, Book!Refresh,
                Book!RefreshStale, Book!Pay, Book!ChargesOf,
                NoticedBook!NotifiedNext, NoticedBook!Next, NoticedBook!Change,
                NoticedBook!CatchUp, NoticedBook!RefreshAgain, NoticedBook!Refresh,
                NoticedBook!RefreshStale, NoticedBook!Pay, NoticedBook!ChargesOf
  <1>2. CASE UNCHANGED Book!bookVars
    BY <1>2 DEF Book!bookVars, NoticedBook!notifiedVars, NoticedBook!bookVars
  <1> QED BY <1>1, <1>2

\* A commit adds the bills of its rows: they did not exist, and Kazna has
\* notified about them.
LEMMA CommitIsAdd ==
  ASSUME NotificationInv, NEW w \in Webhook, CommitBatch(w)
  PROVE  \E fines \in SUBSET Fine : NoticedBook!Add(fines)
  <1> DEFINE rows  == webhook[w].rows
             fines == {f \in Fine : rows[f] # NoDoc}
  <1>1. \A f \in Fine :
          /\ f \notin fines => bills'[f] = bills[f]
          /\ f \in fines => /\ bills[f].status = "none" /\ f \in sent
                           /\ bills'[f].status = "new"
    BY DEF NotificationInv, NothingOverwritten, BatchesAreSent, CommitBatch, Stored
  <1>2. UNCHANGED <<UserState, Values(docs), sent>>
    BY DEF CommitBatch, userVars, UserState, Values, Live
  <1> HIDE DEF rows
  <1>3. /\ Unpaid' = Unpaid \cup fines /\ Paid' = Paid
        /\ fines \cap (Unpaid \cup Paid) = {} /\ fines \subseteq sent
    BY <1>1 DEF Unpaid, Paid
  <1>4. NoticedBook!Add(fines)
    BY <1>2, <1>3 DEF NoticedBook!Add
  <1> QED BY <1>4

\* What the user sees of search and webhook changes as NotifiedBook says, with
\* any number of tasks and batches under way.
THEOREM NotificationsImplementBook == NotificationSpec => ImplementsNotifiedBook
  <1>1. NotificationInit => NoticedBook!NotifiedInit
    BY InitIsBook DEF NotificationInit, Book!Init, NoticedBook!NotifiedInit, NoticedBook!Init
  <1>2. NotificationInv /\ TypeOK' /\ [NotificationNext]_allVars
          => [NoticedBook!NotifiedNext]_(NoticedBook!notifiedVars)
    <2> SUFFICES ASSUME NotificationInv, TypeOK', [NotificationNext]_allVars
                 PROVE  [NoticedBook!NotifiedNext]_(NoticedBook!notifiedVars)
      OBVIOUS
    <2>1. CASE [Next]_vars /\ UNCHANGED sent
      BY <2>1, NextIsBook, BookIsNoticed DEF NotificationInv
    <2>2. CASE \E t \in Task : CompleteConflicts(t)
      <3>1. UNCHANGED <<Book!bookVars, sent>>
        BY <2>2 DEF CompleteConflicts, userVars, notificationVars, Book!bookVars, UserState,
                    Unpaid, Paid
      <3> QED BY <3>1, BookIsNoticed
    <2>3. CASE \E f \in Fine : Notice(f)
      <3>1. \E f \in Fine : NoticedBook!Notify(f)
        BY <2>3 DEF Notice, vars, NoticedBook!Notify, NoticedBook!bookVars, UserState, Unpaid, Paid
      <3> QED BY <3>1 DEF NoticedBook!NotifiedNext
    <2>4. CASE \E w \in Webhook : CommitBatch(w)
      BY <2>4, CommitIsAdd DEF NoticedBook!NotifiedNext
    <2> QED BY <2>1, <2>2, <2>3, <2>4, NoticeCases
  <1>3. NotificationInv => TypeOK
    BY DEF NotificationInv, NotificationTypeOK
  <1> QED BY <1>1, <1>2, <1>3, NotificationInvariant, PTL
          DEF NotificationSpec, ImplementsNotifiedBook, NoticedBook!NotifiedSpec
=============================================================================
