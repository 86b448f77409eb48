--------------------------- MODULE BillSync_proofs ---------------------------
(***************************************************************************)
(* Theorems about BillSync, for every set of tasks, documents and fines    *)
(* and every value of the limits.                                          *)
(***************************************************************************)
EXTENDS BillSync, TLAPS

-----------------------------------------------------------------------------
(* Rows of the task table.                                                 *)

\* A row that is put into the queue is a row of the task table.
LEMMA QueuedRow ==
  ASSUME NEW r \in Nat, NEW s \in BOOLEAN, NEW n \in Nat
  PROVE  /\ Queued(r, s, n) \in TaskRow
         /\ Queued(r, s, n).pc = "pending"
         /\ Queued(r, s, n).rev = r
         /\ Queued(r, s, n).docs = NoDocs
  BY DEF Queued, TaskRow, Pc, NoDocs, DocTable

\* So is a free row, whose revision is None.
LEMMA FreeRow == Free \in TaskRow /\ Free.pc = "free" /\ Free.rev = None
  BY DEF Free, Queued, TaskRow, Pc, NoDocs, DocTable, None

\* So is the row of a task that has returned: it keeps its revision.
LEMMA ReturnedRow ==
  ASSUME NEW row \in TaskRow
  PROVE  Returned(row) \in TaskRow /\ Returned(row).pc = "returned" /\ Returned(row).rev = row.rev
  BY DEF Returned, Queued, TaskRow, Pc, NoDocs, DocTable

-----------------------------------------------------------------------------
(* Types.                                                                  *)

\* Scheduling keeps the types of what it writes.
LEMMA ScheduleType ==
  ASSUME TypeOK, NEW t \in Task, NEW s \in BOOLEAN, schedule(t, s)
  PROVE  revision' \in Nat /\ synced' \in Nat /\ syncing' \in Nat /\ task' \in [Task -> TaskRow]
  BY QueuedRow DEF TypeOK, schedule, NextRevision

\* So does putting a task back into the queue with a new row.
LEMMA RetryType ==
  ASSUME TypeOK, NEW t \in Task, NEW u \in Task, retry(t, u)
  PROVE  task' \in [Task -> TaskRow]
  <1>1. task[t] \in TaskRow /\ task[t].rev \in Nat
    BY DEF TypeOK, TaskRow
  <1>2. Returned(task[t]) \in TaskRow /\ Queued(task[t].rev, FALSE, 0) \in TaskRow
    BY <1>1, QueuedRow, ReturnedRow
  <1> QED BY <1>2 DEF TypeOK, retry

\* So does the failure of a task.
LEMMA FailType ==
  ASSUME TypeOK, NEW t \in Task, fail(t)
  PROVE  task' \in [Task -> TaskRow]
  <1>1. task[t].rev \in Nat /\ task[t].sync \in BOOLEAN /\ task[t].retries + 1 \in Nat
    BY DEF TypeOK, TaskRow
  <1>2. Queued(task[t].rev, task[t].sync, task[t].retries + 1) \in TaskRow
    BY <1>1, QueuedRow
  <1> QED BY <1>2, FreeRow DEF TypeOK, fail

\* The API keeps the types.
LEMMA ApiType == TypeOK /\ Api => TypeOK'
  <1> SUFFICES ASSUME TypeOK, Api PROVE TypeOK' OBVIOUS
  <1>1. CASE CheckDocumentsLimit
    BY <1>1 DEF TypeOK, CheckDocumentsLimit, userVars
  <1>2. CASE CheckSynced
    BY <1>2 DEF TypeOK, CheckSynced, userVars
  <1>3. CASE \E t \in Task, d \in DocId, v \in Value : CreateDocument(d, v, t)
    <2> PICK t \in Task, d \in DocId, v \in Value : CreateDocument(d, v, t) BY <1>3
    <2>1. revision' \in Nat /\ synced' \in Nat /\ syncing' \in Nat /\ task' \in [Task -> TaskRow]
      BY ScheduleType DEF CreateDocument
    <2> QED BY <2>1 DEF TypeOK, CreateDocument, DocTable
  <1>4. CASE \E t \in Task, d \in DocId, v \in Value : UpdateDocument(d, v, t)
    <2> PICK t \in Task, d \in DocId, v \in Value : UpdateDocument(d, v, t) BY <1>4
    <2>1. revision' \in Nat /\ synced' \in Nat /\ syncing' \in Nat /\ task' \in [Task -> TaskRow]
      BY ScheduleType DEF UpdateDocument
    <2> QED BY <2>1 DEF TypeOK, UpdateDocument, DocTable, apiVars
  <1>5. CASE \E t \in Task, d \in DocId : DeleteDocument(d, t)
    <2> PICK t \in Task, d \in DocId : DeleteDocument(d, t) BY <1>5
    <2>1. revision' \in Nat /\ synced' \in Nat /\ syncing' \in Nat /\ task' \in [Task -> TaskRow]
      BY ScheduleType DEF DeleteDocument
    <2>2. bills' \in [Fine -> Bill]
      BY DEF TypeOK, DeleteDocument, NoBill, Bill
    <2> QED BY <2>1, <2>2 DEF TypeOK, DeleteDocument, DocTable, apiVars
  <1>6. CASE \E t \in Task : ForceSearch(t)
    <2> PICK t \in Task : ForceSearch(t) BY <1>6
    <2>1. revision' \in Nat /\ synced' \in Nat /\ syncing' \in Nat /\ task' \in [Task -> TaskRow]
      BY ScheduleType DEF ForceSearch
    <2> QED BY <2>1 DEF TypeOK, ForceSearch
  <1>7. CASE \E f \in Fine : PayBill(f)
    BY <1>7 DEF TypeOK, PayBill, Bill, userVars, apiVars
  <1> QED BY <1>1, <1>2, <1>3, <1>4, <1>5, <1>6, <1>7 DEF Api

\* A step of a worker or of Kazna keeps the types.
LEMMA TaskType ==
  ASSUME TypeOK, NEW t \in Task, Process(t) \/ Search(t) \/ Fault(t)
  PROVE  TypeOK'
  <1> USE DEF TypeOK, userVars, apiVars
  <1>0. task[t] \in TaskRow
    OBVIOUS
  <1>1. CASE DropObsolete(t)
    <2>1. Returned(task[t]) \in TaskRow BY <1>0, ReturnedRow
    <2> QED BY <1>1, <2>1 DEF DropObsolete, Released, None
  <1>2. CASE \E u \in Task : WaitForPrevious(t, u)
    BY <1>2, RetryType DEF WaitForPrevious
  <1>3. CASE AcquireUser(t)
    BY <1>0, <1>3 DEF AcquireUser, TaskRow, Pc
  <1>4. CASE ReadDocuments(t)
    BY <1>0, <1>4 DEF ReadDocuments, TaskRow, Pc, SearchOrSave
  <1>5. CASE GetSubscription(t)
    BY <1>0, <1>5 DEF GetSubscription, TaskRow, Pc, SearchOrSave
  <1>6. CASE Unsubscribe(t)
    BY <1>0, <1>6 DEF Unsubscribe, TaskRow, Pc, SearchOrSave
  <1>7. CASE Complete(t)
    <2>1. Returned(task[t]) \in TaskRow BY <1>0, ReturnedRow
    <2>2. bills' \in [Fine -> Bill]
      BY <1>7 DEF Complete, SaveCharges, Updated, Bill
    <2>3. task[t].docs \in DocTable /\ task[t].charges \in SUBSET Fine /\ task[t].rev \in Nat
      BY <1>0 DEF TaskRow
    <2> QED BY <1>7, <2>1, <2>2, <2>3 DEF Complete, SavedRevision, None
  <1>8. CASE CompleteRaises(t)
    BY <1>8, FailType DEF CompleteRaises
  <1>9. CASE Finish(t)
    BY <1>9, FreeRow DEF Finish
  <1>10. CASE \E charges \in SUBSET Fine : SearchComplete(t, charges)
    <2> PICK charges \in SUBSET Fine : SearchComplete(t, charges) BY <1>10
    <2>1. Values(task[t].docs) \subseteq Value
      BY DEF Values, Live
    <2>2. task' \in [Task -> TaskRow]
      BY <1>0 DEF SearchComplete, TaskRow, Pc
    <2> QED BY <2>1, <2>2 DEF SearchComplete
  <1>11. CASE \E u \in Task : SearchPart(t, u)
    <2> PICK u \in Task : SearchPart(t, u) BY <1>11
    <2>1. Values(task[t].docs) \subseteq Value
      BY DEF Values, Live
    <2> QED BY <2>1, RetryType DEF SearchPart
  <1>12. CASE Raise(t)
    BY <1>12, FailType DEF Raise
  <1>13. CASE Die(t)
    <2>1. task[t].rev \in Nat /\ task[t].sync \in BOOLEAN /\ task[t].retries \in Nat
      BY <1>0 DEF TaskRow
    <2>2. Queued(task[t].rev, task[t].sync, task[t].retries) \in TaskRow
      BY <2>1, QueuedRow
    <2> QED BY <1>13, <2>2 DEF Die
  <1> QED BY <1>1, <1>2, <1>3, <1>4, <1>5, <1>6, <1>7, <1>8, <1>9, <1>10, <1>11, <1>12, <1>13
          DEF Process, Search, Fault

\* Every state of the search is well typed.
THEOREM TypeCorrect == Spec => []TypeOK
  <1>1. Init => TypeOK
    BY FreeRow, ConstantsAssumption
       DEF Init, TypeOK, NoDocs, DocTable, NoBill, Bill, None
  <1>2. TypeOK /\ [Next]_vars => TypeOK'
    <2> SUFFICES ASSUME TypeOK, [Next]_vars PROVE TypeOK' OBVIOUS
    <2>1. CASE Api BY <2>1, ApiType
    <2>2. CASE \E t \in Task : Process(t) \/ Search(t) \/ Fault(t)
      BY <2>2, TaskType
    <2>3. CASE UNCHANGED vars
      BY <2>3 DEF vars, TypeOK
    <2> QED BY <2>1, <2>2, <2>3 DEF Next
  <1> QED BY <1>1, <1>2, PTL DEF Spec

-----------------------------------------------------------------------------
(* The inductive invariant.                                                *)

\* A row just queued with a revision of the user satisfies RowInv.
LEMMA QueuedInv ==
  ASSUME NEW r \in Nat, NEW s \in BOOLEAN, NEW n \in Nat,
         revision \in Nat, 0 < r, r <= revision
  PROVE  RowInv(Queued(r, s, n))
  BY DEF RowInv, Queued, InHandle

\* So does a free row.
LEMMA FreeInv == revision \in Nat => RowInv(Free)
  BY DEF RowInv, Free, Queued, InHandle, None

\* So does a row whose task has returned.
LEMMA ReturnedInv ==
  ASSUME NEW row \in TaskRow, revision \in Nat, RowInv(row), row.pc # "free"
  PROVE  RowInv(Returned(row))
  BY DEF RowInv, Returned, Queued, InHandle, TaskRow

\* A failed task's row satisfies it too, queued again or given up.
LEMMA FailInv ==
  ASSUME TypeOK, \A t \in Task : RowInv(task[t]),
         NEW t \in Task, task[t].pc # "free", fail(t)
  PROVE  \A u \in Task : RowInv(task'[u])
  <1>1. task[t] \in TaskRow /\ RowInv(task[t]) BY DEF TypeOK
  <1>2. task[t].rev \in Nat /\ 0 < task[t].rev /\ task[t].rev <= revision
    BY <1>1 DEF RowInv, TaskRow
  <1>3. task[t].sync \in BOOLEAN /\ task[t].retries + 1 \in Nat
    BY <1>1 DEF TaskRow
  <1>4. RowInv(Queued(task[t].rev, task[t].sync, task[t].retries + 1)) /\ RowInv(Free)
    BY <1>2, <1>3, QueuedInv, FreeInv DEF TypeOK
  <1> QED BY <1>4 DEF fail, TypeOK

\* And so do both rows of a task that is put back into the queue.
LEMMA RetryInv ==
  ASSUME TypeOK, \A t \in Task : RowInv(task[t]),
         NEW t \in Task, NEW u \in Task, task[t].pc # "free", retry(t, u)
  PROVE  \A v \in Task : RowInv(task'[v])
  <1>1. task[t] \in TaskRow /\ RowInv(task[t]) BY DEF TypeOK
  <1>2. task[t].rev \in Nat /\ 0 < task[t].rev /\ task[t].rev <= revision
    BY <1>1 DEF RowInv, TaskRow
  <1>3. RowInv(Queued(task[t].rev, FALSE, 0)) /\ RowInv(Returned(task[t]))
    BY <1>1, <1>2, QueuedInv, ReturnedInv DEF TypeOK
  <1> QED BY <1>3 DEF retry, TypeOK

\* What depends on the tables alone is kept by a step that changes only rows
\* of the task table to rows that satisfy RowInv.
LEMMA RowsOnly ==
  ASSUME TasksInv, TypeOK',
         UNCHANGED <<revision, synced, syncing, docs, bills, answered>>,
         \A t \in Task : RowInv(task'[t])
  PROVE  TasksInv'
  BY DEF TasksInv, RevisionsOrdered, RowInv, BillsHaveDocuments, CompletedIsCurrent,
         Completed, UserState

\* A new revision makes the state SYNCING and every task in work obsolete,
\* whatever has been done to the documents.
LEMMA ScheduleInv ==
  ASSUME TasksInv, TypeOK', NEW t \in Task, NEW s \in BOOLEAN, schedule(t, s), answered' = answered,
         BillsHaveDocuments'
  PROVE  TasksInv' /\ ~Completed'
  <1> USE DEF TasksInv, TypeOK
  <1>1. NextRevision \in Nat /\ revision' = NextRevision /\ revision < NextRevision /\ 0 < NextRevision
    BY DEF schedule, NextRevision
  <1>2. synced' = synced /\ syncing' = syncing
    BY DEF schedule
  <1>3. RevisionsOrdered'
    BY <1>1, <1>2 DEF RevisionsOrdered
  <1>4. \A u \in Task : RowInv(task[u])'
    <2> SUFFICES ASSUME NEW u \in Task PROVE RowInv(task[u])' OBVIOUS
    <2>1. CASE u = t
      <3>1. task'[t] = Queued(NextRevision, s, 0)
        BY DEF schedule
      <3> QED BY <1>1, <2>1, <3>1 DEF RowInv, Queued, InHandle
    <2>2. CASE u # t
      <3>1. task'[u] = task[u] /\ task[u] \in TaskRow /\ RowInv(task[u])
        BY <2>2 DEF schedule
      <3>2. task[u].rev \in Nat /\ task[u].rev < revision'
        BY <1>1, <3>1 DEF RowInv, TaskRow
      <3> QED BY <1>1, <3>1, <3>2 DEF RowInv
    <2> QED BY <2>1, <2>2
  <1>5. ~Completed'
    BY <1>1, <1>2 DEF Completed, UserState, RevisionsOrdered
  <1> QED BY <1>3, <1>4, <1>5 DEF CompletedIsCurrent

\* The API keeps the invariant.
LEMMA ApiInv ==
  ASSUME TasksInv, TypeOK', Api
  PROVE  TasksInv'
  <1> USE DEF TasksInv
  <1>1. CASE CheckDocumentsLimit \/ CheckSynced
    <2>1. UNCHANGED <<revision, synced, syncing, docs, bills, answered, task>>
      BY <1>1 DEF CheckDocumentsLimit, CheckSynced, userVars
    <2> QED BY <2>1, RowsOnly
  <1>2. CASE \E t \in Task, d \in DocId, v \in Value : CreateDocument(d, v, t)
    <2> PICK t \in Task, d \in DocId, v \in Value : CreateDocument(d, v, t) BY <1>2
    <2>1. BillsHaveDocuments'
      BY ConstantsAssumption DEF CreateDocument, BillsHaveDocuments, Live, TypeOK, DocTable
    <2> QED BY <2>1, ScheduleInv DEF CreateDocument
  <1>3. CASE \E t \in Task, d \in DocId, v \in Value : UpdateDocument(d, v, t)
    <2> PICK t \in Task, d \in DocId, v \in Value : UpdateDocument(d, v, t) BY <1>3
    <2>1. BillsHaveDocuments'
      BY DEF UpdateDocument, BillsHaveDocuments, Live, TypeOK, DocTable
    <2> QED BY <2>1, ScheduleInv DEF UpdateDocument
  <1>4. CASE \E t \in Task, d \in DocId : DeleteDocument(d, t)
    <2> PICK t \in Task, d \in DocId : DeleteDocument(d, t) BY <1>4
    <2>1. BillsHaveDocuments'
      BY DEF DeleteDocument, BillsHaveDocuments, Live, TypeOK, DocTable, NoBill
    <2> QED BY <2>1, ScheduleInv DEF DeleteDocument
  <1>5. CASE \E t \in Task : ForceSearch(t)
    <2> PICK t \in Task : ForceSearch(t) BY <1>5
    <2>1. BillsHaveDocuments'
      BY DEF ForceSearch, BillsHaveDocuments
    <2> QED BY <2>1, ScheduleInv DEF ForceSearch
  <1>6. CASE \E f \in Fine : PayBill(f)
    <2> PICK f \in Fine : PayBill(f) BY <1>6
    <2> USE DEF PayBill, userVars
    <2>2. \A g \in Fine : bills'[g].doc = bills[g].doc
      BY DEF TypeOK, Bill
    <2>3. BillsHaveDocuments'
      BY <2>2 DEF BillsHaveDocuments, TypeOK, Bill
    <2>4. RevisionsOrdered' /\ CompletedIsCurrent' /\ \A t \in Task : RowInv(task[t])'
      BY DEF RevisionsOrdered, CompletedIsCurrent, Completed, UserState, RowInv
    <2> QED BY <2>3, <2>4
  <1> QED BY <1>1, <1>2, <1>3, <1>4, <1>5, <1>6 DEF Api

\* A document of a charge, among those a task has read.
LEMMA SavedCharges ==
  ASSUME TasksInv, NEW t \in Task,
         NEW docOf \in [Fine -> DocId \cup {NoDoc}],
         \A f \in task[t].charges : docOf[f] \in DocsOf(t, f),
         SaveCharges(t, docOf)
  PROVE  /\ Paid' = Paid
         /\ Unpaid' = task[t].charges \ Paid
         /\ \A f \in Unpaid' : task[t].docs[bills'[f].doc] = ChargedTo[f]
         /\ \A f \in Unpaid' : bills'[f].doc = docOf[f]
         /\ \A f \in Fine \ Unpaid' : bills'[f].doc = bills[f].doc
         /\ \A f \in Fine \ Unpaid' : bills'[f].status = "none" <=> bills[f].status = "none"
  <1>1. bills \in [Fine -> Bill] /\ task[t].charges \subseteq Fine
    BY DEF TasksInv, TypeOK, TaskRow
  <1>2. \A f \in Fine : bills'[f] = Updated(bills[f], f \in task[t].charges, docOf[f])
    BY DEF SaveCharges
  <1>3. \A f \in Fine : bills[f].status \in {"none", "new", "paid", "gone"}
    BY <1>1 DEF Bill
  <1>4. \A f \in Fine :
          /\ bills'[f].status = "paid" <=> bills[f].status = "paid"
          /\ bills'[f].status = "new" <=> f \in task[t].charges /\ bills[f].status # "paid"
          /\ bills'[f].status = "new" => bills'[f].doc = docOf[f]
          /\ bills'[f].status # "new" => bills'[f].doc = bills[f].doc
          /\ bills'[f].status # "new" => (bills'[f].status = "none" <=> bills[f].status = "none")
    <2> SUFFICES ASSUME NEW f \in Fine
                 PROVE  /\ bills'[f].status = "paid" <=> bills[f].status = "paid"
                        /\ bills'[f].status = "new" <=> f \in task[t].charges /\ bills[f].status # "paid"
                        /\ bills'[f].status = "new" => bills'[f].doc = docOf[f]
                        /\ bills'[f].status # "new" => bills'[f].doc = bills[f].doc
                        /\ bills'[f].status # "new" => (bills'[f].status = "none" <=> bills[f].status = "none")
      OBVIOUS
    <2>1. bills'[f] = Updated(bills[f], f \in task[t].charges, docOf[f])
      BY <1>2
    <2>2. bills[f] \in Bill
      BY <1>1
    <2>3. CASE bills[f].status = "paid"
      BY <2>1, <2>2, <2>3 DEF Updated
    <2>4. CASE bills[f].status # "paid" /\ f \in task[t].charges
      BY <2>1, <2>2, <2>4 DEF Updated
    <2>5. CASE bills[f].status = "new" /\ f \notin task[t].charges
      <3>1. bills'[f] = [bills[f] EXCEPT !.status = "gone"]
        BY <2>1, <2>5 DEF Updated
      <3> QED BY <2>2, <2>5, <3>1 DEF Bill
    <2>6. CASE bills[f].status \in {"none", "gone"} /\ f \notin task[t].charges
      <3>1. bills'[f] = bills[f]
        BY <2>1, <2>6 DEF Updated
      <3> QED BY <2>6, <3>1
    <2> QED BY <1>3, <2>3, <2>4, <2>5, <2>6
  <1> QED BY <1>1, <1>4 DEF Unpaid, Paid, DocsOf

\* Saving a search keeps the invariant: if the revision has not moved on, the
\* charges are those of the present documents, and otherwise the state stays
\* SYNCING.
LEMMA CompleteInv ==
  ASSUME TasksInv, TypeOK', NEW t \in Task, Complete(t)
  PROVE  TasksInv'
  <1> USE DEF TasksInv
  <1> DEFINE r == task[t].rev
  <1>1. /\ task[t] \in TaskRow /\ RowInv(task[t]) /\ task[t].pc = "saving"
        /\ syncing = r /\ synced' = r /\ syncing' = None
        /\ UNCHANGED <<revision, docs>>
        /\ answered' = [docs |-> task[t].docs, charges |-> task[t].charges]
    BY DEF Complete, StillAcquired, SavedRevision, TypeOK
  <1>2. r \in Nat /\ 0 < r /\ r <= revision
    BY <1>1 DEF RowInv, TaskRow
  <1>3. r = revision => task[t].docs = docs
    BY <1>1 DEF RowInv, InHandle
  <1>4. RevisionsOrdered'
    BY <1>1, <1>2 DEF RevisionsOrdered, None
  <1>5. \A u \in Task : RowInv(task[u])'
    <2>1. RowInv(Returned(task[t]))
      BY <1>1, ReturnedInv DEF TypeOK
    <2>2. \A u \in Task : RowInv(task'[u])
      BY <2>1 DEF Complete, TypeOK
    <2> QED BY <1>1, <2>2 DEF RowInv
  <1> PICK docOf \in [Fine -> DocId \cup {NoDoc}] :
         /\ \A f \in task[t].charges : docOf[f] \in DocsOf(t, f)
         /\ ForeignKeysHold(t, docOf)
         /\ SaveCharges(t, docOf)
    BY DEF Complete
  <1>6. /\ Paid' = Paid
        /\ Unpaid' = task[t].charges \ Paid
        /\ \A f \in Unpaid' : task[t].docs[bills'[f].doc] = ChargedTo[f]
        /\ \A f \in Unpaid' : bills'[f].doc = docOf[f]
        /\ \A f \in Fine \ Unpaid' : bills'[f].doc = bills[f].doc
        /\ \A f \in Fine \ Unpaid' : bills'[f].status = "none" <=> bills[f].status = "none"
    BY SavedCharges
  <1>7. BillsHaveDocuments'
    BY <1>1, <1>6 DEF BillsHaveDocuments, ForeignKeysHold
  <1>8. Completed' => r = revision
    BY <1>1 DEF Completed, UserState
  <1>9. CompletedIsCurrent'
    BY <1>1, <1>3, <1>8 DEF CompletedIsCurrent
  <1> QED BY <1>4, <1>5, <1>7, <1>9

\* A worker, Kazna and every fault keep the invariant.
LEMMA TaskInv ==
  ASSUME TasksInv, TypeOK', NEW t \in Task, Process(t) \/ Search(t) \/ Fault(t)
  PROVE  TasksInv'
  <1> USE DEF TasksInv, userVars
  <1>0. /\ TypeOK /\ \A u \in Task : RowInv(task[u])
        /\ task[t] \in TaskRow /\ RowInv(task[t])
    BY DEF TypeOK
  <1>r. task[t].rev \in Nat /\ task[t].sync \in BOOLEAN /\ task[t].retries \in Nat
        /\ task[t].rev <= revision /\ (task[t].pc # "free" => 0 < task[t].rev)
    BY <1>0 DEF RowInv, TaskRow
  <1>1. CASE DropObsolete(t)
    <2>1. RowInv(Returned(task[t]))
      BY <1>0, <1>1, ReturnedInv DEF DropObsolete, TypeOK
    <2>2. \A u \in Task : RowInv(task'[u])
      BY <1>1, <2>1 DEF DropObsolete, TypeOK
    <2>3. (\A u \in Task : RowInv(task[u]))'
      BY <1>1, <2>2 DEF DropObsolete, RowInv
    <2>4. syncing' \in {syncing, None} /\ UNCHANGED <<revision, synced, docs, bills, answered>>
      BY <1>1 DEF DropObsolete, Released
    <2>5. RevisionsOrdered'
      BY <2>4 DEF RevisionsOrdered
    <2> QED BY <2>3, <2>4, <2>5
            DEF BillsHaveDocuments, CompletedIsCurrent, Completed, UserState
  <1>2. CASE \E u \in Task : WaitForPrevious(t, u)
    <2> PICK u \in Task : WaitForPrevious(t, u) BY <1>2
    <2>1. \A v \in Task : RowInv(task'[v])
      BY <1>0, RetryInv DEF WaitForPrevious
    <2> QED BY <2>1, RowsOnly DEF WaitForPrevious
  <1>3. CASE AcquireUser(t)
    <2>1. task[t].rev = revision /\ syncing' = revision
      BY <1>3 DEF AcquireUser, IsObsolete
    <2>2. task'[t] = [task[t] EXCEPT !.pc = "acquired"]
      BY <1>3 DEF AcquireUser, TypeOK
    <2>3. RowInv(task'[t])
      BY <1>0, <1>3, <2>2 DEF AcquireUser, RowInv, TaskRow, InHandle
    <2>4. (\A u \in Task : RowInv(task[u]))'
      BY <1>3, <2>3 DEF AcquireUser, RowInv, TypeOK
    <2>5. UNCHANGED <<revision, synced, docs, bills, answered>>
      BY <1>3 DEF AcquireUser
    <2>6. RevisionsOrdered'
      BY <2>1, <2>5 DEF RevisionsOrdered, TypeOK
    <2> QED BY <2>4, <2>5, <2>6
            DEF BillsHaveDocuments, CompletedIsCurrent, Completed, UserState
  <1>4. CASE ReadDocuments(t)
    <2>1. task'[t] = [task[t] EXCEPT !.docs = docs,
                         !.pc = IF task[t].sync THEN "listing" ELSE SearchOrSave(docs)]
      BY <1>4 DEF ReadDocuments, TypeOK
    <2>2. task[t].charges = {}
      BY <1>0, <1>4 DEF ReadDocuments, RowInv
    <2>3. RowInv(task'[t])
      <3>1. task'[t].rev = task[t].rev /\ task'[t].charges = {} /\ task'[t].docs = docs
        BY <1>0, <2>1, <2>2 DEF TaskRow
      <3> QED BY <1>0, <1>4, <3>1 DEF ReadDocuments, RowInv
    <2>4. \A u \in Task : RowInv(task'[u])
      BY <1>0, <1>4, <2>3 DEF ReadDocuments, TypeOK
    <2> QED BY <1>4, <2>4, RowsOnly DEF ReadDocuments
  <1>5. CASE GetSubscription(t)
    <2>1. PICK stale \in SUBSET Value, pc \in {"searching", "saving", "unsubscribing"} :
            task' = [task EXCEPT ![t].stale = stale, ![t].pc = pc]
      BY <1>0, <1>5 DEF GetSubscription, SearchOrSave, TypeOK
    <2>2. task'[t] = [task[t] EXCEPT !.stale = stale, !.pc = pc]
      BY <1>0, <2>1 DEF TypeOK
    <2>3. RowInv(task'[t])
      <3>1. /\ task'[t].rev = task[t].rev /\ task'[t].charges = task[t].charges
            /\ task'[t].docs = task[t].docs
        BY <1>0, <2>2 DEF TaskRow
      <3>2. task[t].pc \in InHandle \ {"acquired", "saving"}
        BY <1>5 DEF GetSubscription, InHandle
      <3> QED BY <1>0, <3>1, <3>2 DEF RowInv, InHandle
    <2>4. \A u \in Task : RowInv(task'[u])
      BY <1>0, <2>1, <2>3 DEF TypeOK
    <2> QED BY <1>5, <2>4, RowsOnly DEF GetSubscription
  <1>6. CASE Unsubscribe(t)
    <2>1. PICK pc \in {"searching", "saving"} :
            task' = [task EXCEPT ![t].stale = {}, ![t].pc = pc]
      BY <1>6 DEF Unsubscribe, SearchOrSave
    <2>2. task'[t] = [task[t] EXCEPT !.stale = {}, !.pc = pc]
      BY <1>0, <2>1 DEF TypeOK
    <2>3. RowInv(task'[t])
      <3>1. /\ task'[t].rev = task[t].rev /\ task'[t].charges = task[t].charges
            /\ task'[t].docs = task[t].docs
        BY <1>0, <2>2 DEF TaskRow
      <3>2. task[t].pc \in InHandle \ {"acquired", "saving"}
        BY <1>6 DEF Unsubscribe, InHandle
      <3> QED BY <1>0, <3>1, <3>2 DEF RowInv, InHandle
    <2>4. \A u \in Task : RowInv(task'[u])
      BY <1>0, <2>1, <2>3 DEF TypeOK
    <2> QED BY <1>6, <2>4, RowsOnly DEF Unsubscribe
  <1>7. CASE Complete(t)
    BY <1>7, CompleteInv
  <1>8. CASE CompleteRaises(t)
    <2>1. \A u \in Task : RowInv(task'[u])
      BY <1>0, <1>8, FailInv DEF CompleteRaises
    <2> QED BY <1>8, <2>1, RowsOnly DEF CompleteRaises
  <1>9. CASE Finish(t)
    <2>1. \A u \in Task : RowInv(task'[u])
      BY <1>0, <1>9, FreeInv DEF Finish, TypeOK
    <2> QED BY <1>9, <2>1, RowsOnly DEF Finish
  <1>10. CASE \E charges \in SUBSET Fine : SearchComplete(t, charges)
    <2> PICK charges \in SUBSET Fine : SearchComplete(t, charges) BY <1>10
    <2>1. task'[t] = [task[t] EXCEPT !.charges = charges, !.pc = "saving"]
      BY <1>0 DEF SearchComplete, TypeOK
    <2>2. RowInv(task'[t])
      <3>1. /\ task'[t].rev = task[t].rev /\ task'[t].charges = charges
            /\ task'[t].docs = task[t].docs /\ task'[t].pc = "saving"
        BY <1>0, <2>1 DEF TaskRow
      <3>2. task[t].pc \in InHandle \ {"acquired"} /\ charges \subseteq Charged(Values(task[t].docs))
        BY DEF SearchComplete, InHandle
      <3> QED BY <1>0, <3>1, <3>2 DEF RowInv, InHandle
    <2>3. \A u \in Task : RowInv(task'[u])
      BY <1>0, <2>2 DEF SearchComplete, TypeOK
    <2> QED BY <2>3, RowsOnly DEF SearchComplete
  <1>11. CASE \E u \in Task : SearchPart(t, u)
    <2> PICK u \in Task : SearchPart(t, u) BY <1>11
    <2>1. \A v \in Task : RowInv(task'[v])
      BY <1>0, RetryInv DEF SearchPart
    <2> QED BY <2>1, RowsOnly DEF SearchPart
  <1>12. CASE Raise(t)
    <2>1. \A u \in Task : RowInv(task'[u])
      BY <1>0, <1>12, FailInv DEF Raise, InHandle
    <2> QED BY <1>12, <2>1, RowsOnly DEF Raise
  <1>13. CASE Die(t)
    <2>1. task[t].pc # "free"
      BY <1>13 DEF Die, InHandle
    <2>2. RowInv(Queued(task[t].rev, task[t].sync, task[t].retries))
      BY <1>0, <1>r, <2>1, QueuedInv DEF TypeOK
    <2>3. \A u \in Task : RowInv(task'[u])
      BY <1>0, <1>13, <2>2 DEF Die, TypeOK
    <2> QED BY <1>13, <2>3, RowsOnly DEF Die
  <1> QED BY <1>1, <1>2, <1>3, <1>4, <1>5, <1>6, <1>7, <1>8, <1>9, <1>10, <1>11, <1>12, <1>13
          DEF Process, Search, Fault

\* The charges listed as complete stay those of the saved answer.
LEMMA ExactInv ==
  ASSUME SearchInv, TasksInv', [Next]_vars
  PROVE  CompletedBillsAreExact'
  <1> USE DEF SearchInv, TasksInv
  <1>1. CASE \E t \in Task, s \in BOOLEAN : schedule(t, s)
    <2> PICK t \in Task, s \in BOOLEAN : schedule(t, s) BY <1>1
    <2>1. revision' = NextRevision /\ revision < NextRevision /\ synced' = synced
      BY DEF schedule, NextRevision, TypeOK
    <2>2. ~Completed'
      BY <2>1 DEF Completed, UserState, RevisionsOrdered, TypeOK
    <2> QED BY <2>2 DEF CompletedBillsAreExact
  <1>2. CASE \E f \in Fine : PayBill(f)
    <2> PICK f \in Fine : PayBill(f) BY <1>2
    <2> USE DEF PayBill, userVars
    <2>1. Unpaid' = Unpaid \ {f} /\ Paid' = Paid \cup {f}
      BY DEF Unpaid, Paid, TypeOK, Bill
    <2>2. \A g \in Fine : bills'[g].doc = bills[g].doc
      BY DEF TypeOK, Bill
    <2> QED BY <2>1, <2>2 DEF CompletedBillsAreExact, Completed, UserState
  <1>3. CASE \E t \in Task : Complete(t)
    <2> PICK t \in Task : Complete(t) BY <1>3
    <2>1. /\ RowInv(task[t]) /\ task[t].pc = "saving" /\ synced' = task[t].rev
          /\ UNCHANGED <<revision, docs>> /\ answered'.charges = task[t].charges
      BY DEF Complete, SavedRevision, TypeOK
    <2> PICK docOf \in [Fine -> DocId \cup {NoDoc}] :
           /\ \A f \in task[t].charges : docOf[f] \in DocsOf(t, f)
           /\ SaveCharges(t, docOf)
      BY DEF Complete
    <2>2. /\ Paid' = Paid
          /\ Unpaid' = task[t].charges \ Paid
          /\ \A f \in Unpaid' : task[t].docs[bills'[f].doc] = ChargedTo[f]
      BY SavedCharges
    <2>3. Completed' => task[t].docs = docs
      BY <2>1 DEF Completed, UserState, RowInv, InHandle
    <2> QED BY <2>1, <2>2, <2>3 DEF CompletedBillsAreExact
  <1>4. CASE UNCHANGED <<revision, synced, docs, bills, answered>>
    BY <1>4 DEF CompletedBillsAreExact, Completed, UserState, Unpaid, Paid
  <1> QED BY <1>1, <1>2, <1>3, <1>4
      DEF Next, Api, Process, Search, Fault, CheckDocumentsLimit, CheckSynced,
          CreateDocument, UpdateDocument, DeleteDocument, ForceSearch,
          DropObsolete, WaitForPrevious, AcquireUser, ReadDocuments, GetSubscription,
          Unsubscribe, CompleteRaises, Finish, SearchComplete, SearchPart, Raise, Die,
          userVars, vars

\* SearchInv is an invariant of the search: it holds initially and every step
\* keeps it, with any number of workers and faults.
THEOREM SearchInvariant == Spec => []SearchInv
  <1>1. Init /\ TypeOK => SearchInv
    <2> SUFFICES ASSUME Init, TypeOK PROVE SearchInv OBVIOUS
    <2>1. RowInv(Free)
      BY FreeInv DEF TypeOK
    <2>2. RevisionsOrdered /\ \A t \in Task : RowInv(task[t])
      BY <2>1 DEF Init, RevisionsOrdered, None
    <2>3. BillsHaveDocuments
      BY DEF Init, BillsHaveDocuments, NoBill
    <2>4. ~Completed
      BY DEF Init, Completed, UserState
    <2> QED BY <2>2, <2>3, <2>4 DEF SearchInv, TasksInv, CompletedIsCurrent, CompletedBillsAreExact
  <1>2. SearchInv /\ TypeOK' /\ [Next]_vars => SearchInv'
    <2> SUFFICES ASSUME SearchInv, TypeOK', [Next]_vars PROVE TasksInv'
      BY ExactInv DEF SearchInv, TasksInv
    <2>1. CASE Api BY <2>1, ApiInv DEF SearchInv, TasksInv
    <2>2. CASE \E t \in Task : Process(t) \/ Search(t) \/ Fault(t)
      BY <2>2, TaskInv DEF SearchInv, TasksInv
    <2>3. CASE UNCHANGED vars
      <3>1. \A t \in Task : RowInv(task'[t])
        BY <2>3 DEF vars, SearchInv, TasksInv
      <3> QED BY <2>3, <3>1, RowsOnly DEF vars, SearchInv, TasksInv
    <2> QED BY <2>1, <2>2, <2>3 DEF Next
  <1> QED BY <1>1, <1>2, TypeCorrect, PTL DEF Spec

\* The state is COMPLETED only if the last saved search was asked for exactly the
\* documents that are present.
THEOREM CompletedIsCurrentCorrect == Spec => []CompletedIsCurrent
  <1>1. SearchInv => CompletedIsCurrent
    BY DEF SearchInv, TasksInv
  <1> QED BY <1>1, SearchInvariant, PTL

\* The bills that are then listed are what the answer of that search charges and
\* nobody has paid.
THEOREM CompletedBillsCorrect == Spec => []CompletedBillsAreExact
  <1>1. SearchInv => CompletedBillsAreExact
    BY DEF SearchInv, TasksInv
  <1> QED BY <1>1, SearchInvariant, PTL

\* Every stored bill belongs to a stored document.
THEOREM BillsHaveDocumentsCorrect == Spec => []BillsHaveDocuments
  <1>1. SearchInv => BillsHaveDocuments
    BY DEF SearchInv, TasksInv
  <1> QED BY <1>1, SearchInvariant, PTL

-----------------------------------------------------------------------------
(* Action properties.                                                      *)

\* What a search saves is not older than what has been saved before.
LEMMA SyncedStep ==
  ASSUME TasksInv, TasksInv', Next
  PROVE  synced <= synced' /\ synced' <= revision'
  <1>1. synced' <= revision' /\ synced \in Nat
    BY DEF TasksInv, RevisionsOrdered, TypeOK
  <1>2. CASE \E t \in Task : Complete(t)
    <2> PICK t \in Task : Complete(t) BY <1>2
    <2>1. /\ task[t] \in TaskRow /\ RowInv(task[t]) /\ task[t].pc = "saving"
          /\ syncing = task[t].rev /\ synced' = task[t].rev
      BY DEF TasksInv, TypeOK, Complete, StillAcquired, SavedRevision
    <2>2. syncing # None
      BY <2>1 DEF RowInv, TaskRow, None
    <2> QED BY <1>1, <2>1, <2>2 DEF TasksInv, RevisionsOrdered
  <1>3. CASE ~ \E t \in Task : Complete(t)
    <2>1. synced' = synced
      BY <1>3 DEF Next, Api, Process, Search, Fault, CheckDocumentsLimit, CheckSynced,
           CreateDocument, UpdateDocument, DeleteDocument, ForceSearch, PayBill, schedule,
           DropObsolete, WaitForPrevious, AcquireUser, ReadDocuments, GetSubscription,
           Unsubscribe, CompleteRaises, Finish, SearchComplete, SearchPart, Raise, Die, userVars
    <2> QED BY <1>1, <2>1
  <1> QED BY <1>2, <1>3

\* synced_revision only grows.
THEOREM SyncedMonotonicCorrect == Spec => SyncedMonotonic
  <1>1. SearchInv /\ SearchInv' /\ [Next]_vars => [synced <= synced' /\ synced' <= revision']_vars
    BY SyncedStep DEF SearchInv
  <1> QED BY <1>1, SearchInvariant, PTL DEF Spec, SyncedMonotonic

\* A search writes no bill that is paid; an API request deletes one only with its
\* document.
LEMMA PaidStep ==
  ASSUME TypeOK, Next, NEW f \in Fine, bills[f].status = "paid"
  PROVE  bills'[f] = bills[f] \/ docs'[bills[f].doc] = Deleted
  <1>1. CASE \E t \in Task : Complete(t)
    <2> PICK t \in Task, docOf \in [Fine -> DocId \cup {NoDoc}] : SaveCharges(t, docOf)
      BY <1>1 DEF Complete
    <2>1. bills'[f] = Updated(bills[f], f \in task[t].charges, docOf[f])
      BY DEF SaveCharges
    <2> QED BY <2>1 DEF Updated
  <1>2. CASE \E t \in Task, d \in DocId : DeleteDocument(d, t)
    BY <1>2 DEF DeleteDocument, TypeOK, DocTable
  <1>3. CASE \E g \in Fine : PayBill(g)
    BY <1>3 DEF PayBill, TypeOK
  <1>4. CASE UNCHANGED bills
    BY <1>4
  <1> QED BY <1>1, <1>2, <1>3, <1>4
       DEF Next, Api, Process, Search, Fault, CheckDocumentsLimit, CheckSynced,
           CreateDocument, UpdateDocument, ForceSearch,
           DropObsolete, WaitForPrevious, AcquireUser, ReadDocuments, GetSubscription,
           Unsubscribe, CompleteRaises, Finish, SearchComplete, SearchPart, Raise, Die

\* A search leaves a paid bill as it is.
THEOREM PaidStaysPaidCorrect == Spec => PaidStaysPaid
  <1>1. TypeOK /\ [Next]_vars =>
          [\A f \in Fine : bills[f].status = "paid" =>
             \/ bills'[f] = bills[f]
             \/ docs'[bills[f].doc] = Deleted]_vars
    BY PaidStep
  <1> QED BY <1>1, TypeCorrect, PTL DEF Spec, PaidStaysPaid

-----------------------------------------------------------------------------
(* Mutual exclusion of the calls of Kazna.                                 *)

\* A step that leaves syncing_revision alone and every row either as it was, or
\* no longer active, or active with its old revision and in handle only if it
\* was, keeps the holder alone.
LEMMA HolderRowsOnly ==
  ASSUME HolderInv, UNCHANGED syncing,
         \A u \in Task : \/ ~Active(task'[u])
                         \/ /\ Active(task[u]) /\ task'[u].rev = task[u].rev
                            /\ task'[u].pc \in InHandle => task[u].pc \in InHandle
  PROVE  HolderInv'
  BY DEF HolderInv, Active, InHandle

\* The revision of a new task is carried by no other task.
LEMMA HolderSchedule ==
  ASSUME TasksInv, HolderInv, NEW t \in Task, NEW s \in BOOLEAN, schedule(t, s)
  PROVE  HolderInv'
  <1>1. task'[t].rev = NextRevision /\ task'[t].pc = "pending" /\ revision < NextRevision
    BY DEF TasksInv, TypeOK, schedule, NextRevision, Queued
  <1>2. \A u \in Task \ {t} : task'[u] = task[u] /\ task[u].rev < NextRevision
    <2> SUFFICES ASSUME NEW u \in Task \ {t} PROVE task'[u] = task[u] /\ task[u].rev < NextRevision
      OBVIOUS
    <2>1. task'[u] = task[u] /\ task[u] \in TaskRow /\ RowInv(task[u])
      BY DEF TasksInv, TypeOK, schedule
    <2> QED BY <1>1, <2>1 DEF RowInv, TaskRow, TasksInv, TypeOK, NextRevision
  <1>3. syncing' = syncing
    BY DEF schedule
  <1>4. task'[t].pc \notin InHandle /\ Active(task'[t])
    BY <1>1 DEF Active, InHandle
  <1>5. \A u \in Task : task'[u].pc \in InHandle => task'[u].rev = syncing'
    BY <1>2, <1>3, <1>4 DEF HolderInv
  <1>6. \A u \in Task \ {t} : task'[u].rev # task'[t].rev
    <2> SUFFICES ASSUME NEW u \in Task \ {t} PROVE task'[u].rev # task'[t].rev
      OBVIOUS
    <2>1. task[u].rev \in Nat /\ NextRevision \in Nat
      BY DEF TasksInv, TypeOK, TaskRow, NextRevision
    <2> QED BY <1>1, <1>2, <2>1
  <1>7. \A u, v \in Task : u # v /\ Active(task'[u]) /\ Active(task'[v]) => task'[u].rev # task'[v].rev
    BY <1>2, <1>6 DEF HolderInv
  <1> QED BY <1>5, <1>7 DEF HolderInv, Active

\* A task that is put back hands its revision over to one new row.
LEMMA HolderRetry ==
  ASSUME TasksInv, HolderInv, NEW t \in Task, NEW u \in Task, retry(t, u),
         Active(task[t]), UNCHANGED syncing
  PROVE  HolderInv'
  <1>1. t # u /\ task[t] \in TaskRow
    BY DEF retry, Active, TasksInv, TypeOK
  <1>2. ~Active(task'[t])
    BY <1>1, ReturnedRow DEF retry, TasksInv, TypeOK, Active
  <1>3. task'[u].rev = task[t].rev /\ task'[u].pc = "pending"
    BY <1>1 DEF retry, TasksInv, TypeOK, Queued
  <1>4. \A v \in Task \ {t, u} : task'[v] = task[v]
    BY DEF retry, TasksInv, TypeOK
  <1> QED BY <1>1, <1>2, <1>3, <1>4 DEF HolderInv, Active, InHandle

\* A task that fails keeps its revision or is given up.
LEMMA HolderFail ==
  ASSUME TasksInv, HolderInv, NEW t \in Task, Active(task[t]), fail(t), UNCHANGED syncing
  PROVE  HolderInv'
  <1>1. \/ ~Active(task'[t])
        \/ task'[t].rev = task[t].rev /\ task'[t].pc = "pending"
    BY FreeRow DEF fail, TasksInv, TypeOK, Queued, Active
  <1>2. \A v \in Task \ {t} : task'[v] = task[v]
    BY DEF fail, TasksInv, TypeOK
  <1> QED BY <1>1, <1>2, HolderRowsOnly DEF Active, InHandle, HolderInv

\* The worker and Kazna keep the holder alone, if no worker dies between the
\* insert of a follow-up task and the finish of its own.
LEMMA HolderTask ==
  ASSUME ~FinishMayFail, TasksInv, HolderInv,
         NEW t \in Task, Process(t) \/ Search(t) \/ Fault(t)
  PROVE  HolderInv'
  <1>0. task \in [Task -> TaskRow] /\ task[t] \in TaskRow /\ RowInv(task[t])
    BY DEF TasksInv, TypeOK
  <1>u. \A u \in Task : task[u] \in TaskRow /\ RowInv(task[u])
    BY DEF TasksInv, TypeOK
  <1> USE DEF userVars
  \* syncing_revision is given up by the task that holds it: nobody is left in handle.
  <1>g. ASSUME Active(task[t]), task' = [task EXCEPT ![t] = Returned(@)],
               syncing' = syncing \/ syncing = task[t].rev
        PROVE  HolderInv'
    <2>1. ~Active(task'[t]) /\ \A u \in Task \ {t} : task'[u] = task[u]
      BY <1>0, <1>g, ReturnedRow DEF Active
    <2>2. CASE syncing' = syncing
      BY <2>1, <2>2, HolderRowsOnly
    <2>3. CASE syncing = task[t].rev
      <3>1. \A u \in Task \ {t} : task[u].pc \notin InHandle
        BY <1>g, <2>3 DEF HolderInv, Active, InHandle
      <3> QED BY <2>1, <3>1 DEF HolderInv, Active, InHandle
    <2> QED BY <1>g, <2>2, <2>3
  \* A step within handle changes neither the revision nor the holder.
  <1>h. ASSUME task[t].pc \in InHandle, task' = [task EXCEPT ![t] = task'[t]],
               task'[t].rev = task[t].rev, UNCHANGED syncing
        PROVE  HolderInv'
    BY <1>0, <1>h, HolderRowsOnly DEF Active, InHandle
  <1>1. CASE DropObsolete(t)
    <2>1. Active(task[t]) /\ (syncing' = syncing \/ syncing = task[t].rev)
      BY <1>1 DEF DropObsolete, Released, Active
    <2> QED BY <1>1, <1>g, <2>1 DEF DropObsolete
  <1>2. CASE \E u \in Task : WaitForPrevious(t, u)
    BY <1>2, HolderRetry DEF WaitForPrevious, Active
  <1>3. CASE AcquireUser(t)
    <2>1. task[t].pc = "pending" /\ syncing \in {None, task[t].rev} /\ syncing' = task[t].rev
      BY <1>3 DEF AcquireUser, IsHeldByOther
    <2>2. task'[t].rev = task[t].rev /\ task'[t].pc = "acquired" /\ \A u \in Task \ {t} : task'[u] = task[u]
      BY <1>0, <1>3 DEF AcquireUser, TaskRow
    <2>3. \A u \in Task \ {t} : task[u].pc \notin InHandle
      <3> SUFFICES ASSUME NEW u \in Task \ {t}, task[u].pc \in InHandle PROVE FALSE
        OBVIOUS
      <3>1. task[u].rev = syncing /\ task[u].rev # task[t].rev
        BY <2>1 DEF HolderInv, Active, InHandle
      <3>2. task[u].rev > 0
        BY <1>u DEF RowInv, InHandle
      <3> QED BY <2>1, <3>1, <3>2 DEF None
    <2> QED BY <2>1, <2>2, <2>3 DEF HolderInv, Active, InHandle
  <1>4. CASE ReadDocuments(t)
    BY <1>0, <1>4, <1>h DEF ReadDocuments, TaskRow, InHandle
  <1>5. CASE GetSubscription(t)
    BY <1>0, <1>5, <1>h DEF GetSubscription, TaskRow, InHandle
  <1>6. CASE Unsubscribe(t)
    BY <1>0, <1>6, <1>h DEF Unsubscribe, TaskRow, InHandle
  <1>7. CASE Complete(t)
    BY <1>7, <1>g DEF Complete, StillAcquired, Active
  <1>8. CASE CompleteRaises(t)
    BY <1>8, HolderFail DEF CompleteRaises, Active
  <1>9. CASE Finish(t)
    <2>1. ~Active(task'[t]) /\ \A u \in Task \ {t} : task'[u] = task[u]
      BY <1>0, <1>9, FreeRow DEF Finish, Active
    <2> QED BY <1>9, <2>1, HolderRowsOnly DEF Finish
  <1>10. CASE \E charges \in SUBSET Fine : SearchComplete(t, charges)
    BY <1>0, <1>10, <1>h DEF SearchComplete, TaskRow, InHandle
  <1>11. CASE \E u \in Task : SearchPart(t, u)
    BY <1>11, HolderRetry DEF SearchPart, Active
  <1>12. CASE Raise(t)
    BY <1>12, HolderFail DEF Raise, Active, InHandle
  <1>13. CASE Die(t)
    <2>1. task[t].pc \in InHandle
      BY <1>13 DEF Die
    <2>2. /\ task'[t].rev = task[t].rev /\ task'[t].pc = "pending"
          /\ \A u \in Task \ {t} : task'[u] = task[u]
      BY <1>0, <1>13 DEF Die, Queued
    <2> QED BY <1>13, <2>1, <2>2, HolderRowsOnly DEF Die, Active, InHandle
  <1> QED BY <1>1, <1>2, <1>3, <1>4, <1>5, <1>6, <1>7, <1>8, <1>9, <1>10, <1>11, <1>12, <1>13
          DEF Process, Search, Fault

\* So does every step.
LEMMA HolderNext ==
  ASSUME ~FinishMayFail, TasksInv, HolderInv, [Next]_vars
  PROVE  HolderInv'
  <1>1. CASE \E t \in Task : Process(t) \/ Search(t) \/ Fault(t)
    BY <1>1, HolderTask
  <1>2. CASE Api
    <2>1. CASE UNCHANGED <<task, syncing>>
      BY <2>1 DEF HolderInv
    <2>2. CASE \E t \in Task, s \in BOOLEAN : schedule(t, s)
      BY <2>2, HolderSchedule
    <2> QED BY <1>2, <2>1, <2>2 DEF Api, CheckDocumentsLimit, CheckSynced, CreateDocument,
               UpdateDocument, DeleteDocument, ForceSearch, PayBill, userVars
  <1>3. CASE UNCHANGED vars
    BY <1>3 DEF vars, HolderInv
  <1> QED BY <1>1, <1>2, <1>3 DEF Next

LEMMA HolderInit ==
  ASSUME Init PROVE HolderInv
  BY FreeRow DEF Init, HolderInv, Active, InHandle

\* Whoever is in handle holds the user, and every revision is carried by one
\* active task at most.
THEOREM HolderInvariant ==
  ASSUME ~FinishMayFail
  PROVE  Spec => []HolderInv
  <1>1. SearchInv /\ HolderInv /\ [Next]_vars => HolderInv'
    BY HolderNext DEF SearchInv
  <1> QED BY <1>1, HolderInit, SearchInvariant, PTL DEF Spec

\* The docstring of handle holds as long as no worker dies between the insert of
\* a follow-up task and the finish of its own: one call of Kazna at a time, by
\* the task whose revision is syncing_revision.
THEOREM OneKaznaCallCorrect ==
  ASSUME ~FinishMayFail
  PROVE  Spec => []OneKaznaCall
  <1>1. HolderInv => OneKaznaCall
    BY DEF HolderInv, OneKaznaCall, Calling, InHandle, Active
  <1> QED BY <1>1, HolderInvariant, PTL

-----------------------------------------------------------------------------
(* The subscription.                                                       *)

\* A row that is queued, free or returned has nothing to store or to remove.
LEMMA FreshRow ==
  /\ \A r, s, n : Queued(r, s, n).pc = "pending" /\ Queued(r, s, n).stale = {}
  /\ Free.pc = "free" /\ Free.stale = {}
  /\ \A row : Returned(row).pc = "returned" /\ Returned(row).stale = {}
  BY DEF Queued, Free, Returned

\* A step that only replaces rows by fresh ones keeps the subscription right, if
\* the state it leaves is not newly COMPLETED.
LEMMA SubscriptionRows ==
  ASSUME SubscriptionInv, UNCHANGED subscribed,
         \A u \in Task : \/ task'[u] = task[u]
                         \/ task'[u].pc # "saving" /\ task'[u].stale = {},
         Completed' => Completed /\ docs' = docs
  PROVE  SubscriptionInv'
  BY DEF SubscriptionInv, CompletedIsSubscribed

\* A new revision is not synced yet.
LEMMA SubscriptionSchedule ==
  ASSUME TasksInv, SubscriptionInv, UNCHANGED subscribed,
         NEW t \in Task, NEW s \in BOOLEAN, schedule(t, s)
  PROVE  SubscriptionInv'
  <1>1. \A u \in Task : \/ task'[u] = task[u]
                        \/ task'[u].pc # "saving" /\ task'[u].stale = {}
    BY FreshRow DEF schedule, TasksInv, TypeOK
  <1>2. ~Completed'
    BY DEF TasksInv, RevisionsOrdered, TypeOK, schedule, NextRevision, Completed, UserState
  <1> QED BY <1>1, <1>2, SubscriptionRows

\* While the state is COMPLETED, a task in handle knows the present documents.
LEMMA HandlerKnows ==
  ASSUME TasksInv, HolderInv, Completed, NEW t \in Task,
         task[t].pc \in InHandle \ {"acquired"}
  PROVE  task[t].docs = docs
  <1>1. task[t].rev = syncing /\ RowInv(task[t]) /\ task[t] \in TaskRow
    BY DEF HolderInv, TasksInv, TypeOK
  <1>2. syncing # None /\ synced = revision
    BY <1>1 DEF RowInv, InHandle, TaskRow, None, Completed, UserState
  <1>3. task[t].rev = revision
    BY <1>1, <1>2 DEF TasksInv, RevisionsOrdered, TypeOK
  <1> QED BY <1>1, <1>3 DEF RowInv

\* A step of a worker or of Kazna keeps the subscription right.
LEMMA SubscriptionTask ==
  ASSUME TasksInv, HolderInv, SubscriptionInv, NEW t \in Task,
         Process(t) \/ Search(t) \/ Fault(t)
  PROVE  SubscriptionInv'
  <1>0. task[t] \in TaskRow /\ task \in [Task -> TaskRow] /\ RowInv(task[t])
    BY DEF TasksInv, TypeOK
  <1>s. SubscriptionInv
    OBVIOUS
  <1>f. ASSUME UNCHANGED <<revision, synced, docs, subscribed>>,
               \A u \in Task : \/ task'[u] = task[u]
                               \/ task'[u].pc # "saving" /\ task'[u].stale = {}
        PROVE  SubscriptionInv'
    BY <1>f, SubscriptionRows DEF Completed, UserState
  <1>e. \A table : Live(table) = {} => Values(table) = {}
    BY DEF Values
  <1>1. CASE DropObsolete(t)
    BY <1>0, <1>1, <1>f, FreshRow DEF DropObsolete
  <1>2. CASE \E u \in Task : WaitForPrevious(t, u)
    <2> PICK u \in Task : WaitForPrevious(t, u) BY <1>2
    <2>1. \A w \in Task : \/ task'[w] = task[w]
                          \/ task'[w].pc # "saving" /\ task'[w].stale = {}
      BY <1>0, FreshRow DEF WaitForPrevious, retry
    <2> QED BY <2>1, <1>f DEF WaitForPrevious, userVars
  <1>3. CASE AcquireUser(t)
    <2>1. task'[t].pc = "acquired" /\ task'[t].stale = {}
      BY <1>0, <1>3, <1>s DEF AcquireUser, TaskRow, SubscriptionInv
    <2> QED BY <1>0, <1>3, <2>1, <1>f DEF AcquireUser
  <1>4. CASE ReadDocuments(t)
    <2>1. /\ task'[t].stale = {} /\ task'[t].docs = docs
          /\ task'[t].pc \in {"listing", SearchOrSave(docs)}
          /\ \A u \in Task \ {t} : task'[u] = task[u]
      BY <1>0, <1>4, <1>s DEF ReadDocuments, TaskRow, SubscriptionInv
    <2>2. task'[t].pc # "unsubscribing" /\ (task'[t].pc = "saving" => Values(docs) = {})
      BY <2>1, <1>e DEF SearchOrSave
    <2> QED BY <1>4, <1>s, <2>1, <2>2
            DEF ReadDocuments, userVars, SubscriptionInv, CompletedIsSubscribed, Completed, UserState
  <1>5. CASE GetSubscription(t)
    <2> DEFINE stale == subscribed \ Values(task[t].docs)
    <2>1. /\ task'[t].stale = stale /\ task'[t].docs = task[t].docs
          /\ task'[t].pc = IF stale = {} THEN SearchOrSave(task[t].docs) ELSE "unsubscribing"
          /\ \A u \in Task \ {t} : task'[u] = task[u]
      BY <1>0, <1>5 DEF GetSubscription, TaskRow
    <2>2. /\ task'[t].pc # "unsubscribing" => task'[t].stale = {}
          /\ task'[t].pc = "saving" => Values(task'[t].docs) = {}
          /\ task'[t].stale \cap Values(task'[t].docs) = {}
      BY <2>1, <1>e DEF SearchOrSave
    <2> QED BY <1>5, <1>s, <2>1, <2>2
            DEF GetSubscription, userVars, SubscriptionInv, CompletedIsSubscribed, Completed, UserState
  <1>6. CASE Unsubscribe(t)
    <2>1. task[t].pc \in InHandle \ {"acquired"}
      BY <1>6 DEF Unsubscribe, InHandle
    <2>2. /\ task'[t].stale = {} /\ task'[t].docs = task[t].docs
          /\ task'[t].pc = SearchOrSave(task[t].docs)
          /\ \A u \in Task \ {t} : task'[u] = task[u]
      BY <1>0, <1>6 DEF Unsubscribe, TaskRow
    <2>3. task'[t].pc # "unsubscribing" /\ (task'[t].pc = "saving" => Values(task'[t].docs) = {})
      BY <2>2, <1>e DEF SearchOrSave
    <2>4. \A u \in Task \ {t} : task[u].pc # "saving"
      BY <2>1 DEF HolderInv, InHandle, Active
    <2>5. CompletedIsSubscribed'
      <3> SUFFICES ASSUME Completed' PROVE Values(docs) \subseteq subscribed'
        BY <1>6 DEF Unsubscribe, CompletedIsSubscribed
      <3>1. Completed
        BY <1>6 DEF Unsubscribe, userVars, Completed, UserState
      <3>2. task[t].docs = docs
        BY <3>1, <2>1, HandlerKnows
      <3> QED BY <1>6, <1>s, <3>1, <3>2 DEF Unsubscribe, SubscriptionInv, CompletedIsSubscribed
    <2> QED BY <1>s, <2>2, <2>3, <2>4, <2>5 DEF SubscriptionInv
  <1>7. CASE Complete(t)
    <2>1. Returned(task[t]).pc = "returned" /\ Returned(task[t]).stale = {}
      BY FreshRow
    <2>2. \A u \in Task : \/ task'[u] = task[u]
                          \/ task'[u].pc = "returned" /\ task'[u].stale = {}
      BY <1>0, <1>7, <2>1 DEF Complete
    <2>3. CompletedIsSubscribed'
      <3> SUFFICES ASSUME Completed' PROVE Values(docs) \subseteq subscribed
        BY <1>7 DEF Complete, CompletedIsSubscribed
      <3>1. task[t].rev = revision
        BY <1>7 DEF Complete, SavedRevision, Completed, UserState
      <3>2. task[t].docs = docs
        BY <1>0, <1>7, <3>1 DEF RowInv, Complete, InHandle
      <3> QED BY <1>7, <1>s, <3>2 DEF Complete, SubscriptionInv
    <2> QED BY <1>7, <1>s, <2>2, <2>3 DEF Complete, SubscriptionInv
  <1>8. CASE CompleteRaises(t)
    BY <1>0, <1>8, <1>f, FreshRow DEF CompleteRaises, fail, userVars
  <1>9. CASE Finish(t)
    BY <1>0, <1>9, <1>f, FreshRow DEF Finish, userVars
  <1>10. CASE \E charges \in SUBSET Fine : SearchComplete(t, charges)
    <2> PICK charges \in SUBSET Fine : SearchComplete(t, charges) BY <1>10
    <2>1. /\ task'[t].stale = task[t].stale /\ task'[t].docs = task[t].docs
          /\ task'[t].pc = "saving"
          /\ \A u \in Task \ {t} : task'[u] = task[u]
      BY <1>0 DEF SearchComplete, TaskRow
    <2>2. task[t].stale = {}
      BY <1>s DEF SubscriptionInv, SearchComplete
    <2> QED BY <1>s, <2>1, <2>2
            DEF SearchComplete, userVars, SubscriptionInv, CompletedIsSubscribed, Completed, UserState
  <1>11. CASE \E u \in Task : SearchPart(t, u)
    <2> PICK u \in Task : SearchPart(t, u) BY <1>11
    <2>1. \A w \in Task : \/ task'[w] = task[w]
                          \/ task'[w].pc \in {"returned", "pending"} /\ task'[w].stale = {}
      BY <1>0, FreshRow DEF SearchPart, retry
    <2>2. UNCHANGED <<revision, synced, docs>> /\ subscribed \subseteq subscribed'
      BY DEF SearchPart, userVars
    <2>3. CompletedIsSubscribed'
      BY <1>s, <2>2 DEF SubscriptionInv, CompletedIsSubscribed, Completed, UserState
    <2> QED BY <1>s, <2>1, <2>2, <2>3 DEF SubscriptionInv
  <1>12. CASE Raise(t)
    BY <1>0, <1>12, <1>f, FreshRow DEF Raise, fail, userVars
  <1>13. CASE Die(t)
    BY <1>0, <1>13, <1>f, FreshRow DEF Die, userVars
  <1> QED BY <1>1, <1>2, <1>3, <1>4, <1>5, <1>6, <1>7, <1>8, <1>9, <1>10, <1>11, <1>12, <1>13
          DEF Process, Search, Fault

\* So does every step.
LEMMA SubscriptionNext ==
  ASSUME TasksInv, HolderInv, SubscriptionInv, [Next]_vars
  PROVE  SubscriptionInv'
  <1>1. CASE \E t \in Task : Process(t) \/ Search(t) \/ Fault(t)
    BY <1>1, SubscriptionTask
  <1>2. CASE Api
    <2>1. CASE UNCHANGED <<task, revision, synced, docs, subscribed>>
      BY <2>1 DEF SubscriptionInv, CompletedIsSubscribed, Completed, UserState
    <2>2. CASE UNCHANGED subscribed /\ \E t \in Task, s \in BOOLEAN : schedule(t, s)
      BY <2>2, SubscriptionSchedule
    <2> QED BY <1>2, <2>1, <2>2 DEF Api, CheckDocumentsLimit, CheckSynced, CreateDocument,
               UpdateDocument, DeleteDocument, ForceSearch, PayBill, userVars
  <1>3. CASE UNCHANGED vars
    BY <1>3 DEF vars, SubscriptionInv, CompletedIsSubscribed, Completed, UserState
  <1> QED BY <1>1, <1>2, <1>3 DEF Next

LEMMA SubscriptionInit ==
  ASSUME Init PROVE SubscriptionInv
  BY FreshRow DEF Init, SubscriptionInv, CompletedIsSubscribed, Completed, UserState

\* What a task removes is never a document of the user, and what it is about to
\* save is subscribed: by HolderInv it is the only one to change the subscription.
THEOREM SubscriptionInvariant ==
  ASSUME ~FinishMayFail
  PROVE  Spec => []SubscriptionInv
  <1>1. SearchInv /\ HolderInv /\ SubscriptionInv /\ [Next]_vars => SubscriptionInv'
    BY SubscriptionNext DEF SearchInv
  <1> QED BY <1>1, SubscriptionInit, SearchInvariant, HolderInvariant, PTL DEF Spec

\* A completed search leaves every present document subscribed, whatever older
\* searches remove before or after it.
THEOREM CompletedIsSubscribedCorrect ==
  ASSUME ~FinishMayFail
  PROVE  Spec => []CompletedIsSubscribed
  <1>1. SubscriptionInv => CompletedIsSubscribed
    BY DEF SubscriptionInv
  <1> QED BY <1>1, SubscriptionInvariant, PTL
-----------------------------------------------------------------------------
(* No change of the documents is forgotten.                                *)

LatestInv == PresentInv /\ LatestIsQueued

\* A step that replaces the row of one task, and leaves the revisions of the user
\* alone, keeps the latest revision in the queue if that row does.
LEMMA LatestRow ==
  ASSUME SearchInv, LatestInv, NEW t \in Task,
         \A u \in Task \ {t} : task'[u] = task[u], UNCHANGED <<revision, synced>>,
         faults' \in Nat, faults <= faults',
         syncing = revision => syncing' = revision,
         synced # revision /\ task'[t].rev = revision =>
           /\ task'[t].pc \in InHandle => syncing' = revision
           /\ task'[t].pc # "free" => task'[t].retries <= faults',
         faults' <= MaxRetries /\ synced # revision /\ Active(task[t]) /\ task[t].rev = revision =>
           Active(task'[t]) /\ task'[t].rev = revision
  PROVE  LatestInv'
  <1>1. \A u \in Task : task[u].retries \in Nat
    BY DEF SearchInv, TasksInv, TypeOK, TaskRow
  <1>2. faults \in Nat /\ MaxRetries \in Nat
    BY ConstantsAssumption DEF SearchInv, TasksInv, TypeOK
  <1>3. PresentInv'
    <2> SUFFICES ASSUME NEW u \in Task, task'[u].rev = revision, synced # revision
                 PROVE  /\ task'[u].pc \in InHandle => syncing' = revision
                        /\ task'[u].pc # "free" => task'[u].retries <= faults'
      BY DEF PresentInv
    <2>1. CASE u = t BY <2>1
    <2>2. CASE u # t
      <3>1. task'[u] = task[u] /\ task[u].retries \in Nat
        BY <1>1, <2>2
      <3>2. /\ task[u].pc \in InHandle => syncing = revision
            /\ task[u].pc # "free" => task[u].retries <= faults
        BY <3>1 DEF LatestInv, PresentInv
      <3> QED BY <1>2, <3>1, <3>2
    <2> QED BY <2>1, <2>2
  <1>4. LatestIsQueued'
    <2> SUFFICES ASSUME faults' <= MaxRetries, synced # revision
                 PROVE  \E u \in Task : Active(task'[u]) /\ task'[u].rev = revision
      BY DEF LatestIsQueued, Active
    <2>1. PICK u \in Task : Active(task[u]) /\ task[u].rev = revision
      BY <1>2 DEF LatestInv, LatestIsQueued
    <2>2. CASE u = t BY <2>1, <2>2
    <2>3. CASE u # t BY <2>1, <2>3
    <2> QED BY <2>2, <2>3
  <1> QED BY <1>3, <1>4 DEF LatestInv

\* So does the row that takes the place of a task in _retry.
LEMMA LatestRetry ==
  ASSUME SearchInv, LatestInv, NEW t \in Task, NEW u \in Task, retry(t, u), Active(task[t]),
         UNCHANGED <<userVars, faults>>
  PROVE  LatestInv'
  <1>1. /\ t # u /\ task[t] \in TaskRow
        /\ task'[t] = Returned(task[t])
        /\ task'[u] = Queued(task[t].rev, FALSE, 0)
        /\ \A w \in Task \ {t, u} : task'[w] = task[w]
    BY DEF retry, Active, SearchInv, TasksInv, TypeOK
  <1>2. /\ task'[t].pc = "returned" /\ task'[t].rev = task[t].rev /\ task'[t].retries = task[t].retries
        /\ task'[u].pc = "pending" /\ task'[u].rev = task[t].rev /\ task'[u].retries = 0
    BY <1>1 DEF Returned, Queued
  <1>3. faults \in Nat
    BY DEF SearchInv, TasksInv, TypeOK
  <1>4. PresentInv'
    <2> SUFFICES ASSUME NEW w \in Task, task'[w].rev = revision, synced # revision
                 PROVE  /\ task'[w].pc \in InHandle => syncing = revision
                        /\ task'[w].pc # "free" => task'[w].retries <= faults
      BY DEF PresentInv, userVars
    <2>1. CASE w = t BY <1>2, <2>1 DEF LatestInv, PresentInv, InHandle, Active
    <2>2. CASE w = u BY <1>2, <1>3, <2>2 DEF InHandle
    <2>3. CASE w \notin {t, u} BY <1>1, <2>3 DEF LatestInv, PresentInv
    <2> QED BY <2>1, <2>2, <2>3
  <1>5. LatestIsQueued'
    <2> SUFFICES ASSUME faults <= MaxRetries, synced # revision
                 PROVE  \E w \in Task : Active(task'[w]) /\ task'[w].rev = revision
      BY DEF LatestIsQueued, Active, userVars
    <2>1. PICK w \in Task : Active(task[w]) /\ task[w].rev = revision
      BY DEF LatestInv, LatestIsQueued
    <2>2. task[u].pc = "free"
      BY DEF retry
    <2>3. CASE w = t BY <1>2, <2>1, <2>3 DEF Active
    <2>4. CASE w # t BY <1>1, <2>1, <2>2, <2>4 DEF Active
    <2> QED BY <2>3, <2>4
  <1> QED BY <1>4, <1>5 DEF LatestInv

\* A new revision comes with its task, and with nobody in handle for it.
LEMMA LatestSchedule ==
  ASSUME SearchInv, LatestInv, NEW t \in Task, NEW s \in BOOLEAN, schedule(t, s), UNCHANGED faults
  PROVE  LatestInv'
  <1>1. /\ task'[t] = Queued(NextRevision, s, 0) /\ revision' = NextRevision
        /\ \A u \in Task \ {t} : task'[u] = task[u] /\ task[u] \in TaskRow /\ RowInv(task[u])
    BY DEF schedule, SearchInv, TasksInv, TypeOK
  <1>2. faults \in Nat /\ revision \in Nat /\ NextRevision \in Nat /\ revision < NextRevision
    BY DEF NextRevision, SearchInv, TasksInv, TypeOK
  <1>3. \A u \in Task \ {t} : task'[u].rev # revision'
    BY <1>1, <1>2 DEF RowInv, TaskRow
  <1>4. task'[t].pc = "pending" /\ task'[t].rev = revision' /\ task'[t].retries = 0
    BY <1>1 DEF Queued
  <1>5. PresentInv'
    BY <1>2, <1>3, <1>4, schedule(t, s) DEF PresentInv, InHandle
  <1> QED BY <1>4, <1>5 DEF LatestInv, LatestIsQueued, Active

\* A charge of a task that knows the present documents names one of them.
LEMMA PresentChargesHold ==
  ASSUME SearchInv, NEW t \in Task, task[t].docs = docs
  PROVE  \A f \in task[t].charges : DocsOf(t, f) \subseteq Live(docs)
  BY ConstantsAssumption DEF SearchInv, TasksInv, TypeOK, TaskRow, DocsOf, Live

\* The worker, Kazna and every fault keep it.
LEMMA LatestTask ==
  ASSUME SearchInv, LatestInv, NEW t \in Task, Process(t) \/ Search(t) \/ Fault(t)
  PROVE  LatestInv'
  <1>0. /\ task \in [Task -> TaskRow] /\ task[t] \in TaskRow /\ RowInv(task[t])
        /\ faults \in Nat /\ revision \in Nat /\ synced \in Nat /\ synced <= revision
        /\ task[t].retries \in Nat /\ MaxRetries \in Nat
    BY ConstantsAssumption DEF SearchInv, TasksInv, TypeOK, RevisionsOrdered, TaskRow
  <1>p. synced # revision /\ task[t].rev = revision =>
          /\ task[t].pc \in InHandle => syncing = revision
          /\ task[t].pc # "free" => task[t].retries <= faults
    BY DEF LatestInv, PresentInv
  <1> USE DEF userVars
  \* A step within handle keeps the revision of the task.
  <1>h. ASSUME \A u \in Task \ {t} : task'[u] = task[u],
               task[t].pc \in InHandle, task'[t].pc \in InHandle,
               task'[t].rev = task[t].rev, task'[t].retries = task[t].retries,
               UNCHANGED <<revision, synced, syncing, faults>>
        PROVE  LatestInv'
    BY <1>0, <1>p, <1>h, LatestRow DEF Active, InHandle
  <1>1. CASE DropObsolete(t)
    <2>1. /\ task[t].rev # revision /\ (syncing = revision => syncing' = revision)
          /\ UNCHANGED <<revision, synced, faults>>
      BY <1>1 DEF DropObsolete, IsObsolete, Released
    <2>2. /\ task'[t].rev = task[t].rev
          /\ \A u \in Task \ {t} : task'[u] = task[u]
      BY <1>0, <1>1 DEF DropObsolete, Returned, Queued
    <2> QED BY <1>0, <2>1, <2>2, LatestRow
  <1>2. CASE \E u \in Task : WaitForPrevious(t, u)
    BY <1>2, LatestRetry DEF WaitForPrevious, Active
  <1>3. CASE AcquireUser(t)
    <2>1. /\ task[t].rev = revision /\ syncing' = revision /\ task[t].pc = "pending"
          /\ UNCHANGED <<revision, synced, faults>>
      BY <1>3 DEF AcquireUser, IsObsolete
    <2>2. /\ task'[t].pc = "acquired" /\ task'[t].rev = task[t].rev
          /\ task'[t].retries = task[t].retries
          /\ \A u \in Task \ {t} : task'[u] = task[u]
      BY <1>0, <1>3 DEF AcquireUser, TaskRow
    <2> QED BY <1>0, <1>p, <2>1, <2>2, LatestRow DEF Active
  <1>4. CASE ReadDocuments(t)
    <2>1. /\ task'[t].pc \in InHandle /\ task'[t].rev = task[t].rev
          /\ task'[t].retries = task[t].retries
          /\ \A u \in Task \ {t} : task'[u] = task[u]
      BY <1>0, <1>4 DEF ReadDocuments, TaskRow, SearchOrSave, InHandle
    <2> QED BY <1>4, <1>h, <2>1 DEF ReadDocuments, InHandle
  <1>5. CASE GetSubscription(t)
    <2>1. /\ task'[t].pc \in InHandle /\ task'[t].rev = task[t].rev
          /\ task'[t].retries = task[t].retries
          /\ \A u \in Task \ {t} : task'[u] = task[u]
      BY <1>0, <1>5 DEF GetSubscription, TaskRow, SearchOrSave, InHandle
    <2> QED BY <1>5, <1>h, <2>1 DEF GetSubscription, InHandle
  <1>6. CASE Unsubscribe(t)
    <2>1. /\ task'[t].pc \in InHandle /\ task'[t].rev = task[t].rev
          /\ task'[t].retries = task[t].retries
          /\ \A u \in Task \ {t} : task'[u] = task[u]
      BY <1>0, <1>6 DEF Unsubscribe, TaskRow, SearchOrSave, InHandle
    <2> QED BY <1>6, <1>h, <2>1 DEF Unsubscribe, InHandle
  \* A search that has been superseded may be saved: then nobody is in handle for
  \* the present revision, since the user is acquired by the old one.
  <1>7. CASE Complete(t)
    <2>1. /\ task[t].pc = "saving" /\ syncing = task[t].rev /\ synced' = task[t].rev
          /\ task'[t].rev = task[t].rev /\ UNCHANGED <<revision, faults>>
          /\ \A u \in Task \ {t} : task'[u] = task[u]
      BY <1>0, <1>7 DEF Complete, StillAcquired, SavedRevision, Returned, Queued
    <2>2. CASE task[t].rev = revision
      BY <2>1, <2>2 DEF LatestInv, PresentInv, LatestIsQueued
    <2>3. CASE task[t].rev # revision
      <3>1. synced # revision
        <4>1. task[t].rev > 0 /\ task[t].rev <= revision /\ task[t].rev \in Nat
          BY <1>0, <2>1 DEF RowInv, TaskRow
        <4>2. synced <= task[t].rev
          BY <2>1, <4>1 DEF SearchInv, TasksInv, RevisionsOrdered, None
        <4> QED BY <1>0, <2>3, <4>1, <4>2
      <3>2. PresentInv'
        <4> SUFFICES ASSUME NEW u \in Task, task'[u].rev = revision
                     PROVE  /\ task'[u].pc \notin InHandle
                            /\ task'[u].pc # "free" => task'[u].retries <= faults
          BY <2>1 DEF PresentInv
        <4>1. task'[u] = task[u]
          BY <2>1, <2>3
        <4> QED BY <2>1, <2>3, <3>1, <4>1 DEF LatestInv, PresentInv
      <3>3. LatestIsQueued'
        BY <2>1, <2>3, <3>1 DEF LatestInv, LatestIsQueued, Active
      <3> QED BY <3>2, <3>3 DEF LatestInv
    <2> QED BY <2>2, <2>3
  \* Only a task that is superseded, or whose revision another has synced, can fail so.
  <1>8. CASE CompleteRaises(t)
    <2>1. ~(synced # revision /\ task[t].rev = revision)
      <3> SUFFICES ASSUME synced # revision, task[t].rev = revision PROVE FALSE
        OBVIOUS
      <3>1. task[t].pc = "saving" /\ syncing = revision
        BY <1>8, <1>p DEF CompleteRaises, InHandle
      <3>2. task[t].docs = docs
        BY <1>0, <3>1 DEF RowInv, InHandle
      <3> QED BY <1>8, <3>1, <3>2, PresentChargesHold DEF CompleteRaises, StillAcquired
    <2>2. /\ task'[t] = Free \/ task'[t].rev = task[t].rev
          /\ \A u \in Task \ {t} : task'[u] = task[u]
          /\ UNCHANGED <<revision, synced, syncing, faults>>
      BY <1>0, <1>8 DEF CompleteRaises, fail, Queued
    <2>3. ~(synced # revision /\ task'[t].rev = revision)
      BY <1>0, <2>1, <2>2, FreeRow DEF None
    <2> QED BY <1>0, <2>1, <2>2, <2>3, LatestRow
  <1>9. CASE Finish(t)
    <2>1. /\ task[t].pc = "returned" /\ task'[t] = Free
          /\ \A u \in Task \ {t} : task'[u] = task[u]
          /\ UNCHANGED <<revision, synced, syncing, faults>>
      BY <1>0, <1>9 DEF Finish
    <2>2. ~Active(task[t]) /\ task'[t].pc = "free"
      BY <2>1, FreeRow DEF Active
    <2> QED BY <1>0, <2>1, <2>2, LatestRow DEF InHandle
  <1>10. CASE \E charges \in SUBSET Fine : SearchComplete(t, charges)
    <2> PICK charges \in SUBSET Fine : SearchComplete(t, charges) BY <1>10
    <2>1. /\ task'[t].pc \in InHandle /\ task'[t].rev = task[t].rev
          /\ task'[t].retries = task[t].retries
          /\ \A u \in Task \ {t} : task'[u] = task[u]
      BY <1>0 DEF SearchComplete, TaskRow, InHandle
    <2> QED BY <1>h, <2>1 DEF SearchComplete, InHandle
  <1>11. CASE \E u \in Task : SearchPart(t, u)
    BY <1>11, LatestRetry DEF SearchPart, Active
  <1>12. CASE Raise(t)
    <2>1. /\ task[t].pc # "free" /\ Active(task[t]) /\ faults' = faults + 1
          /\ UNCHANGED <<revision, synced, syncing>>
          /\ \A u \in Task \ {t} : task'[u] = task[u]
      BY <1>0, <1>12 DEF Raise, InHandle, fail, Active
    <2>2. CASE task[t].retries < MaxRetries
      <3>1. /\ task'[t].pc = "pending" /\ task'[t].rev = task[t].rev
            /\ task'[t].retries = task[t].retries + 1
        BY <1>0, <1>12, <2>2 DEF Raise, fail, Queued
      <3> QED BY <1>0, <1>p, <2>1, <3>1, LatestRow DEF InHandle, Active
    <2>3. CASE ~(task[t].retries < MaxRetries)
      <3>1. task'[t] = Free
        BY <1>0, <1>12, <2>3 DEF Raise, fail
      <3>2. ~(faults' <= MaxRetries /\ synced # revision /\ task[t].rev = revision)
        BY <1>0, <1>p, <2>1, <2>3
      <3>3. task'[t].pc = "free"
        BY <3>1, FreeRow
      <3> QED BY <1>0, <2>1, <3>2, <3>3, LatestRow DEF InHandle
    <2> QED BY <2>2, <2>3
  <1>13. CASE Die(t)
    <2>1. /\ task[t].pc # "free" /\ faults' = faults + 1
          /\ UNCHANGED <<revision, synced, syncing>>
          /\ \A u \in Task \ {t} : task'[u] = task[u]
          /\ task'[t].pc = "pending" /\ task'[t].rev = task[t].rev
          /\ task'[t].retries = task[t].retries
      BY <1>0, <1>13 DEF Die, InHandle, Queued
    <2> QED BY <1>0, <1>p, <2>1, LatestRow DEF InHandle, Active
  <1> QED BY <1>1, <1>2, <1>3, <1>4, <1>5, <1>6, <1>7, <1>8, <1>9, <1>10, <1>11, <1>12, <1>13
          DEF Process, Search, Fault

\* Until the latest revision is synced a task for it is queued or in work: tasks
\* are dropped, replaced and repeated, but never the last one, whoever dies, as long
\* as there are not enough faults for a task to use up its retries.
THEOREM LatestIsQueuedCorrect == Spec => []LatestIsQueued
  <1>1. Init => LatestInv
    BY FreeRow DEF Init, LatestInv, PresentInv, LatestIsQueued
  <1>2. SearchInv /\ LatestInv /\ [Next]_vars => LatestInv'
    <2> SUFFICES ASSUME SearchInv, LatestInv, [Next]_vars PROVE LatestInv' OBVIOUS
    <2>1. CASE \E t \in Task : Process(t) \/ Search(t) \/ Fault(t)
      BY <2>1, LatestTask
    <2>2. CASE Api
      <3>1. CASE UNCHANGED <<task, userVars, faults>>
        BY <3>1 DEF LatestInv, PresentInv, LatestIsQueued, userVars
      <3>2. CASE UNCHANGED faults /\ \E t \in Task, s \in BOOLEAN : schedule(t, s)
        BY <3>2, LatestSchedule
      <3> QED BY <2>2, <3>1, <3>2 DEF Api, CheckDocumentsLimit, CheckSynced, CreateDocument,
                 UpdateDocument, DeleteDocument, ForceSearch, PayBill
    <2>3. CASE UNCHANGED vars
      BY <2>3 DEF vars, LatestInv, PresentInv, LatestIsQueued
    <2> QED BY <2>1, <2>2, <2>3 DEF Next
  <1>3. LatestInv => LatestIsQueued
    BY DEF LatestInv
  <1> QED BY <1>1, <1>2, <1>3, SearchInvariant, PTL DEF Spec

-----------------------------------------------------------------------------
(* The user is never left acquired by nobody.                              *)

AliveInv == RetriesInv /\ HolderIsAlive

\* A step that replaces the row of one task keeps the holder alive if the task is
\* the one that holds the user after it, or neither takes the user nor held it.
LEMMA AliveRow ==
  ASSUME SearchInv, AliveInv, NEW t \in Task,
         \A u \in Task \ {t} : task'[u] = task[u], UNCHANGED revision,
         faults' \in Nat, faults <= faults',
         task'[t].pc \in InHandle => task'[t].retries <= faults',
         task'[t].pc = "pending" =>
           task'[t].retries <= IF task'[t].rev = revision THEN faults' ELSE faults' + 1,
         faults' < MaxRetries /\ syncing' # None =>
           \/ Active(task'[t]) /\ task'[t].rev = syncing'
           \/ syncing' = syncing /\ ~(Active(task[t]) /\ task[t].rev = syncing)
  PROVE  AliveInv'
  <1>1. \A u \in Task : task[u].retries \in Nat
    BY DEF SearchInv, TasksInv, TypeOK, TaskRow
  <1>2. faults \in Nat /\ MaxRetries \in Nat
    BY ConstantsAssumption DEF SearchInv, TasksInv, TypeOK
  <1>3. RetriesInv'
    <2> SUFFICES ASSUME NEW u \in Task
                 PROVE  /\ task'[u].pc \in InHandle => task'[u].retries <= faults'
                        /\ task'[u].pc = "pending" =>
                             task'[u].retries <= IF task'[u].rev = revision THEN faults' ELSE faults' + 1
      BY DEF RetriesInv
    <2>1. CASE u = t BY <2>1
    <2>2. CASE u # t
      <3>1. task'[u] = task[u] /\ task[u].retries \in Nat
        BY <1>1, <2>2
      <3>2. /\ task[u].pc \in InHandle => task[u].retries <= faults
            /\ task[u].pc = "pending" =>
                 task[u].retries <= IF task[u].rev = revision THEN faults ELSE faults + 1
        BY DEF AliveInv, RetriesInv
      <3> QED BY <1>2, <3>1, <3>2
    <2> QED BY <2>1, <2>2
  <1>4. HolderIsAlive'
    <2> SUFFICES ASSUME faults' < MaxRetries, syncing' # None
                 PROVE  \E u \in Task : Active(task'[u]) /\ task'[u].rev = syncing'
      BY DEF HolderIsAlive, Active
    <2>1. CASE Active(task'[t]) /\ task'[t].rev = syncing'
      BY <2>1
    <2>2. CASE syncing' = syncing /\ ~(Active(task[t]) /\ task[t].rev = syncing)
      <3>1. PICK u \in Task : Active(task[u]) /\ task[u].rev = syncing
        BY <1>2, <2>2 DEF AliveInv, HolderIsAlive
      <3> QED BY <2>2, <3>1
    <2> QED BY <2>1, <2>2
  <1> QED BY <1>3, <1>4 DEF AliveInv

\* So does the row that takes the place of a task in _retry.
LEMMA AliveRetry ==
  ASSUME SearchInv, AliveInv, NEW t \in Task, NEW u \in Task, retry(t, u), Active(task[t]),
         UNCHANGED <<userVars, faults>>
  PROVE  AliveInv'
  <1>1. /\ t # u /\ task[t] \in TaskRow /\ task[u].pc = "free"
        /\ task'[t] = Returned(task[t])
        /\ task'[u] = Queued(task[t].rev, FALSE, 0)
        /\ \A w \in Task \ {t, u} : task'[w] = task[w]
    BY DEF retry, Active, SearchInv, TasksInv, TypeOK
  <1>2. /\ task'[t].pc = "returned"
        /\ task'[u].pc = "pending" /\ task'[u].rev = task[t].rev /\ task'[u].retries = 0
    BY <1>1 DEF Returned, Queued
  <1>3. faults \in Nat
    BY DEF SearchInv, TasksInv, TypeOK
  <1>4. RetriesInv'
    <2> SUFFICES ASSUME NEW w \in Task
                 PROVE  /\ task'[w].pc \in InHandle => task'[w].retries <= faults
                        /\ task'[w].pc = "pending" =>
                             task'[w].retries <= IF task'[w].rev = revision THEN faults ELSE faults + 1
      BY DEF RetriesInv, userVars
    <2>1. CASE w = t BY <1>2, <2>1 DEF InHandle
    <2>2. CASE w = u BY <1>2, <1>3, <2>2 DEF InHandle
    <2>3. CASE w \notin {t, u} BY <1>1, <2>3 DEF AliveInv, RetriesInv
    <2> QED BY <2>1, <2>2, <2>3
  <1>5. HolderIsAlive'
    <2> SUFFICES ASSUME faults < MaxRetries, syncing # None
                 PROVE  \E w \in Task : Active(task'[w]) /\ task'[w].rev = syncing
      BY DEF HolderIsAlive, Active, userVars
    <2>1. PICK w \in Task : Active(task[w]) /\ task[w].rev = syncing
      BY DEF AliveInv, HolderIsAlive
    <2>2. CASE w = t BY <1>2, <2>1, <2>2 DEF Active
    <2>3. CASE w # t BY <1>1, <2>1, <2>3 DEF Active
    <2> QED BY <2>2, <2>3
  <1> QED BY <1>4, <1>5 DEF AliveInv

\* Scheduling takes a free row, and changes no other.
LEMMA AliveSchedule ==
  ASSUME SearchInv, AliveInv, NEW t \in Task, NEW s \in BOOLEAN, schedule(t, s), UNCHANGED faults
  PROVE  AliveInv'
  <1>1. /\ task'[t].pc = "pending" /\ task'[t].retries = 0 /\ task[t].pc = "free"
        /\ \A u \in Task \ {t} : task'[u] = task[u]
        /\ syncing' = syncing
    BY DEF schedule, SearchInv, TasksInv, TypeOK, Queued
  <1>2. faults \in Nat /\ \A u \in Task : task[u].retries \in Nat
    BY DEF SearchInv, TasksInv, TypeOK, TaskRow
  <1>3. RetriesInv'
    <2> SUFFICES ASSUME NEW u \in Task
                 PROVE  /\ task'[u].pc \in InHandle => task'[u].retries <= faults
                        /\ task'[u].pc = "pending" =>
                             task'[u].retries <= IF task'[u].rev = revision' THEN faults ELSE faults + 1
      BY DEF RetriesInv
    <2>1. CASE u = t BY <1>1, <1>2, <2>1 DEF InHandle
    <2>2. CASE u # t
      <3>1. task'[u] = task[u] /\ (task[u].pc = "pending" => task[u].rev # revision')
        <4>1. task'[u] = task[u] /\ RowInv(task[u]) /\ task[u] \in TaskRow
          BY <1>1, <2>2 DEF SearchInv, TasksInv, TypeOK
        <4>2. revision' = NextRevision /\ revision < NextRevision /\ revision \in Nat /\ NextRevision \in Nat
          BY DEF schedule, NextRevision, SearchInv, TasksInv, TypeOK
        <4> QED BY <4>1, <4>2 DEF RowInv, TaskRow
      <3>2. /\ task[u].pc \in InHandle => task[u].retries <= faults
            /\ task[u].pc = "pending" => task[u].retries <= faults + 1
        BY <1>2 DEF AliveInv, RetriesInv
      <3> QED BY <3>1, <3>2
    <2> QED BY <2>1, <2>2
  <1>4. HolderIsAlive'
    <2> SUFFICES ASSUME faults < MaxRetries, syncing # None
                 PROVE  \E u \in Task : Active(task'[u]) /\ task'[u].rev = syncing
      BY <1>1 DEF HolderIsAlive, Active
    <2>1. PICK u \in Task : Active(task[u]) /\ task[u].rev = syncing
      BY DEF AliveInv, HolderIsAlive
    <2>2. u # t
      BY <1>1, <2>1 DEF Active
    <2> QED BY <1>1, <2>1, <2>2
  <1> QED BY <1>3, <1>4 DEF AliveInv

\* The worker, Kazna and every fault keep the holder alive: by HolderInv a task can
\* only fail in _complete after a deletion has made it obsolete.
LEMMA AliveTask ==
  ASSUME ~FinishMayFail, SearchInv, HolderInv, AliveInv,
         NEW t \in Task, Process(t) \/ Search(t) \/ Fault(t)
  PROVE  AliveInv'
  <1>0. /\ task \in [Task -> TaskRow] /\ task[t] \in TaskRow /\ RowInv(task[t])
        /\ faults \in Nat /\ revision \in Nat
        /\ task[t].retries \in Nat /\ MaxRetries \in Nat
    BY ConstantsAssumption DEF SearchInv, TasksInv, TypeOK, TaskRow
  <1>p. /\ task[t].pc \in InHandle => task[t].retries <= faults
        /\ task[t].pc = "pending" =>
             task[t].retries <= IF task[t].rev = revision THEN faults ELSE faults + 1
    BY DEF AliveInv, RetriesInv
  <1> USE DEF userVars
  \* A step within handle keeps the revision of the task.
  <1>h. ASSUME \A u \in Task \ {t} : task'[u] = task[u],
               task[t].pc \in InHandle, task'[t].pc \in InHandle,
               task'[t].rev = task[t].rev, task'[t].retries = task[t].retries,
               UNCHANGED <<revision, syncing, faults>>
        PROVE  AliveInv'
    BY <1>0, <1>p, <1>h, AliveRow DEF Active, InHandle
  <1>1. CASE DropObsolete(t)
    <2>1. /\ syncing' = (IF syncing = task[t].rev THEN None ELSE syncing)
          /\ UNCHANGED <<revision, faults>>
      BY <1>1 DEF DropObsolete, Released
    <2>2. /\ task'[t].pc = "returned"
          /\ \A u \in Task \ {t} : task'[u] = task[u]
      BY <1>0, <1>1 DEF DropObsolete, Returned, Queued
    <2> QED BY <1>0, <2>1, <2>2, AliveRow DEF InHandle
  <1>2. CASE \E u \in Task : WaitForPrevious(t, u)
    BY <1>2, AliveRetry DEF WaitForPrevious, Active
  <1>3. CASE AcquireUser(t)
    <2>1. /\ task[t].rev = revision /\ syncing' = task[t].rev /\ task[t].pc = "pending"
          /\ UNCHANGED <<revision, faults>>
      BY <1>3 DEF AcquireUser, IsObsolete
    <2>2. /\ task'[t].pc = "acquired" /\ task'[t].rev = task[t].rev
          /\ task'[t].retries = task[t].retries
          /\ \A u \in Task \ {t} : task'[u] = task[u]
      BY <1>0, <1>3 DEF AcquireUser, TaskRow
    <2> QED BY <1>0, <1>p, <2>1, <2>2, AliveRow DEF Active
  <1>4. CASE ReadDocuments(t)
    <2>1. /\ task'[t].pc \in InHandle /\ task'[t].rev = task[t].rev
          /\ task'[t].retries = task[t].retries
          /\ \A u \in Task \ {t} : task'[u] = task[u]
      BY <1>0, <1>4 DEF ReadDocuments, TaskRow, SearchOrSave, InHandle
    <2> QED BY <1>4, <1>h, <2>1 DEF ReadDocuments, InHandle
  <1>5. CASE GetSubscription(t)
    <2>1. /\ task'[t].pc \in InHandle /\ task'[t].rev = task[t].rev
          /\ task'[t].retries = task[t].retries
          /\ \A u \in Task \ {t} : task'[u] = task[u]
      BY <1>0, <1>5 DEF GetSubscription, TaskRow, SearchOrSave, InHandle
    <2> QED BY <1>5, <1>h, <2>1 DEF GetSubscription, InHandle
  <1>6. CASE Unsubscribe(t)
    <2>1. /\ task'[t].pc \in InHandle /\ task'[t].rev = task[t].rev
          /\ task'[t].retries = task[t].retries
          /\ \A u \in Task \ {t} : task'[u] = task[u]
      BY <1>0, <1>6 DEF Unsubscribe, TaskRow, SearchOrSave, InHandle
    <2> QED BY <1>6, <1>h, <2>1 DEF Unsubscribe, InHandle
  <1>7. CASE Complete(t)
    <2>1. /\ syncing' = None /\ task'[t].pc = "returned" /\ UNCHANGED <<revision, faults>>
          /\ \A u \in Task \ {t} : task'[u] = task[u]
      BY <1>0, <1>7 DEF Complete, Returned, Queued
    <2> QED BY <1>0, <2>1, AliveRow DEF InHandle
  <1>8. CASE CompleteRaises(t)
    <2>1. task[t].pc = "saving" /\ syncing = task[t].rev /\ UNCHANGED <<revision, syncing, faults>>
      BY <1>8 DEF CompleteRaises, HolderInv, InHandle
    <2>2. task[t].rev # revision
      <3> SUFFICES ASSUME task[t].rev = revision PROVE FALSE
        OBVIOUS
      <3>1. task[t].docs = docs
        BY <1>0, <2>1 DEF RowInv, InHandle
      <3> QED BY <1>8, <2>1, <3>1, PresentChargesHold DEF CompleteRaises, StillAcquired
    <2>3. \A u \in Task \ {t} : task'[u] = task[u]
      BY <1>0, <1>8 DEF CompleteRaises, fail
    <2>4. CASE task[t].retries < MaxRetries
      <3>1. /\ task'[t].pc = "pending" /\ task'[t].rev = task[t].rev
            /\ task'[t].retries = task[t].retries + 1
        BY <1>0, <1>8, <2>4 DEF CompleteRaises, fail, Queued
      <3>2. task'[t].retries <= faults + 1
        BY <1>0, <1>p, <2>1, <3>1 DEF InHandle
      <3> QED BY <1>0, <2>1, <2>2, <2>3, <3>1, <3>2, AliveRow DEF InHandle, Active
    <2>5. CASE ~(task[t].retries < MaxRetries)
      <3>1. task'[t].pc = "free"
        BY <1>0, <1>8, <2>5, FreeRow DEF CompleteRaises, fail
      <3>2. ~(faults' < MaxRetries)
        BY <1>0, <1>p, <2>1, <2>5 DEF InHandle
      <3> QED BY <1>0, <2>1, <2>3, <3>1, <3>2, AliveRow DEF InHandle
    <2> QED BY <2>4, <2>5
  <1>9. CASE Finish(t)
    <2>1. /\ ~Active(task[t]) /\ task'[t].pc = "free"
          /\ \A u \in Task \ {t} : task'[u] = task[u]
          /\ UNCHANGED <<revision, syncing, faults>>
      BY <1>0, <1>9, FreeRow DEF Finish, Active
    <2> QED BY <1>0, <2>1, AliveRow DEF InHandle
  <1>10. CASE \E charges \in SUBSET Fine : SearchComplete(t, charges)
    <2> PICK charges \in SUBSET Fine : SearchComplete(t, charges) BY <1>10
    <2>1. /\ task'[t].pc \in InHandle /\ task'[t].rev = task[t].rev
          /\ task'[t].retries = task[t].retries
          /\ \A u \in Task \ {t} : task'[u] = task[u]
      BY <1>0 DEF SearchComplete, TaskRow, InHandle
    <2> QED BY <1>h, <2>1 DEF SearchComplete, InHandle
  <1>11. CASE \E u \in Task : SearchPart(t, u)
    BY <1>11, AliveRetry DEF SearchPart, Active
  <1>12. CASE Raise(t)
    <2>1. /\ task[t].pc \in InHandle \cup {"pending"} /\ Active(task[t]) /\ faults' = faults + 1
          /\ UNCHANGED <<revision, syncing>>
          /\ \A u \in Task \ {t} : task'[u] = task[u]
      BY <1>0, <1>12 DEF Raise, InHandle, fail, Active
    <2>2. task[t].retries <= IF task[t].rev = revision THEN faults ELSE faults + 1
      BY <1>0, <1>p, <2>1
    <2>3. CASE task[t].retries < MaxRetries
      <3>1. /\ task'[t].pc = "pending" /\ task'[t].rev = task[t].rev
            /\ task'[t].retries = task[t].retries + 1
        BY <1>0, <1>12, <2>3 DEF Raise, fail, Queued
      <3>2. task'[t].retries <= IF task'[t].rev = revision THEN faults' ELSE faults' + 1
        BY <1>0, <2>1, <2>2, <3>1
      <3> QED BY <1>0, <2>1, <3>1, <3>2, AliveRow DEF InHandle, Active
    <2>4. CASE ~(task[t].retries < MaxRetries)
      <3>1. task'[t].pc = "free"
        BY <1>0, <1>12, <2>4, FreeRow DEF Raise, fail
      <3>2. ~(faults' < MaxRetries)
        BY <1>0, <2>1, <2>2, <2>4
      <3> QED BY <1>0, <2>1, <3>1, <3>2, AliveRow DEF InHandle
    <2> QED BY <2>3, <2>4
  <1>13. CASE Die(t)
    <2>1. /\ task[t].pc \in InHandle /\ faults' = faults + 1
          /\ UNCHANGED <<revision, syncing>>
          /\ \A u \in Task \ {t} : task'[u] = task[u]
          /\ task'[t].pc = "pending" /\ task'[t].rev = task[t].rev
          /\ task'[t].retries = task[t].retries
      BY <1>0, <1>13 DEF Die, Queued
    <2>2. task'[t].retries <= faults'
      BY <1>0, <1>p, <2>1
    <2> QED BY <1>0, <2>1, <2>2, AliveRow DEF InHandle, Active
  <1> QED BY <1>1, <1>2, <1>3, <1>4, <1>5, <1>6, <1>7, <1>8, <1>9, <1>10, <1>11, <1>12, <1>13
          DEF Process, Search, Fault

\* syncing_revision is always that of a task that is queued or in work, which will
\* reset it: no later task waits for a holder that is gone.  The proviso is that no
\* worker dies between _retry and the finish of its row, and that fewer faults
\* have happened than a task has retries.
THEOREM HolderIsAliveCorrect ==
  ASSUME ~FinishMayFail
  PROVE  Spec => []HolderIsAlive
  <1>1. Init => AliveInv
    BY FreeRow DEF Init, AliveInv, RetriesInv, HolderIsAlive, InHandle, None
  <1>2. SearchInv /\ HolderInv /\ AliveInv /\ [Next]_vars => AliveInv'
    <2> SUFFICES ASSUME SearchInv, HolderInv, AliveInv, [Next]_vars PROVE AliveInv' OBVIOUS
    <2>1. CASE \E t \in Task : Process(t) \/ Search(t) \/ Fault(t)
      BY <2>1, AliveTask
    <2>2. CASE Api
      <3>1. CASE UNCHANGED <<task, userVars, faults>>
        BY <3>1 DEF AliveInv, RetriesInv, HolderIsAlive, userVars
      <3>2. CASE UNCHANGED faults /\ \E t \in Task, s \in BOOLEAN : schedule(t, s)
        BY <3>2, AliveSchedule
      <3> QED BY <2>2, <3>1, <3>2 DEF Api, CheckDocumentsLimit, CheckSynced, CreateDocument,
                 UpdateDocument, DeleteDocument, ForceSearch, PayBill
    <2>3. CASE UNCHANGED vars
      BY <2>3 DEF vars, AliveInv, RetriesInv, HolderIsAlive
    <2> QED BY <2>1, <2>2, <2>3 DEF Next
  <1>3. AliveInv => HolderIsAlive
    BY DEF AliveInv
  <1> QED BY <1>1, <1>2, <1>3, SearchInvariant, HolderInvariant, PTL DEF Spec

-----------------------------------------------------------------------------
(* BillSync implements BillBook.                                           *)

\* Whatever is written together with a new revision is a Change of the book.
LEMMA ScheduleIsChange ==
  ASSUME TasksInv, NEW t \in Task, NEW s \in BOOLEAN, schedule(t, s), docs' \in DocTable,
         Unpaid' \subseteq Unpaid, Paid' \subseteq Paid
  PROVE  Book!Change
  <1>1. UserState' = "syncing"
    BY DEF TasksInv, RevisionsOrdered, TypeOK, schedule, NextRevision, UserState
  <1>2. Values(docs)' \in SUBSET Value
    BY DEF Values, Live
  <1> QED BY <1>1, <1>2 DEF Book!Change

\* Requests of the API change the book or leave it as it is.
LEMMA ApiIsBook ==
  ASSUME TasksInv, TypeOK', Api
  PROVE  Book!Change \/ (\E f \in Fine : Book!Pay(f)) \/ UNCHANGED Book!bookVars
  <1>1. ASSUME UNCHANGED bills, NEW t \in Task, NEW s \in BOOLEAN, schedule(t, s)
        PROVE  Book!Change
    BY <1>1, ScheduleIsChange DEF TypeOK, Unpaid, Paid
  <1>2. CASE \E t \in Task, d \in DocId : DeleteDocument(d, t)
    <2> PICK t \in Task, d \in DocId : DeleteDocument(d, t) BY <1>2
    <2>1. Unpaid' \subseteq Unpaid /\ Paid' \subseteq Paid
      BY DEF DeleteDocument, Unpaid, Paid, NoBill
    <2>2. schedule(t, TRUE)
      BY DEF DeleteDocument
    <2> QED BY <2>1, <2>2, ScheduleIsChange DEF TypeOK
  <1>3. CASE \E f \in Fine : PayBill(f)
    <2> PICK f \in Fine : PayBill(f) BY <1>3
    <2>1. bills \in [Fine -> Bill]
      BY DEF TasksInv, TypeOK
    <2>2. /\ bills[f].status # "paid" /\ bills'[f].status = "paid"
          /\ \A g \in Fine \ {f} : bills'[g] = bills[g]
      BY <2>1 DEF PayBill, Bill
    <2>3. f \notin Paid /\ Paid' = Paid \cup {f} /\ Unpaid' = Unpaid \ {f}
      BY <2>2 DEF Paid, Unpaid
    <2>4. UNCHANGED <<UserState, Values(docs)>>
      BY DEF PayBill, userVars, UserState
    <2> QED BY <2>3, <2>4 DEF Book!Pay
  <1>4. CASE UNCHANGED <<revision, synced, docs, bills>>
    BY <1>4 DEF Book!bookVars, UserState, Unpaid, Paid
  <1> QED BY <1>1, <1>2, <1>3, <1>4
          DEF Api, CheckDocumentsLimit, CheckSynced, CreateDocument, UpdateDocument,
              ForceSearch, userVars

\* The commit of a search is a Refresh if its revision is the present one, and
\* a RefreshStale of a book that is syncing otherwise.
LEMMA CompleteIsBook ==
  ASSUME TasksInv, NEW t \in Task, Complete(t)
  PROVE  Book!CatchUp \/ Book!RefreshAgain \/ Book!RefreshStale
  <1>1. /\ task[t] \in TaskRow /\ RowInv(task[t]) /\ task[t].pc = "saving"
        /\ task[t].rev = syncing /\ synced' = task[t].rev
        /\ UNCHANGED <<revision, docs>>
    BY DEF Complete, StillAcquired, SavedRevision, TasksInv, TypeOK
  <1>2. task[t].rev > 0 /\ task[t].rev <= revision /\ synced <= task[t].rev
    BY <1>1 DEF RowInv, TasksInv, RevisionsOrdered, TypeOK, TaskRow, None
  <1>3. Paid' = Paid /\ Unpaid' = task[t].charges \ Paid
    BY SavedCharges DEF Complete
  <1>4. CASE task[t].rev = revision
    <2>1. task[t].docs = docs
      BY <1>1, <1>4 DEF RowInv, InHandle
    <2>2. task[t].charges \in SUBSET Book!ChargesOf(Values(docs))
      BY <1>1, <2>1 DEF RowInv, Charged, Book!ChargesOf
    <2>3. UserState' = "completed"
      BY <1>1, <1>2, <1>4 DEF UserState, TaskRow
    <2>4. UserState \in {"syncing", "completed"}
      BY <1>1, <1>2, <1>4 DEF UserState, TaskRow
    <2>5. Book!Refresh
      BY <1>1, <1>3, <2>2, <2>3 DEF Book!Refresh
    <2> QED BY <2>4, <2>5 DEF Book!CatchUp, Book!RefreshAgain
  <1>5. CASE task[t].rev # revision
    <2>1. UserState = "syncing" /\ UserState' = "syncing"
      BY <1>1, <1>2, <1>5 DEF UserState, TasksInv, TypeOK, TaskRow
    <2>2. task[t].charges \subseteq Fine
      BY <1>1 DEF TaskRow
    <2> QED BY <1>1, <1>3, <2>1, <2>2 DEF Book!RefreshStale
  <1> QED BY <1>4, <1>5

\* So each step of the search and the API is one of the book or leaves it as it is.
LEMMA NextIsBook ==
  ASSUME TasksInv, TypeOK', [Next]_vars
  PROVE  Book!Next \/ UNCHANGED Book!bookVars
  <1>1. CASE Api
    BY <1>1, ApiIsBook DEF Book!Next
  <1>2. CASE \E t \in Task : Complete(t)
    <2> PICK t \in Task : Complete(t) BY <1>2
    <2>1. Book!CatchUp \/ Book!RefreshAgain \/ Book!RefreshStale
      BY CompleteIsBook
    <2> QED BY <2>1 DEF Book!Next
  <1>3. CASE UNCHANGED <<revision, synced, docs, bills>>
    BY <1>3 DEF Book!bookVars, UserState, Unpaid, Paid
  <1> QED BY <1>1, <1>2, <1>3
       DEF Next, vars, userVars, Process, Search, Fault, DropObsolete, WaitForPrevious,
           AcquireUser, ReadDocuments, GetSubscription, Unsubscribe, CompleteRaises,
           Finish, SearchComplete, SearchPart, Raise, Die

LEMMA InitIsBook ==
  ASSUME Init PROVE Book!Init
  BY ConstantsAssumption
     DEF Init, Book!Init, UserState, NoDocs, Values, Live, Unpaid, Paid, NoBill

\* The refinement: what the user sees changes as BillBook says, whatever the
\* workers, the revisions and the faults are.
THEOREM BillSyncImplementsBook == Spec => ImplementsBook
  <1>1. SearchInv /\ TypeOK' /\ [Next]_vars => [Book!Next]_(Book!bookVars)
    BY NextIsBook DEF SearchInv
  <1> QED BY <1>1, InitIsBook, SearchInvariant, TypeCorrect, PTL DEF Spec, ImplementsBook, Book!Spec
=============================================================================
