------------------------------ MODULE BillSync ------------------------------
(***************************************************************************)
(* The search for fines of one user of bill_payments.                      *)
(*                                                                         *)
(* Every change of the user's documents increments users.revision and      *)
(* queues a SearchFinesAction task carrying that revision.  Workers take   *)
(* the tasks; a task first acquires the user (users.syncing_revision),     *)
(* then reads the documents, asks Kazna for the charges of those documents *)
(* and, in one transaction, stores the bills and sets                      *)
(* users.synced_revision.  The API shows the bills and calls them complete *)
(* when synced_revision = revision (GetUserStateAction).                   *)
(*                                                                         *)
(* One action is one database transaction or one call of Kazna.  Several   *)
(* tasks of the user may be processed at once by different workers, a      *)
(* worker may fail or die between any two steps, and the task is then      *)
(* processed again from the start.  No row and no task is shared by two    *)
(* users, so the state is that of one uid.                                 *)
(*                                                                         *)
(* An operator X_M is a mutant of X, what X would be with a plausible      *)
(* mistake: the properties below tell X from it.                           *)
(***************************************************************************)
EXTENDS Integers, FiniteSets

CONSTANTS
  Task,           \* rows of the task table; a finished row may be reused
  DocId,          \* document ids: uuid4, never used twice
  Value,          \* what a document says: its code and its value
  Fine,           \* charges of Kazna, by supplier_bill_id
  ChargedTo,      \* [Fine -> Value]: the document a fine is charged to
  NoDoc,          \* document_id of a row that does not exist
  Unborn,         \* a document that has not been created yet
  Deleted,        \* a document that has been deleted
  DocumentsLimit, \* settings.API_DOCUMENTS_LIMIT
  MaxRetries,     \* max_retries of a task: 10 in the code
  FinishMayFail,  \* may a worker die after handle returned and before the
                  \* task row is marked finished?
  MaxRevision,    \* bound: changes of the documents and forced searches
  MaxInFlight,    \* bound: API requests of one kind between check and write
  MaxFaults       \* bound: exceptions and deaths of workers

ASSUME ConstantsAssumption ==
  /\ ChargedTo \in [Fine -> Value]
  /\ NoDoc \notin DocId
  /\ Unborn \notin Value /\ Deleted \notin Value
  /\ DocumentsLimit \in Nat /\ MaxRetries \in Nat /\ MaxRevision \in Nat
  /\ MaxInFlight \in Nat /\ MaxFaults \in Nat
  /\ FinishMayFail \in BOOLEAN

VARIABLES
  revision,   \* users.revision; 0 while the user has no row
  synced,     \* users.synced_revision
  syncing,    \* users.syncing_revision; None is NULL
  docs,       \* the documents table
  bills,      \* the bills table, one row per (uid, supplier_bill_id)
  task,       \* the task table and, for a task in work, its worker's memory
  subscribed, \* Kazna: documents whose new charges it notifies about
  creating,   \* CreateDocumentActions that have passed the limit check
  forcing,    \* ForceSearchBillsActions that have seen synced = revision
  answered,   \* history: documents and charges of the last completed search
  faults      \* exceptions and deaths so far

userVars == <<revision, synced, syncing>>
apiVars  == <<creating, forcing>>
vars == <<revision, synced, syncing, docs, bills, task, subscribed,
          creating, forcing, answered, faults>>

None == 0

DocTable == [DocId -> Value \cup {Unborn, Deleted}]
NoDocs   == [d \in DocId |-> Unborn]

Live(table)   == {d \in DocId : table[d] \in Value}
Values(table) == {table[d] : d \in Live(table)}
Charged(vals) == {f \in Fine : ChargedTo[f] \in vals}

NoBill  == [status |-> "none", doc |-> NoDoc]
Bill    == [status : {"none", "new", "paid", "gone"}, doc : DocId \cup {NoDoc}]
Unpaid  == {f \in Fine : bills[f].status = "new"}
Paid    == {f \in Fine : bills[f].status = "paid"}

(***************************************************************************)
(* A task row and the memory of the worker that processes it.  pc is       *)
(*   "free"      finished, failed or never created: no worker takes it     *)
(*   "pending"   waiting in the table                                      *)
(*   "acquired"  _acquire_user has committed                               *)
(*   "listing"   get_subscription is being called                          *)
(*   "unsubscribing", "searching"  the other two calls of Kazna            *)
(*   "saving"    the charges are known, _complete has not committed        *)
(*   "returned"  handle is over, the row is not yet marked finished        *)
(***************************************************************************)
Pc == {"free", "pending", "acquired", "listing", "unsubscribing",
       "searching", "saving", "returned"}

InHandle == {"acquired", "listing", "unsubscribing", "searching", "saving"}
Calling  == {"listing", "unsubscribing", "searching"}

TaskRow == [pc : Pc, rev : Nat, sync : BOOLEAN, retries : Nat,
            docs : DocTable, stale : SUBSET Value, charges : SUBSET Fine]

Queued(r, s, n) ==
  [pc |-> "pending", rev |-> r, sync |-> s, retries |-> n,
   docs |-> NoDocs, stale |-> {}, charges |-> {}]

Free == [Queued(None, FALSE, 0) EXCEPT !.pc = "free"]

Returned(row) == [Queued(row.rev, row.sync, row.retries) EXCEPT !.pc = "returned"]

Init ==
  /\ revision = 0 /\ synced = 0 /\ syncing = None
  /\ docs = NoDocs
  /\ bills = [f \in Fine |-> NoBill]
  /\ task = [t \in Task |-> Free]
  /\ subscribed = {}
  /\ creating = 0 /\ forcing = 0
  /\ answered = [docs |-> NoDocs, charges |-> {}]
  /\ faults = 0

-----------------------------------------------------------------------------
(* The API.  schedule runs in the transaction of its caller.               *)

\* A user is created with revision 1 by the same transaction.
NextRevision == IF revision = 0 THEN 2 ELSE revision + 1

schedule(t, sync) ==
  /\ NextRevision <= MaxRevision
  /\ task[t].pc = "free"
  /\ revision' = NextRevision
  /\ task' = [task EXCEPT ![t] = Queued(NextRevision, sync, 0)]
  /\ UNCHANGED <<synced, syncing>>

BelowLimit == Cardinality(Live(docs)) < DocumentsLimit

\* EnsureUserAction and the limit check: nothing is locked until the insert,
\* except that creations of the same new user wait for each other.
CheckDocumentsLimit ==
  /\ creating < MaxInFlight
  /\ revision = 0 => creating = 0
  /\ BelowLimit
  /\ creating' = creating + 1
  /\ UNCHANGED <<userVars, docs, bills, task, subscribed, forcing, answered, faults>>

CreateDocument(d, v, t) ==
  /\ creating > 0
  /\ docs[d] = Unborn
  /\ docs' = [docs EXCEPT ![d] = v]
  /\ creating' = creating - 1
  /\ schedule(t, FALSE)
  /\ UNCHANGED <<bills, subscribed, forcing, answered, faults>>

UpdateDocument(d, v, t) ==
  /\ d \in Live(docs)
  /\ docs' = [docs EXCEPT ![d] = v]
  /\ schedule(t, TRUE)
  /\ UNCHANGED <<bills, subscribed, apiVars, answered, faults>>

\* bills.document_id is declared ON DELETE CASCADE.
DeleteDocument(d, t) ==
  /\ d \in Live(docs)
  /\ docs' = [docs EXCEPT ![d] = Deleted]
  /\ bills' = [f \in Fine |-> IF bills[f].doc = d THEN NoBill ELSE bills[f]]
  /\ schedule(t, TRUE)
  /\ UNCHANGED <<subscribed, apiVars, answered, faults>>

\* The row is read without a lock, so two requests may both see a synced user.
CheckSynced ==
  /\ forcing < MaxInFlight
  /\ revision > 0 /\ synced = revision
  /\ forcing' = forcing + 1
  /\ UNCHANGED <<userVars, docs, bills, task, subscribed, creating, answered, faults>>

ForceSearch(t) ==
  /\ forcing > 0
  /\ forcing' = forcing - 1
  /\ schedule(t, FALSE)
  /\ UNCHANGED <<docs, bills, subscribed, creating, answered, faults>>

\* UpdateTransactionStatusAction on an order with this bill: it sets the
\* status whatever it was.
PayBill(f) ==
  /\ bills[f].status \in {"new", "gone"}
  /\ bills' = [bills EXCEPT ![f].status = "paid"]
  /\ UNCHANGED <<userVars, docs, task, subscribed, apiVars, answered, faults>>

-----------------------------------------------------------------------------
(* SearchFinesAction.handle, step by step.                                 *)

IsObsolete(t) == task[t].rev # revision

IsHeldByOther_M(t) == FALSE

IsHeldByOther(t) == syncing # None /\ syncing # task[t].rev

\* What an obsolete task leaves in syncing_revision.
Released_M(t) == syncing

Released(t) == IF syncing = task[t].rev THEN None ELSE syncing

\* _acquire_user, one transaction under the lock of the users row: an
\* obsolete task cleans up after itself, ...
DropObsolete(t) ==
  /\ task[t].pc = "pending"
  /\ IsObsolete(t)
  /\ syncing' = Released(t)
  /\ task' = [task EXCEPT ![t] = Returned(@)]
  /\ UNCHANGED <<revision, synced, docs, bills, subscribed, apiVars, answered, faults>>

retry_M(t, u) ==
  /\ task[u].pc = "free"
  /\ task' = [task EXCEPT ![t] = Returned(@)]

\* _retry: a new row with the same revision; sync_subscription is not passed on.
retry(t, u) ==
  /\ task[u].pc = "free"
  /\ task' = [task EXCEPT ![t] = Returned(@), ![u] = Queued(task[t].rev, FALSE, 0)]

\* ... a task that finds another revision being synced comes back later, ...
WaitForPrevious(t, u) ==
  /\ task[t].pc = "pending"
  /\ ~IsObsolete(t)
  /\ IsHeldByOther(t)
  /\ retry(t, u)
  /\ UNCHANGED <<userVars, docs, bills, subscribed, apiVars, answered, faults>>

\* ... and any other acquires the user.
AcquireUser(t) ==
  /\ task[t].pc = "pending"
  /\ ~IsObsolete(t)
  /\ ~IsHeldByOther(t)
  /\ syncing' = task[t].rev
  /\ task' = [task EXCEPT ![t].pc = "acquired"]
  /\ UNCHANGED <<revision, synced, docs, bills, subscribed, apiVars, answered, faults>>

\* Without documents there is nothing to ask Kazna for.
SearchOrSave(table) == IF Live(table) = {} THEN "saving" ELSE "searching"

ReadDocuments(t) ==
  /\ task[t].pc = "acquired"
  /\ task' = [task EXCEPT ![t].docs = docs,
                          ![t].pc = IF task[t].sync THEN "listing"
                                                    ELSE SearchOrSave(docs)]
  /\ UNCHANGED <<userVars, docs, bills, subscribed, apiVars, answered, faults>>

\* _unsubscribe_if_needed asks for the list first ...
GetSubscription(t) ==
  LET stale == subscribed \ Values(task[t].docs)
  IN  /\ task[t].pc = "listing"
      /\ task' = [task EXCEPT ![t].stale = stale,
                              ![t].pc = IF stale = {} THEN SearchOrSave(task[t].docs)
                                                      ELSE "unsubscribing"]
      /\ UNCHANGED <<userVars, docs, bills, subscribed, apiVars, answered, faults>>

\* ... and removes what this task does not know.
Unsubscribe(t) ==
  /\ task[t].pc = "unsubscribing"
  /\ subscribed' = subscribed \ task[t].stale
  /\ task' = [task EXCEPT ![t].stale = {}, ![t].pc = SearchOrSave(task[t].docs)]
  /\ UNCHANGED <<userVars, docs, bills, apiVars, answered, faults>>

\* Kazna subscribes to the documents of every search.  The charges it knows
\* change all the time: a complete answer may be any set of charges of them.
SearchComplete(t, charges) ==
  /\ task[t].pc = "searching"
  /\ charges \subseteq Charged(Values(task[t].docs))
  /\ subscribed' = subscribed \cup Values(task[t].docs)
  /\ task' = [task EXCEPT ![t].charges = charges, ![t].pc = "saving"]
  /\ UNCHANGED <<userVars, docs, bills, apiVars, answered, faults>>

\* SearchStatus.PART: come back later, the user stays acquired.
SearchPart(t, u) ==
  /\ task[t].pc = "searching"
  /\ subscribed' = subscribed \cup Values(task[t].docs)
  /\ retry(t, u)
  /\ UNCHANGED <<userVars, docs, bills, apiVars, answered, faults>>

\* _find_document: a document of the ones this task read.
DocsOf(t, f) == {d \in DocId : task[t].docs[d] = ChargedTo[f]}

UpdatedKeepingMissing_M(bill, charged, d) ==
  IF bill.status = "paid" THEN bill
  ELSE IF charged THEN [status |-> "new", doc |-> d]
  ELSE bill

\* _update_existing_bill and the creation of new bills.
Updated(bill, charged, d) ==
  IF bill.status = "paid" THEN bill
  ELSE IF charged THEN [status |-> "new", doc |-> d]
  ELSE IF bill.status = "new" THEN [bill EXCEPT !.status = "gone"]
  ELSE bill

SaveCharges(t, docOf) ==
  bills' = [f \in Fine |-> Updated(bills[f], f \in task[t].charges, docOf[f])]

\* A row that is written must name a document that still exists.
ForeignKeysHold(t, docOf) ==
  \A f \in task[t].charges \ Paid : docOf[f] \in Live(docs)

\* update_synced_revision, which raises unless the user is still acquired by
\* this revision, and writes this revision, not the present one.
StillAcquired(t) == syncing = task[t].rev

SavedRevision_M(t) == revision

SavedRevision(t) == task[t].rev

\* _complete, one transaction.
Complete(t) ==
  /\ task[t].pc = "saving"
  /\ StillAcquired(t)
  /\ \E docOf \in [Fine -> DocId \cup {NoDoc}] :
       /\ \A f \in task[t].charges : docOf[f] \in DocsOf(t, f)
       /\ \A f \in Fine \ task[t].charges : docOf[f] = NoDoc
       /\ ForeignKeysHold(t, docOf)
       /\ SaveCharges(t, docOf)
  /\ synced' = SavedRevision(t)
  /\ syncing' = None
  /\ answered' = [docs |-> task[t].docs, charges |-> task[t].charges]
  /\ task' = [task EXCEPT ![t] = Returned(@)]
  /\ UNCHANGED <<revision, docs, subscribed, apiVars, faults>>

\* handle raised: the task is retried after a backoff, and FAILED for good
\* after max_retries attempts.
fail(t) ==
  task' = [task EXCEPT ![t] = IF @.retries < MaxRetries
                              THEN Queued(@.rev, @.sync, @.retries + 1)
                              ELSE Free]

\* _complete raises, and nothing of it is kept, when a document of a charge
\* has been deleted meanwhile or the user is not acquired by this revision.
CompleteRaises(t) ==
  /\ task[t].pc = "saving"
  /\ \/ ~StillAcquired(t)
     \/ \E f \in task[t].charges \ Paid : ~(DocsOf(t, f) \subseteq Live(docs))
  /\ fail(t)
  /\ UNCHANGED <<userVars, docs, bills, subscribed, apiVars, answered, faults>>

-----------------------------------------------------------------------------
(* The worker.                                                             *)

\* The row of a returned task is marked finished.
Finish(t) ==
  /\ task[t].pc = "returned"
  /\ task' = [task EXCEPT ![t] = Free]
  /\ UNCHANGED <<userVars, docs, bills, subscribed, apiVars, answered, faults>>

\* Any other exception: the database or Kazna is not available, a charge has
\* no amount (charge_to_bill asserts that it has one), ...
Raise(t) ==
  /\ task[t].pc \in InHandle \cup {"pending"}
  /\ faults < MaxFaults
  /\ faults' = faults + 1
  /\ fail(t)
  /\ UNCHANGED <<userVars, docs, bills, subscribed, apiVars, answered>>

\* The worker dies, or cannot mark the row: the task is taken again.
Die(t) ==
  /\ \/ task[t].pc \in InHandle
     \/ task[t].pc = "returned" /\ FinishMayFail
  /\ faults < MaxFaults
  /\ faults' = faults + 1
  /\ task' = [task EXCEPT ![t] = Queued(@.rev, @.sync, @.retries)]
  /\ UNCHANGED <<userVars, docs, bills, subscribed, apiVars, answered>>

-----------------------------------------------------------------------------
Api ==
  \/ CheckDocumentsLimit
  \/ CheckSynced
  \/ \E t \in Task :
       \/ \E d \in DocId, v \in Value : CreateDocument(d, v, t)
       \/ \E d \in DocId, v \in Value : UpdateDocument(d, v, t)
       \/ \E d \in DocId : DeleteDocument(d, t)
       \/ ForceSearch(t)
  \/ \E f \in Fine : PayBill(f)

\* What a worker does with the task it has taken, apart from asking Kazna.
Process(t) ==
  \/ DropObsolete(t)
  \/ \E u \in Task : WaitForPrevious(t, u)
  \/ AcquireUser(t)
  \/ ReadDocuments(t)
  \/ GetSubscription(t)
  \/ Unsubscribe(t)
  \/ Complete(t)
  \/ CompleteRaises(t)
  \/ Finish(t)

Search(t) ==
  \/ \E charges \in SUBSET Fine : SearchComplete(t, charges)
  \/ \E u \in Task : SearchPart(t, u)

Fault(t) == Raise(t) \/ Die(t)

Next == Api \/ \E t \in Task : Process(t) \/ Search(t) \/ Fault(t)

Spec == Init /\ [][Next]_vars

(***************************************************************************)
(* Workers take every task that is due, every call returns, and Kazna      *)
(* answers COMPLETE to a search that is repeated forever.  Nothing is      *)
(* assumed about users, and faults need not happen.                        *)
(***************************************************************************)
Fairness ==
  /\ \A t \in Task : WF_vars(Process(t)) /\ WF_vars(Search(t))
  /\ SF_vars(\E t \in Task, charges \in SUBSET Fine : SearchComplete(t, charges))

FairSpec == Spec /\ Fairness

-----------------------------------------------------------------------------
(* What the user sees: GetUserStateAction and GetBillsStateAction.         *)

UserState == IF revision = 0 THEN "unregistered"
             ELSE IF synced = revision THEN "completed" ELSE "syncing"

Book == INSTANCE BillBook WITH state <- UserState, wanted <- Values(docs),
                               listed <- Unpaid, paid <- Paid

-----------------------------------------------------------------------------
(* Properties.                                                             *)

TypeOK ==
  /\ revision \in Nat /\ synced \in Nat /\ syncing \in Nat
  /\ docs \in DocTable
  /\ bills \in [Fine -> Bill]
  /\ task \in [Task -> TaskRow]
  /\ subscribed \in SUBSET Value
  /\ creating \in Nat /\ forcing \in Nat
  /\ answered \in [docs : DocTable, charges : SUBSET Fine]
  /\ faults \in Nat

\* GetUserStateAction answers COMPLETED.
Completed == UserState = "completed"

\* COMPLETED is never shown for documents the stored bills do not belong to:
\* the last search that was saved was asked for exactly the present documents,
\* whatever happened between its read of the documents and its commit.
CompletedIsCurrent == Completed => answered.docs = docs

\* While the state is COMPLETED, the unpaid bills the API lists are exactly the
\* charges of the last saved answer that have not been paid, each stored under
\* a present document that it is charged to.
CompletedBillsAreExact ==
  Completed =>
    /\ Unpaid = answered.charges \ Paid
    /\ \A f \in Unpaid : docs[bills[f].doc] = ChargedTo[f]

\* The docstring of handle: at any moment at most one call of Kazna is made for
\* the uid, by the task whose revision is users.syncing_revision.
OneKaznaCall ==
  \A t \in Task : task[t].pc \in Calling =>
    /\ task[t].rev = syncing
    /\ \A u \in Task \ {t} : task[u].pc \notin Calling

\* Once COMPLETED, Kazna notifies about every present document: no task that
\* removes what it takes for stale subscriptions undoes the subscription made
\* by a later search.
CompletedIsSubscribed == Completed => Values(docs) \subseteq subscribed

\* A search never touches a paid bill, even if Kazna still charges it: only the
\* deletion of its document removes it.
PaidStaysPaid ==
  [][\A f \in Fine : bills[f].status = "paid" =>
       \/ bills'[f] = bills[f]
       \/ docs'[bills[f].doc] = Deleted]_vars

\* A bill always belongs to a document of the table.
BillsHaveDocuments ==
  \A f \in Fine : bills[f].status # "none" => bills[f].doc \in Live(docs)

\* synced_revision never decreases and never overtakes revision, although a
\* superseded search may still be saved.
SyncedMonotonic == [][synced <= synced' /\ synced' <= revision']_vars

\* What a row of the task table and its worker's memory satisfy: documents read
\* after the user was acquired are the present ones unless revision has moved on.
RowInv(row) ==
  /\ row.rev <= revision
  /\ row.pc # "free" => row.rev > 0
  /\ row.pc \in InHandle \ {"acquired"} /\ row.rev = revision => row.docs = docs
  /\ row.charges \subseteq Charged(Values(row.docs))
  /\ row.pc # "saving" => row.charges = {}

\* The revisions of the user are ordered: synced_revision, syncing_revision,
\* revision.
RevisionsOrdered ==
  /\ synced <= revision
  /\ syncing # None => synced <= syncing /\ syncing <= revision

\* What tasks remember and what is stored, apart from the charges: also true
\* when bills come from notifications.
TasksInv ==
  /\ TypeOK
  /\ RevisionsOrdered
  /\ \A t \in Task : RowInv(task[t])
  /\ BillsHaveDocuments
  /\ CompletedIsCurrent

\* The inductive invariant of the search, whatever workers do: no worker has to
\* be alone for the bills shown as complete to be the right ones.
SearchInv == TasksInv /\ CompletedBillsAreExact

\* No two rows that a worker has or may take carry the same revision, and
\* whoever is in handle holds the user.  True as long as no worker dies between
\* _retry and the finish of its own row.
Active(row) == row.pc \notin {"free", "returned"}

HolderInv ==
  \A t \in Task :
    /\ task[t].pc \in InHandle => task[t].rev = syncing
    /\ \A u \in Task \ {t} :
         Active(task[t]) /\ Active(task[u]) => task[t].rev # task[u].rev

\* No change of the documents is forgotten: until the present revision is synced,
\* a task that is to sync it is in the queue or in work, whatever tasks drop,
\* replace or repeat it, as long as too few fail for one to fail for good.
LatestIsQueued ==
  faults <= MaxRetries /\ synced # revision =>
    \E t \in Task : Active(task[t]) /\ task[t].rev = revision

\* The user is never left acquired by nobody, for whom all later tasks would wait:
\* whoever holds syncing_revision is still there to reset it, with the same proviso.
HolderIsAlive ==
  faults < MaxRetries /\ syncing # None =>
    \E t \in Task : Active(task[t]) /\ task[t].rev = syncing

\* Whoever is in handle for the present revision holds the user until it is
\* synced, and has only been retried for faults.
PresentInv ==
  \A t \in Task : task[t].rev = revision /\ synced # revision =>
    /\ task[t].pc \in InHandle => syncing = revision
    /\ task[t].pc # "free" => task[t].retries <= faults

\* A task in handle has only been retried for faults; one that has become
\* obsolete there may be retried once more, because a document was deleted.
RetriesInv ==
  \A t \in Task :
    /\ task[t].pc \in InHandle => task[t].retries <= faults
    /\ task[t].pc = "pending" =>
         task[t].retries <= IF task[t].rev = revision THEN faults ELSE faults + 1

\* What a task is about to store or to remove agrees with the subscription.
SubscriptionInv ==
  /\ CompletedIsSubscribed
  /\ \A t \in Task :
       /\ task[t].pc = "saving" => Values(task[t].docs) \subseteq subscribed
       /\ task[t].stale \cap Values(task[t].docs) = {}
       /\ task[t].pc # "unsubscribing" => task[t].stale = {}

\* BillSync implements BillBook: each step is one of the abstract book or
\* leaves what the user sees as it was.
ImplementsBook == Book!Spec

\* It does so with the abstract fairness, as long as no task fails for good.
ImplementsFairBook == Book!FairSpec
=============================================================================
