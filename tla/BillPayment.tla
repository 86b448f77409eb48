---------------------------- MODULE BillPayment ----------------------------
(***************************************************************************)
(* The payment of fines by one user of bill_payments.                      *)
(*                                                                         *)
(* CreateOrderAction groups bills into an order, CreateTransactionAction   *)
(* asks Kazna to charge the user for it, and UpdateTransactionStatusAction *)
(* records what has become of the payment: it runs for a notification of   *)
(* Kazna (webhook) and when somebody asks for the transaction while it is  *)
(* NEW (GetTransactionAction).                                             *)
(*                                                                         *)
(* Each of the two runs in one database transaction, but not in one step:  *)
(* CreateTransactionAction locks the order, then its transactions, then    *)
(* calls Kazna, then commits; UpdateTransactionStatusAction locks the      *)
(* transaction, then the order, then the bills of the order one by one.    *)
(* Rows of bills are locked by others too: the search that saves them, the *)
(* creation of orders and the deletion of documents.  What a request has   *)
(* written is invisible to the others until it commits.  Kazna tells about *)
(* a payment as often, as late and in whatever order it likes.             *)
(*                                                                         *)
(* An operator X_M is a mutant of X, what X would be with a plausible      *)
(* mistake: the properties below tell X from it.                           *)
(***************************************************************************)
EXTENDS Naturals

CONSTANTS
  Bill,       \* rows of the bills table
  Order,      \* order ids
  Tx,         \* transaction ids: uuid4, never used twice
  Creator,    \* workers of the API that create transactions
  Updater,    \* workers of the API that record the status of a payment
  Writer,     \* workers that save a search, create an order, delete a document
  NoBill,     \* no bill
  NoOrder,    \* order_id of a transaction that does not exist
  NoTx,       \* no transaction
  MaxFaults   \* bound: exceptions and deaths of workers

ASSUME PaymentAssumption ==
  NoBill \notin Bill /\ NoOrder \notin Order /\ NoTx \notin Tx /\ MaxFaults \in Nat

\* A worker has one task.
ASSUME WorkerAssumption ==
  Creator \cap Updater = {} /\ Creator \cap Writer = {} /\ Updater \cap Writer = {}

VARIABLES
  bills,    \* the bills table: the search decides between NEW and GONE
  orders,   \* the orders table
  items,    \* the bill_orders table
  status,   \* the transactions table: status ...
  orderOf,  \* ... and order_id
  payment,  \* Kazna: the payment whose order_id is this transaction's id
  told,     \* Kazna: the statuses it has sent notifications of
  request,  \* CreateTransactionActions
  update,   \* UpdateTransactionStatusActions
  write,    \* searches being saved, orders being created, documents being deleted
  locking,  \* the rows of bills each of the last two has locked and still wants
  faults    \* exceptions and deaths so far

txVars    == <<status, orderOf>>
orderVars == <<bills, orders, items>>
kaznaVars == <<payment, told>>
billLocks == <<write, locking>>
vars == <<bills, orders, items, status, orderOf, payment, told, request, update,
          write, locking, faults>>

\* Whoever locks rows of bills.
Locker == Updater \cup Writer

TxStatus == {"none", "new", "paid", "cancelled", "refunded"}
Code     == {"created", "auth", "cancel", "refunded"}

TxsOf(o) == {t \in Tx : orderOf[t] = o}

(***************************************************************************)
(* A CreateTransactionAction.  pc is                                       *)
(*   "order"   the order is locked                                         *)
(*   "paying"  its transactions are locked, those in cancel are to be      *)
(*             CANCELLED, Kazna is being called                            *)
(*   "paid"    Kazna has created the payment tx, nothing is committed yet  *)
(***************************************************************************)
NoRequest == [pc |-> "idle", order |-> NoOrder, cancel |-> {}, tx |-> NoTx]
Request   == [pc : {"idle", "order", "paying", "paid"}, order : Order \cup {NoOrder},
              cancel : SUBSET Tx, tx : Tx \cup {NoTx}]

(***************************************************************************)
(* An UpdateTransactionStatusAction.  pc is                                *)
(*   "update"  it is about to lock the transaction                         *)
(*   "order"   the transaction is locked and becomes PAID, the order is    *)
(*             about to be locked                                          *)
(*   "bills"   the order is locked, its bills are being locked             *)
(***************************************************************************)
NoUpdate == [pc |-> "idle", tx |-> NoTx, code |-> "created"]
Update   == [pc : {"idle", "update", "order", "bills"}, tx : Tx \cup {NoTx}, code : Code]

(***************************************************************************)
(* Another database transaction that locks rows of bills: a search that    *)
(* saves what Kazna has found, the creation of an order, whose foreign     *)
(* keys lock its bills, or the deletion of a document, which cascades.     *)
(***************************************************************************)
NoWrite == [kind |-> "idle", order |-> NoOrder]
Write   == [kind : {"idle", "search", "order", "delete"}, order : Order \cup {NoOrder}]

(***************************************************************************)
(* Rows of bills are locked one by one: bill is the row that is asked for  *)
(* next, left are those to come after it, in whatever order the database   *)
(* has found them.                                                         *)
(***************************************************************************)
NoLocks == [bill |-> NoBill, left |-> {}, locked |-> {}]
Locks   == [bill : Bill \cup {NoBill}, left : SUBSET Bill, locked : SUBSET Bill]

Init ==
  /\ bills = [b \in Bill |-> "unpaid"]
  /\ orders = [o \in Order |-> "none"]
  /\ items = [o \in Order |-> {}]
  /\ status = [t \in Tx |-> "none"]
  /\ orderOf = [t \in Tx |-> NoOrder]
  /\ payment = [t \in Tx |-> "none"]
  /\ told = [t \in Tx |-> {}]
  /\ request = [c \in Creator |-> NoRequest]
  /\ update = [u \in Updater |-> NoUpdate]
  /\ write = [w \in Writer |-> NoWrite]
  /\ locking = [x \in Locker |-> NoLocks]
  /\ faults = 0

-----------------------------------------------------------------------------
(* Row locks.                                                              *)

HoldsOrder(c, o) == request[c].pc # "idle" /\ request[c].order = o

HoldsTxs(c, o) == request[c].pc \in {"paying", "paid"} /\ request[c].order = o

HoldsTx(u, t) == update[u].pc \in {"order", "bills"} /\ update[u].tx = t

HoldsOrderToo(u, o) == update[u].pc = "bills" /\ orderOf[update[u].tx] = o

OrderIsFree(o) ==
  /\ \A c \in Creator : ~HoldsOrder(c, o)
  /\ \A u \in Updater : ~HoldsOrderToo(u, o)

\* The transactions are read without FOR UPDATE.
TxIsFree_M(t) == TRUE

\* The transactions are locked on a second connection, which waits for the first.
TxIsFreeElsewhere_M(t) ==
  /\ \A c \in Creator : ~HoldsOrder(c, orderOf[t])
  /\ \A u \in Updater : ~HoldsTx(u, t)

TxIsFree(t) ==
  /\ \A c \in Creator : ~HoldsTxs(c, orderOf[t])
  /\ \A u \in Updater : ~HoldsTx(u, t)

\* The locks of foreign keys are shared.
Shared(x, y) ==
  x \in Writer /\ y \in Writer /\ write[x].kind = "order" /\ write[y].kind = "order"

LocksAgainst(y, b, x) == y # x /\ b \in locking[y].locked /\ ~Shared(x, y)

BillIsFree(x, b) == \A y \in Locker : ~LocksAgainst(y, b, x)

StartLocking(x, bs) ==
  \E b \in bs :
    locking' = [locking EXCEPT ![x] = [bill |-> b, left |-> bs \ {b}, locked |-> {}]]

AskForNext(x, got) ==
  LET l == locking[x]
  IN  \/ /\ l.left = {}
         /\ locking' = [locking EXCEPT ![x] = [NoLocks EXCEPT !.locked = l.locked \cup got]]
      \/ \E b \in l.left :
           locking' = [locking EXCEPT ![x] =
             [bill |-> b, left |-> l.left \ {b}, locked |-> l.locked \cup got]]

Release(x) == locking' = [locking EXCEPT ![x] = NoLocks]

LockBill(x) ==
  LET b == locking[x].bill
  IN  /\ b # NoBill /\ bills[b] # "none"
      /\ BillIsFree(x, b)
      /\ AskForNext(x, {b})
      /\ UNCHANGED <<orderVars, txVars, kaznaVars, request, update, write, faults>>

\* The row has been deleted since the rows were listed.
IsGone(x) == locking[x].bill # NoBill /\ bills[locking[x].bill] = "none"

HasLocked(x) == locking[x].bill = NoBill
-----------------------------------------------------------------------------
(* Searches, orders, and the bills they are about.                         *)

Bills == {b \in Bill : bills[b] # "none"}

StartWrite(w, kind, o, bs) ==
  /\ write[w].kind = "idle"
  /\ write' = [write EXCEPT ![w] = [kind |-> kind, order |-> o]]
  /\ StartLocking(w, bs)
  /\ UNCHANGED <<orderVars, txVars, kaznaVars, request, update, faults>>

EndWrite(w) ==
  /\ write' = [write EXCEPT ![w] = NoWrite]
  /\ Release(w)

\* _save_charges reads all the bills of the user FOR UPDATE.
SaveSearch(w) == StartWrite(w, "search", NoOrder, Bills)

\* Only bills that exist are put into an order, whatever their status.
CreateOrder(w, o, bs) ==
  /\ orders[o] = "none" /\ \A v \in Writer : write[v].order # o
  /\ bs \subseteq Bills
  /\ StartWrite(w, "order", o, bs)

\* bs are the bills of the document.
DeleteDocument(w, bs) ==
  /\ bs \subseteq Bills
  /\ StartWrite(w, "delete", NoOrder, bs)

\* A search and a deletion go on without a row that is gone.
SkipBill(w) ==
  /\ write[w].kind \in {"search", "delete"} /\ IsGone(w)
  /\ AskForNext(w, {})
  /\ UNCHANGED <<orderVars, txVars, kaznaVars, request, update, write, faults>>

\* An order cannot be created with a bill that is gone.
BillNotFound(w) ==
  /\ write[w].kind = "order" /\ IsGone(w)
  /\ EndWrite(w)
  /\ UNCHANGED <<orderVars, txVars, kaznaVars, request, update, faults>>

\* Any exception, the death of the worker, or a deadlock over other rows.
WriteRaises(w) ==
  /\ write[w].kind # "idle"
  /\ EndWrite(w)
  /\ UNCHANGED <<orderVars, txVars, kaznaVars, request, update, faults>>

\* The search decides between NEW and GONE: neither is paid.
SearchSaved(w) ==
  /\ write[w].kind = "search" /\ HasLocked(w)
  /\ EndWrite(w)
  /\ UNCHANGED <<orderVars, txVars, kaznaVars, request, update, faults>>

OrderCreated(w) ==
  LET o == write[w].order
  IN  /\ write[w].kind = "order" /\ HasLocked(w)
      /\ orders' = [orders EXCEPT ![o] = "new"]
      /\ items' = [items EXCEPT ![o] = locking[w].locked]
      /\ EndWrite(w)
      /\ UNCHANGED <<bills, txVars, kaznaVars, request, update, faults>>

\* Both tables are declared ON DELETE CASCADE.
DocumentDeleted(w) ==
  LET bs == locking[w].locked
  IN  /\ write[w].kind = "delete" /\ HasLocked(w)
      /\ bills' = [b \in Bill |-> IF b \in bs THEN "none" ELSE bills[b]]
      /\ items' = [o \in Order |-> items[o] \ bs]
      /\ EndWrite(w)
      /\ UNCHANGED <<orders, txVars, kaznaVars, request, update, faults>>

-----------------------------------------------------------------------------
(* CreateTransactionAction.                                                *)

Answered(c) == request' = [request EXCEPT ![c] = NoRequest]

LockOrder(c, o) ==
  /\ request[c].pc = "idle"
  /\ orders[o] # "none"
  /\ OrderIsFree(o)
  /\ request' = [request EXCEPT ![c] = [NoRequest EXCEPT !.pc = "order", !.order = o]]
  /\ UNCHANGED <<orderVars, txVars, kaznaVars, update, billLocks, faults>>

\* A refunded order could be paid again.
IsPaid_M(o) == \E t \in TxsOf(o) : status[t] = "paid"

IsPaid(o) == \E t \in TxsOf(o) : status[t] \notin {"new", "cancelled"}

\* _check_existing_transactions waits for whoever updates one of them.
OrderAlreadyPaid(c) ==
  /\ request[c].pc = "order"
  /\ \A t \in TxsOf(request[c].order) : TxIsFree(t)
  /\ IsPaid(request[c].order)
  /\ Answered(c)
  /\ UNCHANGED <<orderVars, txVars, kaznaVars, update, billLocks, faults>>

Replaced(o) == {t \in TxsOf(o) : status[t] = "new"}

CancelPrevious(c) ==
  LET o == request[c].order
  IN  /\ request[c].pc = "order"
      /\ \A t \in TxsOf(o) : TxIsFree(t)
      /\ ~IsPaid(o)
      /\ request' = [request EXCEPT ![c].pc = "paying", ![c].cancel = Replaced(o)]
      /\ UNCHANGED <<orderVars, txVars, kaznaVars, update, billLocks, faults>>

\* Kazna refuses (PAYMENT_ALREADY_EXISTS, ...), the bills are of different
\* departments or there is no bill left: everything is rolled back.
Refused(c) ==
  /\ request[c].pc = "paying"
  /\ Answered(c)
  /\ UNCHANGED <<orderVars, txVars, kaznaVars, update, billLocks, faults>>

\* Kazna creates the payment ...
Pay(c, t) ==
  /\ request[c].pc = "paying"
  /\ items[request[c].order] # {}
  /\ payment[t] = "none"
  /\ payment' = [payment EXCEPT ![t] = "created"]
  /\ request' = [request EXCEPT ![c].pc = "paid", ![c].tx = t]
  /\ UNCHANGED <<orderVars, txVars, told, update, billLocks, faults>>

\* ... but its answer does not arrive: the same rollback.
PayTimesOut(c, t) ==
  /\ request[c].pc = "paying"
  /\ items[request[c].order] # {}
  /\ payment[t] = "none"
  /\ faults < MaxFaults
  /\ faults' = faults + 1
  /\ payment' = [payment EXCEPT ![t] = "created"]
  /\ Answered(c)
  /\ UNCHANGED <<orderVars, txVars, told, update, billLocks>>

\* The new transaction is inserted, and everything committed.
Commit(c) ==
  LET r == request[c]
  IN  /\ r.pc = "paid"
      /\ status' = [t \in Tx |-> IF t = r.tx THEN "new"
                                 ELSE IF t \in r.cancel THEN "cancelled" ELSE status[t]]
      /\ orderOf' = [orderOf EXCEPT ![r.tx] = r.order]
      /\ Answered(c)
      /\ UNCHANGED <<orderVars, kaznaVars, update, billLocks, faults>>

\* Any other exception, or the death of the worker.
RequestRaises(c) ==
  /\ request[c].pc # "idle"
  /\ faults < MaxFaults
  /\ faults' = faults + 1
  /\ Answered(c)
  /\ UNCHANGED <<orderVars, txVars, kaznaVars, update, billLocks>>

-----------------------------------------------------------------------------
(* Kazna.                                                                  *)

KaznaFlow == {<<"created", "auth">>, <<"created", "cancel">>, <<"auth", "refunded">>}

KaznaStep(t) ==
  \E code \in Code :
    /\ <<payment[t], code>> \in KaznaFlow
    /\ payment' = [payment EXCEPT ![t] = code]
    /\ told' = [told EXCEPT ![t] = @ \cup {code}]
    /\ UNCHANGED <<orderVars, txVars, request, update, billLocks, faults>>

-----------------------------------------------------------------------------
(* UpdateTransactionStatusAction.                                          *)

Transitions_M ==
  {<<"new", "auth", "paid">>, <<"cancelled", "auth", "paid">>, <<"paid", "auth", "paid">>,
   <<"new", "cancel", "cancelled">>, <<"paid", "refunded", "refunded">>}

TransitionsSwapped_M ==
  {<<"new", "auth", "cancelled">>, <<"new", "cancel", "paid">>, <<"paid", "refunded", "refunded">>}

\* The transitions of its state machine: <<status, code, new status>>.
Transitions ==
  {<<"new", "created", "new">>, <<"new", "auth", "paid">>, <<"paid", "auth", "paid">>,
   <<"new", "cancel", "cancelled">>, <<"cancelled", "cancel", "cancelled">>,
   <<"paid", "refunded", "refunded">>, <<"refunded", "refunded", "refunded">>}

Start(u, t, code) ==
  update' = [update EXCEPT ![u] = [pc |-> "update", tx |-> t, code |-> code]]

Finished(u) ==
  /\ update' = [update EXCEPT ![u] = NoUpdate]
  /\ Release(u)

\* A notification is delivered, perhaps not for the first time.
Notify(u, t, code) ==
  /\ update[u].pc = "idle"
  /\ code \in told[t]
  /\ Start(u, t, code)
  /\ UNCHANGED <<orderVars, txVars, kaznaVars, request, billLocks, faults>>

PollsForAuth_M(t) == status[t] = "new" /\ payment[t] = "auth"

PollsFor(t) == status[t] = "new" /\ payment[t] # "created"

\* GetTransactionAction asks Kazna about a transaction that is NEW.
GetTransaction(u, t) ==
  /\ update[u].pc = "idle"
  /\ PollsFor(t)
  /\ Start(u, t, payment[t])
  /\ UNCHANGED <<orderVars, txVars, kaznaVars, request, billLocks, faults>>

\* "Transaction not found" is logged, and success is answered.
TransactionNotFound(u) ==
  /\ update[u].pc = "update"
  /\ status[update[u].tx] = "none"
  /\ Finished(u)
  /\ UNCHANGED <<orderVars, txVars, kaznaVars, request, write, faults>>

\* The machine has no such transition: MachineError.
Rejected(u) ==
  LET t == update[u].tx
  IN  /\ update[u].pc = "update"
      /\ status[t] # "none" /\ TxIsFree(t)
      /\ \A s \in TxStatus : <<status[t], update[u].code, s>> \notin Transitions
      /\ Finished(u)
      /\ UNCHANGED <<orderVars, txVars, kaznaVars, request, write, faults>>

\* CANCELLED, REFUNDED, or the status it has already.
SetStatus(u, s) ==
  LET t == update[u].tx
  IN  /\ update[u].pc = "update"
      /\ TxIsFree(t)
      /\ <<status[t], update[u].code, s>> \in Transitions
      /\ s = "paid" => status[t] = "paid"
      /\ status' = [status EXCEPT ![t] = s]
      /\ Finished(u)
      /\ UNCHANGED <<orderVars, orderOf, kaznaVars, request, write, faults>>

LockPaid(u) ==
  LET t == update[u].tx
  IN  /\ update[u].pc = "update"
      /\ TxIsFree(t)
      /\ status[t] # "paid" /\ <<status[t], update[u].code, "paid">> \in Transitions
      /\ update' = [update EXCEPT ![u].pc = "order"]
      /\ UNCHANGED <<orderVars, txVars, kaznaVars, request, billLocks, faults>>

\* The bills of the order are read without their order.
LockPaidOrder(u) ==
  LET o == orderOf[update[u].tx]
  IN  /\ update[u].pc = "order"
      /\ OrderIsFree(o)
      /\ StartLocking(u, items[o])
      /\ update' = [update EXCEPT ![u].pc = "bills"]
      /\ UNCHANGED <<orderVars, txVars, kaznaVars, request, write, faults>>

PaidBills_M(bs) == bills

PaidBills(bs) == [b \in Bill |-> IF b \in bs THEN "paid" ELSE bills[b]]

RecordPaid(u) ==
  LET t == update[u].tx
  IN  /\ update[u].pc = "bills" /\ HasLocked(u)
      /\ bills' = PaidBills(locking[u].locked)
      /\ orders' = [orders EXCEPT ![orderOf[t]] = "paid"]
      /\ status' = [status EXCEPT ![t] = "paid"]
      /\ Finished(u)
      /\ UNCHANGED <<items, orderOf, kaznaVars, request, write, faults>>

\* One of the bills has been deleted since they were listed: everything is rolled back.
BillDoesNotExist(u) ==
  /\ update[u].pc = "bills" /\ IsGone(u)
  /\ Finished(u)
  /\ UNCHANGED <<orderVars, txVars, kaznaVars, request, write, faults>>

\* All the bills of the order have been deleted.
BillOrderNotFound(u) ==
  /\ update[u].pc = "order"
  /\ OrderIsFree(orderOf[update[u].tx])
  /\ items[orderOf[update[u].tx]] = {}
  /\ Finished(u)
  /\ UNCHANGED <<orderVars, txVars, kaznaVars, request, write, faults>>

UpdateRaises(u) ==
  /\ update[u].pc # "idle"
  /\ faults < MaxFaults
  /\ faults' = faults + 1
  /\ Finished(u)
  /\ UNCHANGED <<orderVars, txVars, kaznaVars, request, write>>

\* The one locks the order and then the transaction, the other the transaction
\* and then the order: the database aborts one of the two.
BreakDeadlock(c, u) ==
  /\ request[c].pc = "order" /\ update[u].pc = "order"
  /\ orderOf[update[u].tx] = request[c].order
  /\ \/ Answered(c) /\ UNCHANGED <<update, locking>>
     \/ Finished(u) /\ UNCHANGED request
  /\ UNCHANGED <<orderVars, txVars, kaznaVars, write, faults>>

WaitsForBill(x, y) == locking[x].bill # NoBill /\ LocksAgainst(y, locking[x].bill, x)

Circle(S) ==
  \A x \in S : (\E y \in S : WaitsForBill(x, y)) /\ (\E y \in S : WaitsForBill(y, x))

\* Rows of bills are locked in any order: the database aborts one of a circle.
BreakBillDeadlock ==
  /\ \E S \in SUBSET Locker : Circle(S) /\ \E x \in S :
       \/ x \in Updater /\ Finished(x) /\ UNCHANGED write
       \/ x \in Writer /\ EndWrite(x) /\ UNCHANGED update
  /\ UNCHANGED <<orderVars, txVars, kaznaVars, request, faults>>

-----------------------------------------------------------------------------
CreateTransaction(c) ==
  \/ OrderAlreadyPaid(c)
  \/ CancelPrevious(c)
  \/ Refused(c)
  \/ \E t \in Tx : Pay(c, t)
  \/ Commit(c)

UpdateTransactionStatus(u) ==
  \/ TransactionNotFound(u)
  \/ Rejected(u)
  \/ \E s \in TxStatus : SetStatus(u, s)
  \/ LockPaid(u)
  \/ LockPaidOrder(u)
  \/ BillOrderNotFound(u)
  \/ LockBill(u)
  \/ BillDoesNotExist(u)
  \/ RecordPaid(u)

StartBillWrite(w) ==
  \/ SaveSearch(w)
  \/ \E o \in Order, bs \in SUBSET Bill : CreateOrder(w, o, bs)
  \/ \E bs \in SUBSET Bill : DeleteDocument(w, bs)

BillWrite(w) ==
  \/ LockBill(w)
  \/ SkipBill(w)
  \/ BillNotFound(w)
  \/ SearchSaved(w)
  \/ OrderCreated(w)
  \/ DocumentDeleted(w)

Fault ==
  \/ \E c \in Creator : RequestRaises(c) \/ \E t \in Tx : PayTimesOut(c, t)
  \/ \E u \in Updater : UpdateRaises(u)
  \/ \E w \in Writer : WriteRaises(w)

Next ==
  \/ \E w \in Writer : StartBillWrite(w) \/ BillWrite(w)
  \/ \E c \in Creator, o \in Order : LockOrder(c, o)
  \/ \E c \in Creator : CreateTransaction(c)
  \/ \E t \in Tx : KaznaStep(t)
  \/ \E u \in Updater, t \in Tx, code \in Code : Notify(u, t, code)
  \/ \E u \in Updater, t \in Tx : GetTransaction(u, t)
  \/ \E u \in Updater : UpdateTransactionStatus(u)
  \/ \E c \in Creator, u \in Updater : BreakDeadlock(c, u)
  \/ BreakBillDeadlock
  \/ Fault

Spec == Init /\ [][Next]_vars

(***************************************************************************)
(* Kazna answers, the database grants a lock to whoever waits for it again *)
(* and again and breaks deadlocks, and a transaction that stays NEW is     *)
(* asked for again and again.  Notifications need not arrive.              *)
(***************************************************************************)
Fairness ==
  /\ \A c \in Creator : SF_vars(CreateTransaction(c))
  /\ \A u \in Updater : SF_vars(UpdateTransactionStatus(u))
  /\ \A w \in Writer : SF_vars(BillWrite(w))
  /\ \A c \in Creator, u \in Updater : WF_vars(BreakDeadlock(c, u))
  /\ WF_vars(BreakBillDeadlock)
  /\ \A t \in Tx : SF_vars(\E u \in Updater : GetTransaction(u, t))

FairSpec == Spec /\ Fairness

PaidOrders == {o \in Order : orders[o] = "paid"}

Attempts == INSTANCE OrderAttempts WITH paid <- PaidOrders

-----------------------------------------------------------------------------
(* Properties.                                                             *)

TypeOK ==
  /\ bills \in [Bill -> {"none", "unpaid", "paid"}]
  /\ orders \in [Order -> {"none", "new", "paid"}]
  /\ items \in [Order -> SUBSET Bill]
  /\ status \in [Tx -> TxStatus]
  /\ orderOf \in [Tx -> Order \cup {NoOrder}]
  /\ payment \in [Tx -> {"none"} \cup Code]
  /\ told \in [Tx -> SUBSET Code]
  /\ request \in [Creator -> Request]
  /\ update \in [Updater -> Update]
  /\ write \in [Writer -> Write]
  /\ locking \in [Locker -> Locks]
  /\ faults \in Nat

\* The unique index transactions_order_id_noncancelled_uniq never refuses a
\* commit: an order has at most one transaction that is not CANCELLED.
OneOpenAttempt ==
  \A t, u \in Tx :
    t # u /\ orderOf[t] = orderOf[u] /\ orderOf[t] # NoOrder =>
      "cancelled" \in {status[t], status[u]}

\* Transaction, order and bills are PAID together: an order is PAID if and only
\* if one of its transactions has been, and so are then all its bills.
PaidTogether ==
  \A o \in Order :
    /\ orders[o] = "paid" <=> \E t \in TxsOf(o) : status[t] \in {"paid", "refunded"}
    /\ orders[o] = "paid" => \A b \in items[o] : bills[b] = "paid"

\* Kazna is not asked to charge for an order one of whose transactions has been
\* recorded as PAID, at any moment of the call.
ChargedOrderIsUnpaid ==
  \A c \in Creator : request[c].pc \in {"paying", "paid"} =>
    \A t \in TxsOf(request[c].order) : status[t] \in {"new", "cancelled"}

\* Whatever notifications are lost, repeated or late, PAID and REFUNDED are only
\* what Kazna has said at some time.
PaidIsAuthorised ==
  \A t \in Tx :
    /\ status[t] = "paid" => payment[t] \in {"auth", "refunded"}
    /\ status[t] = "refunded" => payment[t] = "refunded"

\* A request that has locked the order waits for whoever has locked one of its
\* transactions, an update that has locked its transaction for whoever has locked
\* the order.
RequestWaitsFor(c, u) ==
  request[c].pc = "order" /\ \E t \in TxsOf(request[c].order) : HoldsTx(u, t)

UpdateWaitsFor(u, c) == update[u].pc = "order" /\ HoldsOrder(c, orderOf[update[u].tx])

\* Whoever has locked an order or a transaction, and waits for one, waits for
\* somebody who waits for it in turn: never for a request that calls Kazna, and
\* never for an update that is locking the bills.  So deadlocks are pairs of a
\* request and an update, or circles among those that lock bills.
DeadlocksArePairsOrOverBills ==
  /\ \A c \in Creator, u \in Updater : UpdateWaitsFor(u, c) <=> RequestWaitsFor(c, u)
  /\ \A c, d \in Creator : request[c].pc = "order" => ~HoldsTxs(d, request[c].order)
  /\ \A u, v \in Updater : update[u].pc = "order" => ~HoldsOrderToo(v, orderOf[update[u].tx])

Waits(x, y) ==
  \/ x \in Creator /\ y \in Updater /\ RequestWaitsFor(x, y)
  \/ x \in Updater /\ y \in Creator /\ UpdateWaitsFor(x, y)
  \/ x \in Creator /\ y \in Creator /\ request[x].pc = "order" /\ HoldsTxs(y, request[x].order)
  \/ x \in Updater /\ y \in Updater /\ update[x].pc = "order" /\ HoldsOrderToo(y, orderOf[update[x].tx])
  \/ x \in Locker /\ y \in Locker /\ WaitsForBill(x, y)

\* Processes that all hold a lock and all wait for one of themselves: two of them
\* are a request and an update that wait for each other, or all wait for bills.
EveryCircle ==
  \A S \in SUBSET (Creator \cup Locker) : S # {} /\ (\A x \in S : \E y \in S : Waits(x, y)) =>
    \/ \E c \in S \cap Creator, u \in S \cap Updater : RequestWaitsFor(c, u) /\ UpdateWaitsFor(u, c)
    \/ \A x \in S : x \in Locker /\ locking[x].bill # NoBill

\* BillPayment implements OrderAttempts: all the steps of a request are invisible
\* until the one that commits.
ImplementsAttempts == Attempts!Spec

\* Every request is answered, in spite of the order in which they lock rows.
EveryRequestEnds ==
  /\ \A c \in Creator : (request[c].pc # "idle") ~> (request[c].pc = "idle")
  /\ \A u \in Updater : (update[u].pc # "idle") ~> (update[u].pc = "idle")
  /\ \A w \in Writer : (write[w].kind # "idle") ~> (write[w].kind = "idle")

\* Once nobody starts new attempts, or touches bills otherwise, a transaction that is asked for is settled
\* when its payment is: unless all its bills have been deleted, or its AUTH has
\* not been seen before it was refunded.
Settled ==
  <>[]((\A c \in Creator : request[c].pc = "idle") /\ \A w \in Writer : write[w].kind = "idle") =>
    \A t \in Tx :
      /\ (status[t] = "new" /\ payment[t] = "cancel") ~> (status[t] # "new")
      /\ (status[t] = "new" /\ payment[t] = "auth") ~>
           \/ status[t] # "new"
           \/ payment[t] = "refunded"
           \/ items[orderOf[t]] = {}

\* What Kazna may have said of t, now or earlier.
IsHistory(code, t) ==
  /\ code = "auth" => payment[t] \in {"auth", "refunded"}
  /\ code = "cancel" => payment[t] = "cancel"
  /\ code = "refunded" => payment[t] = "refunded"

\* A transaction that exists belongs to an order and has a payment.
TxInv ==
  \A t \in Tx :
    /\ status[t] = "none" <=> orderOf[t] = NoOrder
    /\ status[t] # "none" => payment[t] # "none"
    /\ \A code \in told[t] : IsHistory(code, t)

\* An order is locked by one request at most; while Kazna is called, its
\* transactions are those the request has seen.
RequestInv ==
  \A c \in Creator :
    /\ request[c].pc # "idle" => request[c].order \in Order
    /\ request[c].pc \in {"paying", "paid"} => request[c].cancel = Replaced(request[c].order)
    /\ request[c].pc = "paid" =>
         /\ request[c].tx \in Tx
         /\ status[request[c].tx] = "none" /\ payment[request[c].tx] # "none"
    /\ \A d \in Creator \ {c} :
         /\ request[c].pc # "idle" /\ request[d].pc # "idle" => request[c].order # request[d].order
         /\ request[c].pc = "paid" /\ request[d].pc = "paid" => request[c].tx # request[d].tx

\* A transaction about to be PAID is NEW and locked by nobody else.
UpdateInv ==
  \A u \in Updater :
    /\ update[u].pc # "idle" => update[u].tx \in Tx /\ IsHistory(update[u].code, update[u].tx)
    /\ update[u].pc \in {"order", "bills"} =>
         /\ update[u].code = "auth" /\ status[update[u].tx] = "new"
         /\ \A c \in Creator : ~HoldsTxs(c, orderOf[update[u].tx])
         /\ \A v \in Updater \ {u} : ~HoldsTx(v, update[u].tx)

\* An update that locks bills has locked their order, which nobody else has, and
\* has locked or will ask for all the bills that are still in it.
LockingInv ==
  \A u \in Updater :
    /\ update[u].pc # "bills" => locking[u] = NoLocks
    /\ update[u].pc = "bills" =>
         /\ \A c \in Creator : ~HoldsOrder(c, orderOf[update[u].tx])
         /\ \A v \in Updater \ {u} : ~HoldsOrderToo(v, orderOf[update[u].tx])
         /\ items[orderOf[update[u].tx]] \subseteq
              locking[u].left \cup {locking[u].bill} \cup locking[u].locked
         /\ locking[u].bill = NoBill => locking[u].left = {}

\* An order that is being created is known to nobody else.
OrderInv ==
  /\ \A t \in Tx : orderOf[t] # NoOrder => orders[orderOf[t]] # "none"
  /\ \A c \in Creator : request[c].pc # "idle" => orders[request[c].order] # "none"
  /\ \A w \in Writer : write[w].kind = "order" =>
       /\ write[w].order \in Order /\ orders[write[w].order] = "none"
       /\ \A v \in Writer \ {w} : write[v].order # write[w].order

\* What is in the tables, and what requests and updates have seen of it.
TablesInv ==
  /\ TypeOK
  /\ TxInv
  /\ RequestInv
  /\ UpdateInv
  /\ ChargedOrderIsUnpaid
  /\ OneOpenAttempt
  /\ PaidTogether
  /\ PaidIsAuthorised

\* The inductive invariant of the payment.
PaymentInv == TablesInv /\ LockingInv /\ OrderInv
=============================================================================
