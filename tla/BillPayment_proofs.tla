------------------------- MODULE BillPayment_proofs -------------------------
(***************************************************************************)
(* Theorems about BillPayment, for every set of bills, orders,             *)
(* transactions and workers.                                               *)
(***************************************************************************)
EXTENDS BillPayment, TLAPS

-----------------------------------------------------------------------------
(* Types.                                                                  *)

\* Rows of bills are asked for, locked and released by one process at a time.
LEMMA LocksType ==
  ASSUME TypeOK, NEW x \in Locker,
         \/ \E bs \in SUBSET Bill : StartLocking(x, bs)
         \/ \E got \in SUBSET Bill : AskForNext(x, got)
         \/ Release(x)
  PROVE  locking' \in [Locker -> Locks]
  <1>0. locking \in [Locker -> Locks] /\ locking[x] \in Locks /\ NoLocks \in Locks
    BY DEF TypeOK, NoLocks, Locks
  <1>1. CASE \E bs \in SUBSET Bill : StartLocking(x, bs)
    BY <1>0, <1>1 DEF StartLocking, Locks
  <1>2. CASE \E got \in SUBSET Bill : AskForNext(x, got)
    <2> PICK got \in SUBSET Bill : AskForNext(x, got) BY <1>2
    <2>1. locking[x].left \in SUBSET Bill /\ locking[x].locked \cup got \in SUBSET Bill
      BY <1>0 DEF Locks
    <2>2. [NoLocks EXCEPT !.locked = locking[x].locked \cup got] \in Locks
      BY <2>1 DEF NoLocks, Locks
    <2>3. \A b \in locking[x].left :
            [bill |-> b, left |-> locking[x].left \ {b}, locked |-> locking[x].locked \cup got] \in Locks
      BY <2>1 DEF Locks
    <2> QED BY <1>0, <2>2, <2>3 DEF AskForNext
  <1>3. CASE Release(x)
    BY <1>0, <1>3 DEF Release
  <1> QED BY <1>1, <1>2, <1>3

\* The steps of CreateTransactionAction keep the types.
LEMMA RequestType ==
  ASSUME TypeOK, NEW c \in Creator,
         \/ \E o \in Order : LockOrder(c, o)
         \/ CreateTransaction(c)
         \/ RequestRaises(c)
         \/ \E t \in Tx : PayTimesOut(c, t)
  PROVE  TypeOK'
  <1> USE DEF billLocks
  <1>0. NoRequest \in Request /\ request[c] \in Request
    BY DEF TypeOK, NoRequest, Request
  <1>1. CASE \E o \in Order : LockOrder(c, o)
    <2> PICK o \in Order : LockOrder(c, o) BY <1>1
    <2>1. [NoRequest EXCEPT !.pc = "order", !.order = o] \in Request
      BY <1>0 DEF Request
    <2> QED BY <2>1 DEF TypeOK, LockOrder, orderVars, txVars, kaznaVars
  <1>2. CASE OrderAlreadyPaid(c) \/ Refused(c)
    BY <1>0, <1>2 DEF TypeOK, OrderAlreadyPaid, Refused, Answered, orderVars, txVars, kaznaVars
  <1>3. CASE CancelPrevious(c)
    <2>1. Replaced(request[c].order) \in SUBSET Tx
      BY DEF Replaced, TxsOf
    <2>2. [request[c] EXCEPT !.pc = "paying", !.cancel = Replaced(request[c].order)] \in Request
      BY <1>0, <2>1 DEF Request
    <2> QED BY <1>3, <2>2 DEF TypeOK, CancelPrevious, orderVars, txVars, kaznaVars
  <1>4. CASE \E t \in Tx : Pay(c, t)
    <2> PICK t \in Tx : Pay(c, t) BY <1>4
    <2>1. [request[c] EXCEPT !.pc = "paid", !.tx = t] \in Request
      BY <1>0 DEF Request
    <2> QED BY <2>1 DEF TypeOK, Pay, Code, orderVars, txVars
  <1>5. CASE \E t \in Tx : PayTimesOut(c, t)
    BY <1>0, <1>5 DEF TypeOK, PayTimesOut, Answered, Code, orderVars, txVars
  <1>6. CASE Commit(c)
    <2>1. request[c].order \in Order \cup {NoOrder}
      BY <1>0 DEF Request
    <2>2. status' \in [Tx -> TxStatus]
      BY <1>6 DEF TypeOK, Commit, TxStatus
    <2> QED BY <1>0, <1>6, <2>1, <2>2 DEF TypeOK, Commit, Answered, orderVars, kaznaVars
  <1>7. CASE RequestRaises(c)
    BY <1>0, <1>7 DEF TypeOK, RequestRaises, Answered, orderVars, txVars, kaznaVars
  <1> QED BY <1>1, <1>2, <1>3, <1>4, <1>5, <1>6, <1>7 DEF CreateTransaction

\* The next row is locked or found to be gone: nothing else changes.
LEMMA LocksStep ==
  ASSUME TypeOK, NEW x \in Locker, LockBill(x) \/ SkipBill(x)
  PROVE  TypeOK'
  <1>1. locking' \in [Locker -> Locks]
    <2>1. CASE LockBill(x)
      <3>1. {locking[x].bill} \in SUBSET Bill
        BY <2>1 DEF LockBill, TypeOK, Locks
      <3> QED BY <2>1, <3>1, LocksType DEF LockBill
    <2>2. CASE SkipBill(x)
      <3>1. {} \in SUBSET Bill
        OBVIOUS
      <3> QED BY <2>2, <3>1, LocksType DEF SkipBill
    <2> QED BY <2>1, <2>2
  <1> QED BY <1>1 DEF LockBill, SkipBill, TypeOK, orderVars, txVars, kaznaVars

\* So do the steps of UpdateTransactionStatusAction: a transaction that is asked
\* for has a payment, and one that is updated is a transaction.
LEMMA UpdateType ==
  ASSUME TypeOK, TxInv, UpdateInv, NEW u \in Updater,
         \/ \E t \in Tx, code \in Code : Notify(u, t, code)
         \/ \E t \in Tx : GetTransaction(u, t)
         \/ UpdateTransactionStatus(u)
         \/ UpdateRaises(u)
  PROVE  TypeOK'
  <1> USE DEF orderVars, txVars, kaznaVars, billLocks
  <1>0. NoUpdate \in Update /\ update[u] \in Update /\ u \in Locker
    BY DEF TypeOK, NoUpdate, Update, Code, Locker
  <1>a. update[u].pc # "idle" => update[u].tx \in Tx
    BY DEF UpdateInv
  <1>b. Finished(u) => update' \in [Updater -> Update] /\ locking' \in [Locker -> Locks]
    BY <1>0, LocksType DEF TypeOK, Finished
  <1>1. CASE \E t \in Tx, code \in Code : Notify(u, t, code)
    BY <1>1 DEF TypeOK, Notify, Start, Update
  <1>2. CASE \E t \in Tx : GetTransaction(u, t)
    <2> PICK t \in Tx : GetTransaction(u, t) BY <1>2
    <2>1. payment[t] \in Code
      BY DEF TypeOK, TxInv, GetTransaction, PollsFor
    <2>2. [pc |-> "update", tx |-> t, code |-> payment[t]] \in Update
      BY <2>1 DEF Update
    <2> QED BY <2>2 DEF TypeOK, GetTransaction, Start
  <1>3. CASE TransactionNotFound(u) \/ BillDoesNotExist(u)
    BY <1>3, <1>b DEF TypeOK, TransactionNotFound, BillDoesNotExist
  <1>4. CASE Rejected(u) \/ BillOrderNotFound(u) \/ UpdateRaises(u)
    BY <1>4, <1>b DEF TypeOK, Rejected, BillOrderNotFound, UpdateRaises
  <1>5. CASE \E s \in TxStatus : SetStatus(u, s)
    <2> PICK s \in TxStatus : SetStatus(u, s) BY <1>5
    <2>1. status' \in [Tx -> TxStatus]
      BY DEF TypeOK, SetStatus
    <2> QED BY <2>1, <1>b DEF TypeOK, SetStatus
  <1>6. CASE LockPaid(u) \/ LockPaidOrder(u)
    <2>1. /\ [update[u] EXCEPT !.pc = "order"] \in Update
          /\ [update[u] EXCEPT !.pc = "bills"] \in Update
      BY <1>0 DEF Update
    <2>2. CASE LockPaid(u)
      BY <2>1, <2>2 DEF TypeOK, LockPaid
    <2>3. CASE LockPaidOrder(u)
      <3>1. orderOf[update[u].tx] \in Order
        BY <2>3, <1>a DEF LockPaidOrder, TypeOK, TxInv, UpdateInv
      <3>2. items[orderOf[update[u].tx]] \in SUBSET Bill
        BY <3>1 DEF TypeOK
      <3>3. locking' \in [Locker -> Locks]
        BY <2>3, <3>2, <1>0, LocksType DEF LockPaidOrder
      <3> QED BY <2>1, <2>3, <3>3 DEF TypeOK, LockPaidOrder
    <2> QED BY <1>6, <2>2, <2>3
  <1>7. CASE RecordPaid(u)
    <2>1. bills' \in [Bill -> {"none", "unpaid", "paid"}]
      BY <1>7 DEF TypeOK, RecordPaid, PaidBills
    <2> QED BY <1>7, <2>1, <1>b DEF TypeOK, RecordPaid, TxStatus
  <1>8. CASE LockBill(u)
    BY <1>0, <1>8, LocksStep
  <1> QED BY <1>1, <1>2, <1>3, <1>4, <1>5, <1>6, <1>7, <1>8 DEF UpdateTransactionStatus

\* And so do those that write bills, whatever they write.
LEMMA WriteType ==
  ASSUME TypeOK, NEW w \in Writer, StartBillWrite(w) \/ BillWrite(w) \/ WriteRaises(w)
  PROVE  TypeOK'
  <1> USE DEF orderVars, txVars, kaznaVars
  <1>0. NoWrite \in Write /\ write[w] \in Write /\ w \in Locker
    BY DEF TypeOK, NoWrite, Write, Locker
  <1>1. CASE StartBillWrite(w)
    <2> PICK kind \in {"search", "order", "delete"}, o \in Order \cup {NoOrder}, bs \in SUBSET Bill :
          StartWrite(w, kind, o, bs)
      BY <1>1, Zenon DEF StartBillWrite, SaveSearch, CreateOrder, DeleteDocument, Bills
    <2>1. [kind |-> kind, order |-> o] \in Write
      BY DEF Write
    <2>2. locking' \in [Locker -> Locks]
      BY <1>0, LocksType DEF StartWrite
    <2> QED BY <2>1, <2>2 DEF TypeOK, StartWrite
  <1>2. EndWrite(w) => write' \in [Writer -> Write] /\ locking' \in [Locker -> Locks]
    BY <1>0, LocksType DEF TypeOK, EndWrite
  <1>3. CASE LockBill(w) \/ SkipBill(w)
    BY <1>0, <1>3, LocksStep
  <1>4. CASE BillNotFound(w) \/ SearchSaved(w) \/ WriteRaises(w)
    BY <1>2, <1>4 DEF TypeOK, BillNotFound, SearchSaved, WriteRaises
  <1>5. CASE OrderCreated(w)
    <2>1. locking[w].locked \in SUBSET Bill
      BY <1>0 DEF TypeOK, Locks
    <2> QED BY <1>2, <1>5, <2>1 DEF TypeOK, OrderCreated
  <1>6. CASE DocumentDeleted(w)
    BY <1>2, <1>6 DEF TypeOK, DocumentDeleted
  <1> QED BY <1>1, <1>3, <1>4, <1>5, <1>6 DEF BillWrite

\* And so do Kazna and the deadlock detector.
LEMMA OtherType ==
  ASSUME TypeOK,
         \/ \E t \in Tx : KaznaStep(t)
         \/ \E c \in Creator, u \in Updater : BreakDeadlock(c, u)
         \/ BreakBillDeadlock
  PROVE  TypeOK'
  <1> USE DEF TypeOK, orderVars, txVars, kaznaVars
  <1>0. NoRequest \in Request /\ NoUpdate \in Update /\ NoWrite \in Write
    BY DEF NoRequest, Request, NoUpdate, Update, Code, NoWrite, Write
  <1>1. \A x \in Locker : Release(x) => locking' \in [Locker -> Locks]
    BY LocksType
  <1>2. CASE \E t \in Tx : KaznaStep(t)
    BY <1>2 DEF KaznaStep, billLocks
  <1>3. CASE \E c \in Creator, u \in Updater : BreakDeadlock(c, u)
    BY <1>0, <1>1, <1>3 DEF BreakDeadlock, Answered, Finished, Locker
  <1>4. CASE BreakBillDeadlock
    BY <1>0, <1>1, <1>4 DEF BreakBillDeadlock, Finished, EndWrite, Locker
  <1> QED BY <1>2, <1>3, <1>4

-----------------------------------------------------------------------------
(* What steps that write little leave as it was.                           *)

\* The part of the invariant that is about committed rows and Kazna.
LEMMA RowsKept ==
  ASSUME TablesInv, UNCHANGED <<status, orderOf, payment, told>>
  PROVE  TxInv' /\ OneOpenAttempt' /\ PaidIsAuthorised'
  BY DEF TablesInv, TxInv, OneOpenAttempt, PaidIsAuthorised, IsHistory

\* The part that relates transactions to orders and bills.
LEMMA OrdersKept ==
  ASSUME TablesInv, UNCHANGED <<bills, orders, items, status, orderOf>>
  PROVE  PaidTogether'
  BY DEF TablesInv, PaidTogether, TxsOf

\* A request that is over releases its locks and disturbs nobody.
LEMMA RequestOver ==
  ASSUME TablesInv, NEW c \in Creator, Answered(c),
         UNCHANGED <<status, orderOf>>,
         \A t \in Tx : payment[t] # "none" => payment'[t] # "none"
  PROVE  RequestInv' /\ ChargedOrderIsUnpaid'
  <1>1. /\ request'[c].pc = "idle"
        /\ \A d \in Creator \ {c} : request'[d] = request[d]
    BY DEF TablesInv, TypeOK, Answered, NoRequest
  <1> QED BY <1>1 DEF TablesInv, RequestInv, ChargedOrderIsUnpaid, Replaced, TxsOf

\* Neither do requests that hold no more transactions than before disturb the
\* updates.
LEMMA UpdatesKept ==
  ASSUME TablesInv, UNCHANGED <<status, orderOf, update>>,
         \A t \in Tx, code \in Code : IsHistory(code, t) => IsHistory(code, t)',
         \A c \in Creator, o \in Order : HoldsTxs(c, o)' => HoldsTxs(c, o)
  PROVE  UpdateInv'
  <1>1. \A u \in Updater : update[u].pc # "idle" =>
          update[u].tx \in Tx /\ update[u].code \in Code /\ IsHistory(update[u].code, update[u].tx)
    BY DEF TablesInv, UpdateInv, TypeOK, Update
  <1>2. \A u \in Updater : update[u].pc \in {"order", "bills"} => orderOf[update[u].tx] \in Order
    BY <1>1 DEF TablesInv, UpdateInv, TxInv, TypeOK
  <1> QED BY <1>1, <1>2 DEF TablesInv, UpdateInv, HoldsTx

\* An update that is over releases its lock and disturbs nobody.
LEMMA UpdateOver ==
  ASSUME TablesInv, NEW u \in Updater, Finished(u),
         UNCHANGED <<status, orderOf, payment, request>>
  PROVE  UpdateInv' /\ RequestInv' /\ ChargedOrderIsUnpaid'
  <1>1. /\ update'[u].pc = "idle"
        /\ \A v \in Updater \ {u} : update'[v] = update[v]
    BY DEF TablesInv, TypeOK, Finished, NoUpdate
  <1>2. UpdateInv'
    BY <1>1 DEF TablesInv, UpdateInv, HoldsTx, HoldsTxs, IsHistory
  <1> QED BY <1>2 DEF TablesInv, RequestInv, ChargedOrderIsUnpaid, Replaced, TxsOf

-----------------------------------------------------------------------------
(* The steps, one by one.                                                  *)

\* A step that leaves transactions, payments, requests and updates alone.
LEMMA TablesOnly ==
  ASSUME TablesInv, TypeOK', PaidTogether',
         UNCHANGED <<status, orderOf, payment, told, request, update>>
  PROVE  TablesInv'
  <1>1. TxInv' /\ OneOpenAttempt' /\ PaidIsAuthorised'
    BY RowsKept
  <1>2. UpdateInv'
    BY UpdatesKept DEF IsHistory, HoldsTxs
  <1>3. RequestInv' /\ ChargedOrderIsUnpaid'
    BY DEF TablesInv, RequestInv, ChargedOrderIsUnpaid, Replaced, TxsOf
  <1> QED BY <1>1, <1>2, <1>3 DEF TablesInv

\* A new order has no transactions; a bill that is deleted leaves its orders.
LEMMA WriteSteps ==
  ASSUME PaymentInv, NEW w \in Writer, StartBillWrite(w) \/ BillWrite(w) \/ WriteRaises(w)
  PROVE  TablesInv'
  <1>0. TypeOK'
    BY WriteType DEF PaymentInv, TablesInv
  <1>1. UNCHANGED <<status, orderOf, payment, told, request, update>>
    BY DEF StartBillWrite, SaveSearch, CreateOrder, DeleteDocument, StartWrite, BillWrite, LockBill,
           SkipBill, BillNotFound, SearchSaved, OrderCreated, DocumentDeleted, WriteRaises,
           txVars, kaznaVars
  <1>2. PaidTogether'
    <2>1. CASE OrderCreated(w)
      <3>1. write[w].order \in Order /\ orders[write[w].order] = "none"
        BY <2>1 DEF OrderCreated, PaymentInv, OrderInv
      <3>2. orders' = [orders EXCEPT ![write[w].order] = "new"] /\ UNCHANGED bills
            /\ items' = [items EXCEPT ![write[w].order] = locking[w].locked]
        BY <2>1 DEF OrderCreated
      <3> QED BY <1>1, <3>1, <3>2 DEF PaymentInv, TablesInv, TypeOK, PaidTogether, TxsOf
    <2>2. CASE DocumentDeleted(w)
      <3>1. bills' = [b \in Bill |-> IF b \in locking[w].locked THEN "none" ELSE bills[b]]
            /\ items' = [o \in Order |-> items[o] \ locking[w].locked]
            /\ UNCHANGED orders
        BY <2>2 DEF DocumentDeleted
      <3> QED BY <1>1, <3>1 DEF PaymentInv, TablesInv, TypeOK, PaidTogether, TxsOf
    <2>3. CASE UNCHANGED <<bills, orders, items>>
      BY <1>1, <2>3, OrdersKept DEF PaymentInv
    <2> QED BY <2>1, <2>2, <2>3
            DEF StartBillWrite, SaveSearch, CreateOrder, DeleteDocument, StartWrite, BillWrite,
                LockBill, SkipBill, BillNotFound, SearchSaved, WriteRaises, orderVars
  <1> QED BY <1>0, <1>1, <1>2, TablesOnly DEF PaymentInv

\* Kazna only moves on: what it has said stays true.
LEMMA KaznaSteps ==
  ASSUME TablesInv, NEW t \in Tx, KaznaStep(t)
  PROVE  TablesInv'
  <1>0. TypeOK'
    BY OtherType DEF TablesInv
  <1> PICK new \in Code : /\ <<payment[t], new>> \in KaznaFlow
                         /\ payment' = [payment EXCEPT ![t] = new]
                         /\ told' = [told EXCEPT ![t] = @ \cup {new}]
    BY DEF KaznaStep
  <1>1. /\ payment'[t] = new /\ told'[t] = told[t] \cup {new}
        /\ \A u \in Tx \ {t} : payment'[u] = payment[u] /\ told'[u] = told[u]
        /\ UNCHANGED <<status, orderOf, request, update>>
    BY DEF KaznaStep, TablesInv, TypeOK, txVars
  <1>2. \A u \in Tx, code \in Code : IsHistory(code, u) => IsHistory(code, u)'
    BY <1>1 DEF IsHistory, KaznaFlow
  <1>3. IsHistory(new, t)' /\ payment[t] # "none" /\ payment'[t] # "none"
    BY <1>1 DEF IsHistory, KaznaFlow
  <1>4. TxInv'
    <2>1. \A u \in Tx : told[u] \subseteq Code
      BY DEF TablesInv, TypeOK
    <2>2. \A u \in Tx : \A code \in told'[u] : IsHistory(code, u)'
      BY <1>1, <1>2, <1>3, <2>1 DEF TablesInv, TxInv
    <2> QED BY <1>1, <1>3, <2>2 DEF TxInv, TablesInv
  <1>5. UpdateInv'
    BY <1>1, <1>2, UpdatesKept DEF HoldsTxs
  <1>6. RequestInv' /\ ChargedOrderIsUnpaid'
    BY <1>1, <1>3 DEF TablesInv, RequestInv, ChargedOrderIsUnpaid, Replaced, TxsOf
  <1>7. PaidIsAuthorised'
    BY <1>1 DEF TablesInv, PaidIsAuthorised, KaznaFlow
  <1>8. OneOpenAttempt' /\ PaidTogether'
    BY <1>1 DEF KaznaStep, orderVars, TablesInv, OneOpenAttempt, PaidTogether, TxsOf
  <1> QED BY <1>0, <1>4, <1>5, <1>6, <1>7, <1>8 DEF TablesInv

\* The end of a request without a commit.
LEMMA RequestEnds ==
  ASSUME TablesInv, TypeOK', NEW c \in Creator, Answered(c),
         UNCHANGED <<bills, orders, items, status, orderOf, payment, told, update>>
  PROVE  TablesInv'
  <1>1. TxInv' /\ OneOpenAttempt' /\ PaidIsAuthorised' /\ PaidTogether'
    BY RowsKept, OrdersKept
  <1>2. RequestInv' /\ ChargedOrderIsUnpaid'
    BY RequestOver
  <1>3. \A d \in Creator, o \in Order : HoldsTxs(d, o)' => HoldsTxs(d, o)
    BY DEF Answered, NoRequest, HoldsTxs, TablesInv, TypeOK
  <1>4. UpdateInv'
    BY <1>3, UpdatesKept DEF IsHistory
  <1> QED BY <1>1, <1>2, <1>4 DEF TablesInv

\* Nobody else has locked the order.
LEMMA LockOrderStep ==
  ASSUME TablesInv, NEW c \in Creator, NEW o \in Order, LockOrder(c, o)
  PROVE  TablesInv'
  <1>0. TypeOK'
    BY RequestType DEF TablesInv
  <1>1. /\ request'[c].pc = "order" /\ request'[c].order = o
        /\ \A d \in Creator \ {c} : request'[d] = request[d]
        /\ \A d \in Creator \ {c} : request[d].pc # "idle" => request[d].order # o
        /\ UNCHANGED <<bills, orders, items, status, orderOf, payment, told, update>>
    BY DEF LockOrder, OrderIsFree, HoldsOrder, NoRequest, TablesInv, TypeOK,
           orderVars, txVars, kaznaVars
  <1>2. TxInv' /\ OneOpenAttempt' /\ PaidIsAuthorised' /\ PaidTogether'
    BY <1>1, RowsKept, OrdersKept
  <1>3. RequestInv' /\ ChargedOrderIsUnpaid'
    BY <1>1 DEF TablesInv, RequestInv, ChargedOrderIsUnpaid, Replaced, TxsOf
  <1>4. UpdateInv'
    BY <1>1, UpdatesKept DEF HoldsTxs, IsHistory
  <1> QED BY <1>0, <1>2, <1>3, <1>4 DEF TablesInv

\* The transactions are locked by nobody: no update is about to pay one of them.
LEMMA CancelPreviousStep ==
  ASSUME TablesInv, NEW c \in Creator, CancelPrevious(c)
  PROVE  TablesInv'
  <1> DEFINE o == request[c].order
  <1>0. TypeOK'
    BY RequestType DEF TablesInv, CreateTransaction
  <1>1. /\ request[c].pc = "order"
        /\ request'[c].pc = "paying" /\ request'[c].order = o
        /\ request'[c].cancel = Replaced(o)
        /\ \A d \in Creator \ {c} : request'[d] = request[d]
        /\ UNCHANGED <<bills, orders, items, status, orderOf, payment, told, update>>
    BY DEF CancelPrevious, TablesInv, TypeOK, Request, orderVars, txVars, kaznaVars
  <1>2. TxInv' /\ OneOpenAttempt' /\ PaidIsAuthorised' /\ PaidTogether'
    BY <1>1, RowsKept, OrdersKept
  <1>r. \A p : Replaced(p)' = Replaced(p)
    BY <1>1 DEF Replaced, TxsOf
  <1>3. RequestInv'
    BY <1>1, <1>r DEF TablesInv, RequestInv
  <1>u. ChargedOrderIsUnpaid'
    <2>1. \A t \in TxsOf(o) : status[t] \in {"new", "cancelled"}
      BY DEF CancelPrevious, IsPaid
    <2> QED BY <1>1, <2>1 DEF TablesInv, ChargedOrderIsUnpaid, TxsOf
  <1>4. \A u \in Updater : update[u].pc \in {"order", "bills"} => orderOf[update[u].tx] # o
    BY DEF CancelPrevious, TxIsFree, HoldsTx, TxsOf, TablesInv, UpdateInv
  <1>5. UpdateInv'
    BY <1>1, <1>4 DEF TablesInv, UpdateInv, HoldsTx, HoldsTxs, IsHistory
  <1> QED BY <1>0, <1>2, <1>3, <1>u, <1>5 DEF TablesInv

\* A payment is created for an id that has none.
LEMMA PayStep ==
  ASSUME TablesInv, NEW c \in Creator, NEW t \in Tx, Pay(c, t) \/ PayTimesOut(c, t)
  PROVE  TablesInv'
  <1>0. TypeOK'
    BY RequestType DEF TablesInv, CreateTransaction
  <1>1. /\ payment[t] = "none" /\ payment'[t] = "created"
        /\ \A u \in Tx \ {t} : payment'[u] = payment[u]
        /\ UNCHANGED <<bills, orders, items, status, orderOf, told, update>>
    BY DEF Pay, PayTimesOut, TablesInv, TypeOK, orderVars, txVars
  <1>2. \A u \in Tx, code \in Code : IsHistory(code, u) => IsHistory(code, u)'
    BY <1>1 DEF IsHistory
  <1>3. TxInv'
    <2>1. \A u \in Tx : told[u] \subseteq Code
      BY DEF TablesInv, TypeOK
    <2>2. \A u \in Tx : \A code \in told'[u] : IsHistory(code, u)'
      BY <1>1, <1>2, <2>1 DEF TablesInv, TxInv
    <2> QED BY <1>1, <2>2 DEF TxInv, TablesInv
  <1>4. OneOpenAttempt' /\ PaidTogether' /\ PaidIsAuthorised'
    BY <1>1, OrdersKept DEF TablesInv, OneOpenAttempt, PaidIsAuthorised
  <1>5. CASE Pay(c, t)
    <2>1. /\ request[c].pc = "paying" /\ request'[c].pc = "paid" /\ request'[c].tx = t
          /\ request'[c].order = request[c].order /\ request'[c].cancel = request[c].cancel
          /\ \A d \in Creator \ {c} : request'[d] = request[d]
      BY <1>5 DEF Pay, TablesInv, TypeOK, Request
    <2>2. status[t] = "none"
      BY <1>1 DEF TablesInv, TxInv
    <2>3. RequestInv'
      BY <1>1, <2>1, <2>2 DEF TablesInv, RequestInv, Replaced, TxsOf
    <2>4. ChargedOrderIsUnpaid'
      BY <1>1, <2>1 DEF TablesInv, ChargedOrderIsUnpaid, TxsOf
    <2>5. UpdateInv'
      BY <1>1, <1>2, <2>1, UpdatesKept DEF HoldsTxs
    <2> QED BY <1>0, <1>3, <1>4, <2>3, <2>4, <2>5 DEF TablesInv
  <1>6. CASE PayTimesOut(c, t)
    <2>1. Answered(c) /\ \A u \in Tx : payment[u] # "none" => payment'[u] # "none"
      BY <1>1, <1>6 DEF PayTimesOut
    <2>2. RequestInv' /\ ChargedOrderIsUnpaid'
      BY <1>1, <2>1, RequestOver
    <2>3. \A d \in Creator, o \in Order : HoldsTxs(d, o)' => HoldsTxs(d, o)
      BY <2>1 DEF Answered, NoRequest, HoldsTxs, TablesInv, TypeOK
    <2>4. UpdateInv'
      BY <1>1, <1>2, <2>3, UpdatesKept
    <2> QED BY <1>0, <1>3, <1>4, <2>2, <2>4 DEF TablesInv
  <1> QED BY <1>5, <1>6

\* What the commit of a request does to the transactions of its order.
LEMMA CommitWrites ==
  ASSUME TablesInv, NEW c \in Creator, Commit(c)
  PROVE  /\ request[c].order \in Order /\ request[c].tx \in Tx
         /\ status[request[c].tx] = "none" /\ orderOf[request[c].tx] = NoOrder
         /\ payment[request[c].tx] # "none"
         /\ status'[request[c].tx] = "new" /\ orderOf'[request[c].tx] = request[c].order
         /\ \A t \in Tx \ {request[c].tx} :
              /\ orderOf'[t] = orderOf[t]
              /\ orderOf[t] = request[c].order =>
                   status[t] \in {"new", "cancelled"} /\ status'[t] = "cancelled"
              /\ orderOf[t] # request[c].order => status'[t] = status[t]
  <1>1. /\ request[c].order \in Order /\ request[c].tx \in Tx
        /\ status[request[c].tx] = "none" /\ payment[request[c].tx] # "none"
        /\ request[c].cancel = Replaced(request[c].order)
        /\ \A t \in TxsOf(request[c].order) : status[t] \in {"new", "cancelled"}
    BY DEF Commit, TablesInv, RequestInv, ChargedOrderIsUnpaid
  <1>2. orderOf[request[c].tx] = NoOrder
    BY <1>1 DEF TablesInv, TxInv
  <1> QED BY <1>1, <1>2 DEF Commit, TablesInv, TypeOK, Replaced, TxsOf

\* The transactions a commit writes are locked by its request.
LEMMA CommitStep ==
  ASSUME TablesInv, NEW c \in Creator, Commit(c)
  PROVE  TablesInv'
  <1> DEFINE o == request[c].order
             new == request[c].tx
  <1>0. TypeOK'
    BY RequestType DEF TablesInv, CreateTransaction
  <1>1. /\ o \in Order /\ new \in Tx /\ status[new] = "none" /\ orderOf[new] = NoOrder
        /\ payment[new] # "none" /\ status'[new] = "new" /\ orderOf'[new] = o
        /\ \A t \in Tx \ {new} :
             /\ orderOf'[t] = orderOf[t]
             /\ orderOf[t] = o => status[t] \in {"new", "cancelled"} /\ status'[t] = "cancelled"
             /\ orderOf[t] # o => status'[t] = status[t]
    BY CommitWrites
  <1>2. /\ request[c].pc = "paid" /\ request'[c].pc = "idle"
        /\ \A d \in Creator \ {c} : request'[d] = request[d]
        /\ UNCHANGED <<bills, orders, items, payment, told, update>>
    BY DEF Commit, Answered, NoRequest, TablesInv, TypeOK, orderVars, kaznaVars
  <1>n. o # NoOrder
    BY <1>1, PaymentAssumption
  <1>3. TxInv'
    <2>1. \A t \in Tx : status'[t] = "none" <=> orderOf'[t] = NoOrder
      BY <1>1, <1>n DEF TablesInv, TxInv
    <2> QED BY <1>1, <1>2, <2>1 DEF TablesInv, TxInv, IsHistory
  <1>4. OneOpenAttempt'
    BY <1>1, <1>n DEF TablesInv, OneOpenAttempt
  <1>5. PaidTogether'
    <2>1. \A p \in Order, t \in Tx :
            (t \in TxsOf(p) /\ status[t] \in {"paid", "refunded"}) <=>
            (t \in TxsOf(p)' /\ status'[t] \in {"paid", "refunded"})
      BY <1>1, <1>n DEF TxsOf
    <2> QED BY <1>2, <2>1 DEF TablesInv, PaidTogether, TxsOf
  <1>6. PaidIsAuthorised'
    BY <1>1, <1>2 DEF TablesInv, PaidIsAuthorised
  <1>7. \A d \in Creator \ {c} : request[d].pc # "idle" =>
          /\ TxsOf(request[d].order)' = TxsOf(request[d].order)
          /\ \A t \in TxsOf(request[d].order) : status'[t] = status[t]
    <2>1. \A d \in Creator \ {c} : request[d].pc # "idle" =>
            request[d].order \in Order /\ request[d].order # o
      BY <1>2 DEF TablesInv, RequestInv
    <2> QED BY <1>1, <1>2, <1>n, <2>1, PaymentAssumption DEF TxsOf
  <1>8. RequestInv'
    <2>1. \A d \in Creator \ {c} : request[d].pc # "idle" =>
            Replaced(request[d].order)' = Replaced(request[d].order)
      BY <1>2, <1>7 DEF Replaced
    <2>2. \A d \in Creator \ {c} : request[d].pc = "paid" =>
            request[d].tx \in Tx /\ status'[request[d].tx] = "none"
      <3>1. \A d \in Creator \ {c} : request[d].pc = "paid" =>
              /\ request[d].tx \in Tx /\ request[d].tx # new /\ status[request[d].tx] = "none"
        BY <1>2 DEF TablesInv, RequestInv
      <3> QED BY <1>1, <1>n, <3>1 DEF TablesInv, TxInv
    <2> QED BY <1>2, <2>1, <2>2 DEF TablesInv, RequestInv
  <1>9. ChargedOrderIsUnpaid'
    BY <1>2, <1>7 DEF TablesInv, ChargedOrderIsUnpaid
  <1>10. UpdateInv'
    <2>1. \A u \in Updater : update[u].pc \in {"order", "bills"} =>
            /\ update[u].tx \in Tx \ {new} /\ orderOf[update[u].tx] # o
            /\ status[update[u].tx] = "new"
      BY <1>1, <1>2 DEF TablesInv, UpdateInv, HoldsTxs
    <2>2. \A u \in Updater : update[u].pc \in {"order", "bills"} =>
            /\ orderOf'[update[u].tx] = orderOf[update[u].tx]
            /\ status'[update[u].tx] = "new"
      BY <1>1, <2>1
    <2> QED BY <1>2, <2>2 DEF TablesInv, UpdateInv, HoldsTx, HoldsTxs, IsHistory
  <1> QED BY <1>0, <1>3, <1>4, <1>5, <1>6, <1>8, <1>9, <1>10 DEF TablesInv

\* A new update knows nothing but what Kazna has said.
LEMMA StartStep ==
  ASSUME TablesInv, NEW u \in Updater, NEW t \in Tx,
         GetTransaction(u, t) \/ \E code \in Code : Notify(u, t, code)
  PROVE  TablesInv'
  <1>0. TypeOK'
    BY UpdateType DEF TablesInv
  <1> PICK code \in Code : Start(u, t, code) /\ IsHistory(code, t)
    <2>1. CASE GetTransaction(u, t)
      <3>1. payment[t] \in Code
        BY <2>1 DEF GetTransaction, PollsFor, TablesInv, TypeOK, TxInv
      <3> QED BY <2>1, <3>1 DEF GetTransaction, IsHistory
    <2>2. CASE \E code \in Code : Notify(u, t, code)
      BY <2>2 DEF Notify, TablesInv, TxInv
    <2> QED BY <2>1, <2>2
  <1>1. /\ UNCHANGED <<bills, orders, items, status, orderOf, payment, told, request>>
        /\ update'[u].pc = "update" /\ update'[u].tx = t /\ update'[u].code = code
        /\ \A v \in Updater \ {u} : update'[v] = update[v]
    BY DEF GetTransaction, Notify, Start, TablesInv, TypeOK, orderVars, txVars, kaznaVars
  <1>2. TxInv' /\ OneOpenAttempt' /\ PaidIsAuthorised' /\ PaidTogether'
    BY <1>1, RowsKept, OrdersKept
  <1>3. RequestInv' /\ ChargedOrderIsUnpaid'
    BY <1>1 DEF TablesInv, RequestInv, ChargedOrderIsUnpaid, Replaced, TxsOf
  <1>4. UpdateInv'
    BY <1>1 DEF TablesInv, UpdateInv, HoldsTx, HoldsTxs, IsHistory
  <1> QED BY <1>0, <1>2, <1>3, <1>4 DEF TablesInv

\* The end of an update that writes nothing.
LEMMA UpdateEnds ==
  ASSUME TablesInv, TypeOK', NEW u \in Updater, Finished(u),
         UNCHANGED <<bills, orders, items, status, orderOf, payment, told, request>>
  PROVE  TablesInv'
  BY RowsKept, OrdersKept, UpdateOver DEF TablesInv

\* No request has seen a transaction that an update has locked, and no other
\* update has.
LEMMA StatusWrite ==
  ASSUME TablesInv, NEW u \in Updater, NEW t \in Tx, update[u].tx = t,
         \A c \in Creator : ~HoldsTxs(c, orderOf[t]),
         \A v \in Updater \ {u} : ~HoldsTx(v, t),
         NEW s \in TxStatus \ {"none"}, status[t] # "none", status' = [status EXCEPT ![t] = s],
         Finished(u), UNCHANGED <<orderOf, payment, told, request>>
  PROVE  TxInv' /\ RequestInv' /\ UpdateInv' /\ ChargedOrderIsUnpaid'
  <1>1. /\ status'[t] = s /\ \A x \in Tx \ {t} : status'[x] = status[x]
        /\ update'[u].pc = "idle" /\ \A v \in Updater \ {u} : update'[v] = update[v]
        /\ orderOf[t] \in Order
    BY DEF TablesInv, TypeOK, TxInv, Finished, NoUpdate
  <1>2. TxInv'
    BY <1>1 DEF TablesInv, TxInv, IsHistory
  <1>3. \A c \in Creator : request[c].pc \in {"paying", "paid"} =>
          \A x \in TxsOf(request[c].order) : status'[x] = status[x]
    BY <1>1 DEF HoldsTxs, TxsOf
  <1>4. ChargedOrderIsUnpaid'
    BY <1>3 DEF TablesInv, ChargedOrderIsUnpaid, TxsOf
  <1>5. RequestInv'
    <2>1. \A c \in Creator : request[c].pc \in {"paying", "paid"} =>
            Replaced(request[c].order)' = Replaced(request[c].order)
      BY <1>3 DEF Replaced, TxsOf
    <2>2. \A c \in Creator : request[c].pc = "paid" => request[c].tx # t
      BY DEF TablesInv, RequestInv
    <2> QED BY <1>1, <2>1, <2>2 DEF TablesInv, RequestInv
  <1>6. UpdateInv'
    BY <1>1 DEF TablesInv, UpdateInv, HoldsTx, HoldsTxs, IsHistory
  <1> QED BY <1>2, <1>4, <1>5, <1>6

\* A payment that is cancelled or refunded, or told about twice.
LEMMA SetStatusStep ==
  ASSUME TablesInv, NEW u \in Updater, NEW s \in TxStatus, SetStatus(u, s)
  PROVE  TablesInv'
  <1> DEFINE t == update[u].tx
  <1>0. TypeOK'
    BY UpdateType DEF TablesInv, UpdateTransactionStatus
  <1>1. /\ t \in Tx /\ IsHistory(update[u].code, t)
        /\ status' = [status EXCEPT ![t] = s] /\ Finished(u)
        /\ UNCHANGED <<bills, orders, items, orderOf, payment, told, request>>
        /\ \A c \in Creator : ~HoldsTxs(c, orderOf[t])
        /\ \A v \in Updater \ {u} : ~HoldsTx(v, t)
    BY DEF SetStatus, TxIsFree, TablesInv, UpdateInv, orderVars, kaznaVars
  <1>2. /\ status[t] # "none" /\ s # "none"
        /\ \/ s = status[t]
           \/ status[t] = "new" /\ s = "cancelled"
           \/ status[t] = "paid" /\ s = "refunded" /\ payment[t] = "refunded"
    BY <1>1 DEF SetStatus, Transitions, IsHistory
  <1>3. TxInv' /\ RequestInv' /\ UpdateInv' /\ ChargedOrderIsUnpaid'
    BY <1>1, <1>2, StatusWrite
  <1>4. /\ status'[t] = s /\ \A x \in Tx \ {t} : status'[x] = status[x]
    BY <1>1 DEF TablesInv, TypeOK
  <1>5. OneOpenAttempt' /\ PaidIsAuthorised'
    BY <1>1, <1>2, <1>4 DEF TablesInv, OneOpenAttempt, PaidIsAuthorised
  <1>6. PaidTogether'
    <2>1. \A x \in Tx : status'[x] \in {"paid", "refunded"} <=> status[x] \in {"paid", "refunded"}
      BY <1>2, <1>4
    <2> QED BY <1>1, <2>1 DEF TablesInv, PaidTogether, TxsOf
  <1> QED BY <1>0, <1>3, <1>5, <1>6 DEF TablesInv

\* The transaction is NEW, and free.
LEMMA LockPaidStep ==
  ASSUME TablesInv, NEW u \in Updater, LockPaid(u)
  PROVE  TablesInv'
  <1> DEFINE t == update[u].tx
  <1>0. TypeOK'
    BY UpdateType DEF TablesInv, UpdateTransactionStatus
  <1>1. /\ t \in Tx /\ update[u].pc = "update" /\ TxIsFree(t)
        /\ UNCHANGED <<bills, orders, items, status, orderOf, payment, told, request>>
    BY DEF LockPaid, TablesInv, UpdateInv, orderVars, txVars, kaznaVars
  <1>2. status[t] = "new" /\ update[u].code = "auth"
    BY DEF LockPaid, Transitions
  <1>3. /\ update'[u].pc = "order" /\ update'[u].tx = t /\ update'[u].code = update[u].code
        /\ \A v \in Updater \ {u} : update'[v] = update[v]
    BY DEF LockPaid, TablesInv, TypeOK, Update
  <1>4. TxInv' /\ OneOpenAttempt' /\ PaidIsAuthorised' /\ PaidTogether'
    BY <1>1, RowsKept, OrdersKept
  <1>5. RequestInv' /\ ChargedOrderIsUnpaid'
    BY <1>1 DEF TablesInv, RequestInv, ChargedOrderIsUnpaid, Replaced, TxsOf
  <1>6. UpdateInv'
    <2>1. /\ \A c \in Creator : ~HoldsTxs(c, orderOf[t])
          /\ \A v \in Updater : ~HoldsTx(v, t)
      BY <1>1 DEF TxIsFree
    <2> QED BY <1>1, <1>2, <1>3, <2>1 DEF TablesInv, UpdateInv, HoldsTx, HoldsTxs, IsHistory
  <1> QED BY <1>0, <1>4, <1>5, <1>6 DEF TablesInv

\* The order is locked, the transaction as before.
LEMMA LockPaidOrderStep ==
  ASSUME TablesInv, NEW u \in Updater, LockPaidOrder(u)
  PROVE  TablesInv'
  <1>0. TypeOK'
    BY UpdateType DEF TablesInv, UpdateTransactionStatus
  <1>1. /\ update[u].pc = "order"
        /\ update'[u].pc = "bills" /\ update'[u].tx = update[u].tx /\ update'[u].code = update[u].code
        /\ \A v \in Updater \ {u} : update'[v] = update[v]
        /\ UNCHANGED <<bills, orders, items, status, orderOf, payment, told, request>>
    BY DEF LockPaidOrder, TablesInv, TypeOK, Update, orderVars, txVars, kaznaVars
  <1>2. TxInv' /\ OneOpenAttempt' /\ PaidIsAuthorised' /\ PaidTogether'
    BY <1>1, RowsKept, OrdersKept
  <1>3. RequestInv' /\ ChargedOrderIsUnpaid'
    BY <1>1 DEF TablesInv, RequestInv, ChargedOrderIsUnpaid, Replaced, TxsOf
  <1>4. UpdateInv'
    BY <1>1 DEF TablesInv, UpdateInv, HoldsTx, HoldsTxs, IsHistory
  <1> QED BY <1>0, <1>2, <1>3, <1>4 DEF TablesInv

\* Transaction, order and bills together: all the bills have been locked.
LEMMA RecordPaidStep ==
  ASSUME PaymentInv, NEW u \in Updater, RecordPaid(u)
  PROVE  TablesInv'
  <1> DEFINE t == update[u].tx
             o == orderOf[t]
             bs == locking[u].locked
  <1> USE DEF PaymentInv
  <1>0. TypeOK'
    BY UpdateType DEF TablesInv, UpdateTransactionStatus
  <1>1. /\ t \in Tx /\ status[t] = "new" /\ payment[t] \in {"auth", "refunded"}
        /\ \A c \in Creator : ~HoldsTxs(c, o)
        /\ \A v \in Updater \ {u} : ~HoldsTx(v, t)
    BY DEF RecordPaid, TablesInv, UpdateInv, IsHistory
  <1>2. o \in Order
    BY <1>1 DEF TablesInv, TypeOK, TxInv
  <1>b. items[o] \subseteq bs
    <2>1. /\ locking[u].bill = NoBill /\ locking[u].left = {}
          /\ items[o] \subseteq locking[u].left \cup {locking[u].bill} \cup bs
      BY DEF RecordPaid, HasLocked, LockingInv
    <2>2. items[o] \subseteq Bill
      BY <1>2 DEF TablesInv, TypeOK
    <2> QED BY <2>1, <2>2, PaymentAssumption
  <1>3. /\ status' = [status EXCEPT ![t] = "paid"] /\ Finished(u)
        /\ bills' = [b \in Bill |-> IF b \in bs THEN "paid" ELSE bills[b]]
        /\ orders' = [orders EXCEPT ![o] = "paid"]
        /\ UNCHANGED <<items, orderOf, payment, told, request>>
    BY DEF RecordPaid, PaidBills, kaznaVars
  <1>4. TxInv' /\ RequestInv' /\ UpdateInv' /\ ChargedOrderIsUnpaid'
    BY <1>1, <1>3, StatusWrite DEF TxStatus
  <1>5. status'[t] = "paid" /\ \A x \in Tx \ {t} : status'[x] = status[x]
    BY <1>1, <1>3 DEF TablesInv, TypeOK
  <1>6. OneOpenAttempt' /\ PaidIsAuthorised'
    BY <1>1, <1>3, <1>5 DEF TablesInv, OneOpenAttempt, PaidIsAuthorised
  <1>7. PaidTogether'
    <2> SUFFICES ASSUME NEW p \in Order
                 PROVE  /\ orders'[p] = "paid" <=>
                             \E x \in Tx : orderOf[x] = p /\ status'[x] \in {"paid", "refunded"}
                        /\ orders'[p] = "paid" => \A b \in items[p] : bills'[b] = "paid"
      BY <1>3 DEF PaidTogether, TxsOf
    <2>1. CASE p = o
      BY <1>1, <1>2, <1>3, <1>5, <1>b, <2>1 DEF TablesInv, TypeOK
    <2>2. CASE p # o
      <3>1. orders'[p] = orders[p] /\ \A x \in Tx : orderOf[x] = p => status'[x] = status[x]
        BY <1>2, <1>3, <1>5, <2>2 DEF TablesInv, TypeOK
      <3>2. items[p] \subseteq Bill
        BY DEF TablesInv, TypeOK
      <3> QED BY <1>3, <3>1, <3>2 DEF TablesInv, PaidTogether, TxsOf
    <2> QED BY <2>1, <2>2
  <1> QED BY <1>0, <1>4, <1>6, <1>7 DEF TablesInv

\* The database aborts a request, an update or whoever else locks bills: none of
\* them has written anything.
LEMMA DeadlockStep ==
  ASSUME TablesInv, BreakBillDeadlock \/ \E c \in Creator, u \in Updater : BreakDeadlock(c, u)
  PROVE  TablesInv'
  <1>0. TypeOK'
    BY OtherType DEF TablesInv
  <1>1. UNCHANGED <<bills, orders, items, status, orderOf, payment, told>>
    BY DEF BreakDeadlock, BreakBillDeadlock, orderVars, txVars, kaznaVars
  <1>2. CASE \E c \in Creator : Answered(c) /\ UNCHANGED update
    BY <1>0, <1>1, <1>2, RequestEnds
  <1>3. CASE \E u \in Updater : Finished(u) /\ UNCHANGED request
    BY <1>0, <1>1, <1>3, UpdateEnds
  <1>4. CASE UNCHANGED <<request, update>>
    <2>1. PaidTogether'
      BY <1>1, OrdersKept
    <2> QED BY <1>0, <1>1, <1>4, <2>1, TablesOnly
  <1> QED BY <1>2, <1>3, <1>4 DEF BreakDeadlock, BreakBillDeadlock

-----------------------------------------------------------------------------
(* Locks of bills, and orders that are being created.                      *)

\* An update keeps what it has locked, or has locked no bill; its order stays as it
\* was, but for bills that are deleted, and is locked by nobody else.
LEMMA LockingFrame ==
  ASSUME LockingInv,
         \A u \in Updater :
           \/ update'[u].pc # "bills" /\ locking'[u] = NoLocks
           \/ /\ update[u].pc = "bills" /\ update'[u].pc = "bills" /\ update'[u].tx = update[u].tx
              /\ locking'[u] = locking[u]
              /\ orderOf'[update[u].tx] = orderOf[update[u].tx]
              /\ items'[orderOf[update[u].tx]] \subseteq items[orderOf[update[u].tx]]
              /\ \A c \in Creator :
                   request'[c].pc # "idle" => request'[c].order # orderOf[update[u].tx]
  PROVE  LockingInv'
  <1> SUFFICES ASSUME NEW u \in Updater, update'[u].pc = "bills"
               PROVE  /\ \A c \in Creator : ~HoldsOrder(c, orderOf[update[u].tx])'
                      /\ \A v \in Updater \ {u} : ~HoldsOrderToo(v, orderOf[update[u].tx])'
                      /\ items'[orderOf'[update'[u].tx]] \subseteq
                           locking'[u].left \cup {locking'[u].bill} \cup locking'[u].locked
                      /\ locking'[u].bill = NoBill => locking'[u].left = {}
    BY DEF LockingInv
  <1>1. /\ update[u].pc = "bills" /\ orderOf'[update'[u].tx] = orderOf[update[u].tx]
        /\ locking'[u] = locking[u]
    OBVIOUS
  <1>2. \A v \in Updater : update'[v].pc = "bills" =>
          update[v].pc = "bills" /\ orderOf'[update'[v].tx] = orderOf[update[v].tx]
    OBVIOUS
  <1>3. /\ \A v \in Updater \ {u} : ~HoldsOrderToo(v, orderOf[update[u].tx])
        /\ items[orderOf[update[u].tx]] \subseteq
             locking[u].left \cup {locking[u].bill} \cup locking[u].locked
        /\ locking[u].bill = NoBill => locking[u].left = {}
    BY <1>1 DEF LockingInv
  <1> QED BY <1>1, <1>2, <1>3 DEF HoldsOrder, HoldsOrderToo

\* An update that has locked a transaction has an order that exists.
LEMMA OrderOfUpdate ==
  ASSUME PaymentInv, NEW u \in Updater, update[u].pc \in {"order", "bills"}
  PROVE  /\ update[u].tx \in Tx /\ status[update[u].tx] = "new"
         /\ orderOf[update[u].tx] \in Order /\ orders[orderOf[update[u].tx]] # "none"
  <1>1. update[u].tx \in Tx /\ status[update[u].tx] = "new"
    BY DEF PaymentInv, TablesInv, UpdateInv
  <1>2. orderOf[update[u].tx] \in Order
    BY <1>1 DEF PaymentInv, TablesInv, TxInv, TypeOK
  <1> QED BY <1>1, <1>2, PaymentAssumption DEF PaymentInv, OrderInv

\* Requests lock orders that nobody has locked, and create no order.
LEMMA RequestLocks ==
  ASSUME PaymentInv, NEW c \in Creator,
         \/ \E o \in Order : LockOrder(c, o)
         \/ CreateTransaction(c)
         \/ RequestRaises(c)
         \/ \E t \in Tx : PayTimesOut(c, t)
  PROVE  LockingInv' /\ OrderInv'
  <1>1. UNCHANGED <<items, orders, update, write, locking>>
    BY DEF LockOrder, CreateTransaction, OrderAlreadyPaid, CancelPrevious, Refused, Pay, Commit,
           RequestRaises, PayTimesOut, orderVars, billLocks
  <1>2. \A d \in Creator \ {c} : request'[d] = request[d]
    BY DEF LockOrder, CreateTransaction, OrderAlreadyPaid, CancelPrevious, Refused, Pay, Commit,
           RequestRaises, PayTimesOut, Answered, PaymentInv, TablesInv, TypeOK
  <1>3. \/ request'[c].pc = "idle"
        \/ request[c].pc # "idle" /\ request'[c].order = request[c].order
        \/ /\ request'[c].order \in Order /\ orders[request'[c].order] # "none"
           /\ \A u \in Updater : ~HoldsOrderToo(u, request'[c].order)
    <2>1. request \in [Creator -> Request]
      BY DEF PaymentInv, TablesInv, TypeOK
    <2>2. CASE \E o \in Order : LockOrder(c, o)
      BY <2>1, <2>2 DEF LockOrder, OrderIsFree, NoRequest
    <2> QED BY <2>1, <2>2 DEF CreateTransaction, OrderAlreadyPaid, CancelPrevious, Refused, Pay,
                Commit, RequestRaises, PayTimesOut, Answered, NoRequest, Request
  <1>4. \/ UNCHANGED orderOf
        \/ Commit(c)
    BY DEF LockOrder, CreateTransaction, OrderAlreadyPaid, CancelPrevious, Refused, Pay,
           RequestRaises, PayTimesOut, txVars
  <1>5. Commit(c) =>
          /\ request[c].order \in Order /\ orders[request[c].order] # "none"
          /\ status[request[c].tx] = "none"
          /\ orderOf'[request[c].tx] = request[c].order
          /\ \A t \in Tx \ {request[c].tx} : orderOf'[t] = orderOf[t]
    BY CommitWrites DEF Commit, PaymentInv, OrderInv
  <1>6. LockingInv'
    <2>1. \A u \in Updater : update[u].pc = "bills" =>
            /\ orderOf'[update[u].tx] = orderOf[update[u].tx]
            /\ \A d \in Creator : request'[d].pc # "idle" => request'[d].order # orderOf[update[u].tx]
      <3> SUFFICES ASSUME NEW u \in Updater, update[u].pc = "bills"
                   PROVE  /\ orderOf'[update[u].tx] = orderOf[update[u].tx]
                          /\ \A d \in Creator :
                               request'[d].pc # "idle" => request'[d].order # orderOf[update[u].tx]
        OBVIOUS
      <3>1. update[u].tx \in Tx /\ status[update[u].tx] = "new"
        BY OrderOfUpdate
      <3>2. \A d \in Creator : ~HoldsOrder(d, orderOf[update[u].tx])
        BY DEF PaymentInv, LockingInv
      <3> QED BY <1>2, <1>3, <1>4, <1>5, <3>1, <3>2 DEF HoldsOrder, HoldsOrderToo
    <2> QED BY <1>1, <2>1, LockingFrame DEF PaymentInv, LockingInv
  <1>7. OrderInv'
    <2>1. \A t \in Tx : orderOf'[t] # NoOrder => orders[orderOf'[t]] # "none"
      BY <1>4, <1>5 DEF PaymentInv, OrderInv
    <2>2. \A d \in Creator : request'[d].pc # "idle" => orders[request'[d].order] # "none"
      BY <1>2, <1>3 DEF PaymentInv, OrderInv
    <2> QED BY <1>1, <2>1, <2>2 DEF PaymentInv, OrderInv
  <1> QED BY <1>6, <1>7

\* An update locks the bills of an order that nobody else has locked, and all of
\* them.
LEMMA UpdateLocks ==
  ASSUME PaymentInv, NEW u \in Updater,
         \/ \E t \in Tx, code \in Code : Notify(u, t, code)
         \/ \E t \in Tx : GetTransaction(u, t)
         \/ UpdateTransactionStatus(u)
         \/ UpdateRaises(u)
  PROVE  LockingInv' /\ OrderInv'
  <1> USE DEF orderVars, txVars, billLocks
  <1>0. /\ u \in Locker /\ Updater \subseteq Locker
        /\ update \in [Updater -> Update] /\ locking \in [Locker -> Locks]
        /\ items \in [Order -> SUBSET Bill] /\ NoBill \notin Bill
    BY PaymentAssumption DEF PaymentInv, TablesInv, TypeOK, Locker
  <1>1. UNCHANGED <<items, orderOf, request, write>>
    BY DEF Notify, GetTransaction, UpdateTransactionStatus, TransactionNotFound, Rejected, SetStatus,
           LockPaid, LockPaidOrder, BillOrderNotFound, LockBill, BillDoesNotExist, RecordPaid,
           UpdateRaises
  <1>2. OrderInv'
    <2>1. UNCHANGED orders \/ \E o : orders' = [orders EXCEPT ![o] = "paid"] /\ orders[o] # "none"
      <3>1. CASE RecordPaid(u)
        BY <3>1, OrderOfUpdate DEF RecordPaid
      <3> QED BY <3>1 DEF Notify, GetTransaction, UpdateTransactionStatus, TransactionNotFound,
                  Rejected, SetStatus, LockPaid, LockPaidOrder, BillOrderNotFound, LockBill,
                  BillDoesNotExist, UpdateRaises
    <2>2. orders \in [Order -> {"none", "new", "paid"}]
      BY DEF PaymentInv, TablesInv, TypeOK
    <2>3. \A o \in Order : (orders'[o] = "none") <=> (orders[o] = "none")
      BY <2>1, <2>2
    <2>4. \A t \in Tx : orderOf[t] # NoOrder => orderOf[t] \in Order
      BY DEF PaymentInv, TablesInv, TypeOK
    <2>5. \A c \in Creator : request[c].pc # "idle" => request[c].order \in Order
      BY DEF PaymentInv, TablesInv, RequestInv
    <2> QED BY <1>1, <2>3, <2>4, <2>5 DEF PaymentInv, OrderInv
  <1>3. ASSUME \A v \in Updater \ {u} : update'[v] = update[v] /\ locking'[v] = locking[v],
               update'[u].pc # "bills" /\ locking'[u] = NoLocks
        PROVE  LockingInv'
    BY <1>1, <1>3, LockingFrame DEF PaymentInv, LockingInv, HoldsOrder
  <1>4. ASSUME Finished(u) PROVE LockingInv'
    <2>1. /\ update'[u].pc # "bills" /\ locking'[u] = NoLocks
          /\ \A v \in Updater \ {u} : update'[v] = update[v] /\ locking'[v] = locking[v]
      BY <1>0, <1>4 DEF Finished, Release, NoUpdate
    <2> QED BY <1>3, <2>1
  <1>5. ASSUME \/ \E t \in Tx, code \in Code : Notify(u, t, code)
               \/ \E t \in Tx : GetTransaction(u, t)
               \/ LockPaid(u)
        PROVE  LockingInv'
    <2>1. update[u].pc # "bills" /\ update'[u].pc # "bills" /\ UNCHANGED locking
      BY <1>0, <1>5 DEF Notify, GetTransaction, LockPaid, Start, Update
    <2>2. \A v \in Updater \ {u} : update'[v] = update[v]
      BY <1>0, <1>5 DEF Notify, GetTransaction, LockPaid, Start
    <2>3. locking'[u] = NoLocks
      BY <2>1 DEF PaymentInv, LockingInv
    <2> QED BY <1>3, <2>1, <2>2, <2>3
  <1>6. ASSUME LockPaidOrder(u) PROVE LockingInv'
    <2> DEFINE o == orderOf[update[u].tx]
    <2>1. /\ update[u].pc = "order" /\ OrderIsFree(o)
          /\ update'[u].pc = "bills" /\ update'[u].tx = update[u].tx
          /\ \A v \in Updater \ {u} : update'[v] = update[v]
      BY <1>0, <1>6 DEF LockPaidOrder, Update
    <2>2. o \in Order /\ items[o] \subseteq Bill
      BY <1>0, <2>1, OrderOfUpdate
    <2>3. PICK b \in items[o] :
            locking' = [locking EXCEPT ![u] = [bill |-> b, left |-> items[o] \ {b}, locked |-> {}]]
      BY <1>6 DEF LockPaidOrder, StartLocking
    <2>4. /\ locking'[u].bill = b /\ locking'[u].left = items[o] \ {b} /\ b # NoBill
          /\ \A v \in Updater \ {u} : locking'[v] = locking[v]
      BY <1>0, <2>2, <2>3
    <2>5. /\ \A c \in Creator : ~HoldsOrder(c, o)
          /\ \A v \in Updater : ~HoldsOrderToo(v, o)
      BY <2>1 DEF OrderIsFree
    <2>6. ASSUME NEW v \in Updater \ {u}, update[v].pc = "bills"
          PROVE  /\ o # orderOf[update[v].tx]
                 /\ \A x \in Updater \ {v} : ~HoldsOrderToo(x, orderOf[update[v].tx])'
      BY <1>1, <2>1, <2>5, <2>6 DEF PaymentInv, LockingInv, HoldsOrderToo
    <2>7. \A v \in Updater \ {u} : ~HoldsOrderToo(v, orderOf[update[u].tx])'
      BY <1>1, <2>1, <2>5 DEF HoldsOrderToo
    <2>8. \A c \in Creator, v \in Updater :
            HoldsOrder(c, orderOf[update[v].tx])' <=> HoldsOrder(c, orderOf[update[v].tx])
      BY <1>1, <2>1 DEF HoldsOrder
    <2> QED BY <1>1, <2>1, <2>4, <2>5, <2>6, <2>7, <2>8 DEF PaymentInv, LockingInv
  <1>7. ASSUME LockBill(u) PROVE LockingInv'
    <2>1. /\ UNCHANGED update /\ AskForNext(u, {locking[u].bill})
          /\ update[u].pc = "bills" /\ locking[u].bill # NoBill
      BY <1>7 DEF LockBill, PaymentInv, LockingInv, NoLocks
    <2>2. \A v \in Updater \ {u} : locking'[v] = locking[v]
      BY <1>0, <2>1 DEF AskForNext
    <2>3. /\ locking'[u].left \cup {locking'[u].bill} \cup locking'[u].locked
               = (locking[u].left \cup {locking[u].bill} \cup locking[u].locked)
                   \cup {locking'[u].bill}
          /\ locking'[u].bill = NoBill => locking'[u].left = {}
      <3>1. locking[u].left \subseteq Bill
        BY <1>0 DEF Locks
      <3> QED BY <1>0, <2>1, <3>1 DEF AskForNext, NoLocks
    <2>4. \A v \in Updater :
            /\ \A c \in Creator :
                 HoldsOrder(c, orderOf[update[v].tx])' <=> HoldsOrder(c, orderOf[update[v].tx])
            /\ \A x \in Updater :
                 HoldsOrderToo(x, orderOf[update[v].tx])' <=> HoldsOrderToo(x, orderOf[update[v].tx])
      BY <1>1, <2>1 DEF HoldsOrder, HoldsOrderToo
    <2>5. items'[orderOf'[update'[u].tx]] \subseteq
            locking'[u].left \cup {locking'[u].bill} \cup locking'[u].locked
      BY <1>1, <2>1, <2>3 DEF PaymentInv, LockingInv
    <2> QED BY <1>1, <2>1, <2>2, <2>3, <2>4, <2>5 DEF PaymentInv, LockingInv
  <1>8. LockingInv'
    BY <1>4, <1>5, <1>6, <1>7
       DEF UpdateTransactionStatus, TransactionNotFound, Rejected, SetStatus, BillOrderNotFound,
           BillDoesNotExist, RecordPaid, UpdateRaises
  <1> QED BY <1>2, <1>8

\* Whoever else writes bills disturbs no update: an order that is created is not
\* the one of an update, and a bill that is deleted leaves its orders.
LEMMA WriteLocks ==
  ASSUME PaymentInv, NEW w \in Writer, StartBillWrite(w) \/ BillWrite(w) \/ WriteRaises(w)
  PROVE  LockingInv' /\ OrderInv'
  <1> USE DEF orderVars, txVars
  <1>0. /\ w \in Locker /\ w \notin Updater /\ Updater \subseteq Locker
        /\ write \in [Writer -> Write] /\ locking \in [Locker -> Locks]
        /\ orders \in [Order -> {"none", "new", "paid"}]
        /\ NoOrder \notin Order
    BY PaymentAssumption, WorkerAssumption DEF PaymentInv, TablesInv, TypeOK, Locker
  <1>1. /\ UNCHANGED <<orderOf, request, update>>
        /\ \A u \in Updater : locking'[u] = locking[u]
    BY <1>0 DEF StartBillWrite, SaveSearch, CreateOrder, DeleteDocument, StartWrite, StartLocking,
           BillWrite, LockBill, SkipBill, AskForNext, BillNotFound, SearchSaved, OrderCreated,
           DocumentDeleted, WriteRaises, EndWrite, Release
  <1>2. \/ UNCHANGED <<items, orders>>
        \/ DocumentDeleted(w)
        \/ OrderCreated(w)
    BY DEF StartBillWrite, SaveSearch, CreateOrder, DeleteDocument, StartWrite,
           BillWrite, LockBill, SkipBill, BillNotFound, SearchSaved, WriteRaises
  <1>3. OrderCreated(w) =>
          /\ write[w].order \in Order /\ orders[write[w].order] = "none"
          /\ \A v \in Writer \ {w} : write[v].order # write[w].order
          /\ orders' = [orders EXCEPT ![write[w].order] = "new"]
          /\ items' = [items EXCEPT ![write[w].order] = locking[w].locked]
    BY DEF OrderCreated, PaymentInv, OrderInv
  <1>4. LockingInv'
    <2> SUFFICES ASSUME NEW u \in Updater, update[u].pc = "bills"
                 PROVE  items'[orderOf[update[u].tx]] \subseteq items[orderOf[update[u].tx]]
      BY <1>1, LockingFrame DEF PaymentInv, LockingInv, HoldsOrder
    <2>1. /\ orderOf[update[u].tx] \in Order /\ orders[orderOf[update[u].tx]] # "none"
          /\ items \in [Order -> SUBSET Bill]
      BY OrderOfUpdate DEF PaymentInv, TablesInv, TypeOK
    <2> QED BY <1>2, <1>3, <2>1 DEF DocumentDeleted
  <1>5. \A o \in Order : orders[o] # "none" => orders'[o] # "none"
    BY <1>0, <1>2, <1>3 DEF DocumentDeleted
  <1>6. CASE StartBillWrite(w)
    <2>1. /\ UNCHANGED orders
          /\ \A v \in Writer \ {w} : write'[v] = write[v]
          /\ write'[w].kind = "order" =>
               /\ write'[w].order \in Order /\ orders[write'[w].order] = "none"
               /\ \A v \in Writer : write[v].order # write'[w].order
          /\ write'[w].kind # "order" => write'[w].order = NoOrder
      BY <1>0, <1>6 DEF StartBillWrite, SaveSearch, CreateOrder, DeleteDocument, StartWrite
    <2> QED BY <1>0, <1>1, <1>4, <2>1 DEF PaymentInv, OrderInv
  <1>7. CASE UNCHANGED <<orders, write>>
    BY <1>1, <1>4, <1>7 DEF PaymentInv, OrderInv
  <1>8. CASE EndWrite(w)
    <2>1. /\ write'[w].kind = "idle" /\ write'[w].order = NoOrder
          /\ \A v \in Writer \ {w} : write'[v] = write[v]
      BY <1>0, <1>8 DEF EndWrite, NoWrite
    <2>2. \A v \in Writer \ {w} : write[v].kind = "order" => orders'[write[v].order] = "none"
      BY <1>0, <1>2, <1>3 DEF DocumentDeleted, PaymentInv, OrderInv
    <2>3. \A t \in Tx : orderOf[t] # NoOrder => orders'[orderOf[t]] # "none"
      BY <1>5 DEF PaymentInv, TablesInv, TypeOK, OrderInv
    <2>4. \A c \in Creator : request[c].pc # "idle" => orders'[request[c].order] # "none"
      BY <1>5 DEF PaymentInv, TablesInv, RequestInv, OrderInv
    <2>5. \A v \in Writer : write'[v].kind = "order" =>
            /\ write'[v].order \in Order /\ orders'[write'[v].order] = "none"
            /\ \A x \in Writer \ {v} : write'[x].order # write'[v].order
      BY <1>0, <2>1, <2>2 DEF PaymentInv, OrderInv
    <2> QED BY <1>1, <1>4, <2>3, <2>4, <2>5 DEF OrderInv
  <1> QED BY <1>6, <1>7, <1>8
          DEF BillWrite, LockBill, SkipBill, BillNotFound, SearchSaved, OrderCreated,
              DocumentDeleted, WriteRaises

\* Kazna locks nothing, and whoever is aborted releases its locks.
LEMMA OtherLocks ==
  ASSUME PaymentInv,
         \/ \E t \in Tx : KaznaStep(t)
         \/ \E c \in Creator, u \in Updater : BreakDeadlock(c, u)
         \/ BreakBillDeadlock
         \/ UNCHANGED vars
  PROVE  LockingInv' /\ OrderInv'
  <1> USE DEF orderVars, txVars, billLocks
  <1>0. /\ Updater \subseteq Locker /\ update \in [Updater -> Update]
        /\ write \in [Writer -> Write] /\ locking \in [Locker -> Locks]
        /\ request \in [Creator -> Request] /\ NoOrder \notin Order
    BY PaymentAssumption DEF PaymentInv, TablesInv, TypeOK, Locker
  <1>1. UNCHANGED <<orders, items, orderOf>>
    BY DEF KaznaStep, BreakDeadlock, BreakBillDeadlock, vars
  <1>2. \A c \in Creator : request'[c] = request[c] \/ request'[c].pc = "idle"
    <2>1. UNCHANGED request \/ \E d \in Creator : Answered(d)
      BY DEF KaznaStep, BreakDeadlock, BreakBillDeadlock, vars
    <2> QED BY <1>0, <2>1 DEF Answered, NoRequest
  <1>3. \A u \in Updater :
          \/ update'[u] = update[u] /\ locking'[u] = locking[u]
          \/ update'[u].pc = "idle" /\ locking'[u] = NoLocks
    <2>1. CASE \E u \in Updater : Finished(u)
      BY <1>0, <2>1 DEF Finished, Release, NoUpdate
    <2>2. CASE UNCHANGED <<update, locking>>
      BY <2>2
    <2>3. CASE \E w \in Writer : EndWrite(w) /\ UNCHANGED update
      BY <1>0, <2>3, WorkerAssumption DEF EndWrite, Release
    <2> QED BY <2>1, <2>2, <2>3 DEF KaznaStep, BreakDeadlock, BreakBillDeadlock, vars
  <1>4. \A w \in Writer : write'[w] = write[w] \/ write'[w] = NoWrite
    BY <1>0 DEF KaznaStep, BreakDeadlock, BreakBillDeadlock, vars, EndWrite
  <1>5. LockingInv'
    BY <1>1, <1>2, <1>3, LockingFrame DEF PaymentInv, LockingInv, HoldsOrder
  <1>6. OrderInv'
    <2>1. \A w \in Writer : write'[w].kind = "order" => write'[w] = write[w] /\ write[w].order # NoOrder
      BY <1>0, <1>4 DEF NoWrite, PaymentInv, OrderInv
    <2>2. \A w \in Writer : write'[w].order = write[w].order \/ write'[w].order = NoOrder
      BY <1>4 DEF NoWrite
    <2> QED BY <1>1, <1>2, <2>1, <2>2 DEF PaymentInv, OrderInv
  <1> QED BY <1>5, <1>6

-----------------------------------------------------------------------------
(* The theorems.                                                           *)

\* The row locks are enough: whatever requests, updates, notifications and
\* faults come in between, the tables are right.
THEOREM PaymentInvariant == Spec => []PaymentInv
  <1>1. Init => PaymentInv
    <2> SUFFICES ASSUME Init PROVE PaymentInv OBVIOUS
    <2>1. TypeOK
      BY PaymentAssumption DEF Init, TypeOK, TxStatus, Code, NoRequest, Request, NoUpdate, Update,
                              NoWrite, Write, NoLocks, Locks
    <2>2. RequestInv /\ UpdateInv /\ ChargedOrderIsUnpaid
      BY DEF Init, RequestInv, UpdateInv, ChargedOrderIsUnpaid, NoRequest, NoUpdate
    <2>3. TxInv /\ OneOpenAttempt /\ PaidTogether /\ PaidIsAuthorised
      BY DEF Init, TxInv, OneOpenAttempt, PaidTogether, PaidIsAuthorised, TxsOf
    <2>4. LockingInv /\ OrderInv
      BY DEF Init, LockingInv, OrderInv, NoRequest, NoUpdate, NoWrite, Locker
    <2> QED BY <2>1, <2>2, <2>3, <2>4 DEF PaymentInv, TablesInv
  <1>2. PaymentInv /\ [Next]_vars => PaymentInv'
    <2> SUFFICES ASSUME PaymentInv, [Next]_vars PROVE PaymentInv' OBVIOUS
    <2>0. TablesInv
      BY DEF PaymentInv
    <2>1. ASSUME NEW c \in Creator, CreateTransaction(c) \/ RequestRaises(c)
          PROVE  TablesInv'
      <3>1. TypeOK'
        BY <2>0, <2>1, RequestType DEF TablesInv
      <3>2. CASE OrderAlreadyPaid(c) \/ Refused(c) \/ RequestRaises(c)
        BY <2>0, <3>1, <3>2, RequestEnds
           DEF OrderAlreadyPaid, Refused, RequestRaises, orderVars, txVars, kaznaVars
      <3> QED BY <2>0, <2>1, <3>2, CancelPreviousStep, PayStep, CommitStep DEF CreateTransaction
    <2>2. ASSUME NEW u \in Updater, UpdateTransactionStatus(u) \/ UpdateRaises(u)
          PROVE  TablesInv'
      <3>1. TypeOK'
        BY <2>0, <2>2, UpdateType DEF TablesInv
      <3>2. CASE \/ TransactionNotFound(u) \/ Rejected(u) \/ BillOrderNotFound(u)
                 \/ BillDoesNotExist(u) \/ UpdateRaises(u)
        BY <2>0, <3>1, <3>2, UpdateEnds
           DEF TransactionNotFound, Rejected, BillOrderNotFound, BillDoesNotExist, UpdateRaises,
               orderVars, txVars, kaznaVars
      <3>3. CASE LockBill(u)
        <4>1. PaidTogether'
          BY <2>0, <3>3, OrdersKept DEF LockBill, orderVars, txVars
        <4> QED BY <2>0, <3>1, <3>3, <4>1, TablesOnly DEF LockBill, txVars, kaznaVars
      <3> QED BY <2>0, <2>2, <3>2, <3>3, SetStatusStep, LockPaidStep, LockPaidOrderStep, RecordPaidStep
              DEF UpdateTransactionStatus
    <2>3. ASSUME UNCHANGED vars PROVE TablesInv'
      <3>1. TypeOK' /\ PaidTogether'
        BY <2>0, <2>3, OrdersKept DEF TablesInv, TypeOK, vars
      <3> QED BY <2>0, <2>3, <3>1, TablesOnly DEF vars
    <2>4. TablesInv'
      BY <2>0, <2>1, <2>2, <2>3, WriteSteps, LockOrderStep, KaznaSteps, StartStep,
         DeadlockStep, PayStep DEF Next, Fault
    <2>5. LockingInv' /\ OrderInv'
      BY RequestLocks, UpdateLocks, WriteLocks, OtherLocks DEF Next, Fault
    <2> QED BY <2>4, <2>5 DEF PaymentInv
  <1> QED BY <1>1, <1>2, PTL DEF Spec

\* Every variable keeps its type.
THEOREM PaymentTypeCorrect == Spec => []TypeOK
  <1>1. PaymentInv => TypeOK
    BY DEF PaymentInv, TablesInv
  <1> QED BY <1>1, PaymentInvariant, PTL

\* An order never has two transactions that are not CANCELLED, so that the
\* unique index is never violated.
THEOREM OneOpenAttemptCorrect == Spec => []OneOpenAttempt
  <1>1. PaymentInv => OneOpenAttempt
    BY DEF PaymentInv, TablesInv
  <1> QED BY <1>1, PaymentInvariant, PTL

\* Transactions, orders and bills become PAID together.
THEOREM PaidTogetherCorrect == Spec => []PaidTogether
  <1>1. PaymentInv => PaidTogether
    BY DEF PaymentInv, TablesInv
  <1> QED BY <1>1, PaymentInvariant, PTL

\* A transaction is PAID or REFUNDED only if Kazna has said so, however late or
\* often it said it.
THEOREM PaidIsAuthorisedCorrect == Spec => []PaidIsAuthorised
  <1>1. PaymentInv => PaidIsAuthorised
    BY DEF PaymentInv, TablesInv
  <1> QED BY <1>1, PaymentInvariant, PTL

\* While Kazna is asked to charge for an order, no transaction of it can be
\* recorded as PAID.
THEOREM ChargedOrderIsUnpaidCorrect == Spec => []ChargedOrderIsUnpaid
  <1>1. PaymentInv => ChargedOrderIsUnpaid
    BY DEF PaymentInv, TablesInv
  <1> QED BY <1>1, PaymentInvariant, PTL

\* Requests and updates wait for each other in pairs alone, and for no call of Kazna:
\* two requests never have the same order, and whoever is about to record a payment
\* has locked the transaction before any request could, and no other of the order is
\* open.
THEOREM DeadlocksCorrect == Spec => []DeadlocksArePairsOrOverBills
  <1>1. PaymentInv => DeadlocksArePairsOrOverBills
    <2> SUFFICES ASSUME PaymentInv PROVE DeadlocksArePairsOrOverBills OBVIOUS
    <2>1. ASSUME NEW c \in Creator, NEW u \in Updater, UpdateWaitsFor(u, c)
          PROVE  RequestWaitsFor(c, u)
      <3> DEFINE t == update[u].tx
      <3>1. HoldsTx(u, t) /\ t \in Tx /\ HoldsOrder(c, orderOf[t]) /\ ~HoldsTxs(c, orderOf[t])
        BY <2>1 DEF UpdateWaitsFor, HoldsTx, PaymentInv, TablesInv, UpdateInv
      <3>2. request[c] \in Request /\ request[c].order = orderOf[t]
        BY <3>1 DEF PaymentInv, TablesInv, TypeOK, HoldsOrder
      <3>3. request[c].pc = "order"
        BY <3>1, <3>2 DEF HoldsOrder, HoldsTxs, Request
      <3> QED BY <3>1, <3>2, <3>3 DEF RequestWaitsFor, TxsOf
    <2>2. ASSUME NEW c \in Creator, NEW u \in Updater, RequestWaitsFor(c, u)
          PROVE  UpdateWaitsFor(u, c)
      <3>1. HoldsOrder(c, orderOf[update[u].tx]) /\ update[u].pc \in {"order", "bills"}
        BY <2>2 DEF RequestWaitsFor, TxsOf, HoldsTx, HoldsOrder
      <3>2. update[u].pc # "bills"
        BY <3>1 DEF PaymentInv, LockingInv
      <3> QED BY <3>1, <3>2 DEF UpdateWaitsFor
    <2>3. ASSUME NEW c \in Creator, NEW d \in Creator, request[c].pc = "order",
                 HoldsTxs(d, request[c].order)
          PROVE  FALSE
      BY <2>3 DEF HoldsTxs, PaymentInv, TablesInv, RequestInv
    <2>4. ASSUME NEW u \in Updater, NEW v \in Updater, update[u].pc = "order",
                 HoldsOrderToo(v, orderOf[update[u].tx])
          PROVE  FALSE
      <3>1. /\ u # v /\ update[v].pc = "bills"
            /\ update[u].tx \in Tx /\ status[update[u].tx] = "new"
            /\ update[v].tx \in Tx /\ status[update[v].tx] = "new"
            /\ orderOf[update[v].tx] = orderOf[update[u].tx] /\ orderOf[update[u].tx] \in Order
        BY <2>4, OrderOfUpdate DEF HoldsOrderToo
      <3>2. update[u].tx = update[v].tx
        BY <3>1, PaymentAssumption DEF PaymentInv, TablesInv, OneOpenAttempt
      <3> QED BY <2>4, <3>1, <3>2 DEF PaymentInv, TablesInv, UpdateInv, HoldsTx
    <2> QED BY <2>1, <2>2, <2>3, <2>4 DEF DeadlocksArePairsOrOverBills
  <1> QED BY <1>1, PaymentInvariant, PTL

\* So whatever set of processes wait for each other: two of them are a request and
\* an update that do, or all of them wait for bills.
THEOREM EveryCircleCorrect == Spec => []EveryCircle
  <1>1. DeadlocksArePairsOrOverBills => EveryCircle
    <2> SUFFICES ASSUME DeadlocksArePairsOrOverBills,
                        NEW S \in SUBSET (Creator \cup Locker), S # {},
                        \A x \in S : \E y \in S : Waits(x, y),
                        \A c \in S \cap Creator, u \in S \cap Updater :
                          ~(RequestWaitsFor(c, u) /\ UpdateWaitsFor(u, c))
                 PROVE  \A x \in S : x \in Locker /\ locking[x].bill # NoBill
      BY Zenon DEF EveryCircle
    <2> SUFFICES ASSUME NEW x \in S PROVE x \in Locker /\ locking[x].bill # NoBill
      OBVIOUS
    <2> PICK y \in S : Waits(x, y)
      OBVIOUS
    <2>1. CASE x \in Locker /\ y \in Locker /\ WaitsForBill(x, y)
      BY <2>1 DEF WaitsForBill
    <2> QED BY <2>1 DEF Waits, DeadlocksArePairsOrOverBills
  <1> QED BY <1>1, DeadlocksCorrect, PTL

-----------------------------------------------------------------------------
(* BillPayment implements OrderAttempts.                                   *)

\* A commit begins an attempt.
LEMMA CommitBegins ==
  ASSUME TablesInv, NEW c \in Creator, Commit(c)
  PROVE  \E o \in Order, t \in Tx : Attempts!Begin(o, t)
  <1> DEFINE o == request[c].order
             new == request[c].tx
  <1>1. /\ o \in Order /\ new \in Tx /\ status[new] = "none" /\ orderOf[new] = NoOrder
        /\ status'[new] = "new"
        /\ \A t \in Tx \ {new} :
             /\ orderOf[t] = o => status[t] \in {"new", "cancelled"} /\ status'[t] = "cancelled"
             /\ orderOf[t] # o => status'[t] = status[t]
    BY CommitWrites
  <1>2. status' = [u \in Tx |-> IF u = new THEN "new"
                                ELSE IF orderOf[u] = o THEN "cancelled" ELSE status[u]]
    BY <1>1 DEF Commit
  <1>3. orderOf' = [orderOf EXCEPT ![new] = o] /\ UNCHANGED orders
    BY DEF Commit, orderVars
  <1>4. o \notin PaidOrders
    <2>1. \A t \in TxsOf(o) : status[t] \in {"new", "cancelled"}
      BY DEF Commit, TablesInv, ChargedOrderIsUnpaid
    <2> QED BY <1>1, <2>1 DEF PaidOrders, TablesInv, PaidTogether
  <1>5. UNCHANGED PaidOrders
    BY <1>3 DEF PaidOrders
  <1>6. Attempts!Begin(o, new)
    BY <1>1, <1>2, <1>3, <1>4, <1>5 DEF Attempts!Begin
  <1> QED BY <1>1, <1>6

\* A notification or a poll ends one, or changes nothing.
LEMMA UpdateSettles ==
  ASSUME TablesInv, NEW u \in Updater, UpdateTransactionStatus(u)
  PROVE  \/ \E t \in Tx : Attempts!Succeed(t) \/ Attempts!Fail(t) \/ Attempts!Refund(t)
         \/ UNCHANGED Attempts!attemptVars
  <1> DEFINE t == update[u].tx
  <1>t. update[u].pc # "idle" => t \in Tx
    BY DEF TablesInv, UpdateInv
  <1>1. CASE \E s \in TxStatus : SetStatus(u, s)
    <2> PICK s \in TxStatus : SetStatus(u, s) BY <1>1
    <2>1. /\ t \in Tx /\ status' = [status EXCEPT ![t] = s] /\ UNCHANGED <<orderOf, PaidOrders>>
      BY <1>t DEF SetStatus, orderVars, PaidOrders
    <2>2. \/ s = status[t]
          \/ status[t] = "new" /\ s = "cancelled"
          \/ status[t] = "paid" /\ s = "refunded"
      BY DEF SetStatus, Transitions
    <2>3. status[t] = s => UNCHANGED status
      BY <2>1 DEF TablesInv, TypeOK
    <2> QED BY <2>1, <2>2, <2>3 DEF Attempts!Fail, Attempts!Refund, Attempts!attemptVars
  <1>2. CASE RecordPaid(u)
    <2>1. t \in Tx /\ status[t] = "new" /\ orderOf[t] \in Order
      BY <1>2, <1>t DEF RecordPaid, TablesInv, UpdateInv, TxInv, TypeOK
    <2>2. PaidOrders' = PaidOrders \cup {orderOf[t]}
      BY <1>2, <2>1 DEF RecordPaid, PaidOrders, TablesInv, TypeOK
    <2> QED BY <1>2, <2>1, <2>2 DEF RecordPaid, Attempts!Succeed
  <1>3. CASE UNCHANGED <<status, orderOf, orders>>
    BY <1>3 DEF Attempts!attemptVars, PaidOrders
  <1> QED BY <1>1, <1>2, <1>3
          DEF UpdateTransactionStatus, TransactionNotFound, Rejected, LockPaid, LockPaidOrder,
              BillOrderNotFound, LockBill, BillDoesNotExist, txVars, orderVars

\* The refinement: an order is paid by a sequence of attempts, one at a time and
\* with success at most once, although requests and updates run concurrently.
THEOREM BillPaymentImplementsAttempts == Spec => ImplementsAttempts
  <1>1. Init => Attempts!Init
    BY DEF Init, Attempts!Init, PaidOrders
  <1>2. PaymentInv /\ [Next]_vars => [Attempts!Next]_(Attempts!attemptVars)
    <2> SUFFICES ASSUME PaymentInv, [Next]_vars
                 PROVE  Attempts!Next \/ UNCHANGED Attempts!attemptVars
      OBVIOUS
    <2>0. TablesInv
      BY DEF PaymentInv
    <2>1. CASE \E c \in Creator : Commit(c)
      BY <2>0, <2>1, CommitBegins DEF Attempts!Next
    <2>2. CASE \E u \in Updater : UpdateTransactionStatus(u)
      BY <2>0, <2>2, UpdateSettles DEF Attempts!Next
    <2>3. CASE \E w \in Writer : OrderCreated(w)
      <3> PICK w \in Writer : OrderCreated(w) BY <2>3
      <3>1. write[w].order \in Order /\ orders[write[w].order] = "none"
        BY DEF OrderCreated, PaymentInv, OrderInv
      <3> QED BY <3>1, <2>0 DEF OrderCreated, TablesInv, TypeOK, Attempts!attemptVars, PaidOrders, txVars
    <2>4. CASE UNCHANGED <<status, orderOf, orders>>
      BY <2>4 DEF Attempts!attemptVars, PaidOrders
    <2> QED BY <2>1, <2>2, <2>3, <2>4
            DEF Next, Fault, vars, txVars, orderVars, CreateTransaction, LockOrder,
                OrderAlreadyPaid, CancelPrevious, Refused, Pay, PayTimesOut, RequestRaises,
                KaznaStep, Notify, GetTransaction, UpdateRaises, BreakDeadlock, BreakBillDeadlock,
                StartBillWrite, SaveSearch, CreateOrder, DeleteDocument, StartWrite, BillWrite,
                LockBill, SkipBill, BillNotFound, SearchSaved, DocumentDeleted, WriteRaises
  <1> QED BY <1>1, <1>2, PaymentInvariant, PTL DEF Spec, ImplementsAttempts, Attempts!Spec
=============================================================================
