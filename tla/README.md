# Verification of yandex-pay

TLA+ modules for the parts of this repository whose correctness depends on the
order of steps of several actors: their specifications, the TLC runs that check
them on small instances and the theorems that TLAPS proves for all instances.

## The system

The repository holds a payment product in several programs.

| component | where | state it keeps | operations |
|---|---|---|---|
| documents and search for fines | `bill_payments/core/actions/{bill,document,user}` | tables `users` (`revision`, `synced_revision`, `syncing_revision`), `documents`, `bills`, `tasks`; subscriptions at Kazna | create, update, delete a document; force a search; `SearchFinesAction` |
| orders and transactions | `bill_payments/core/actions/{order,transaction}` | tables `orders`, `bill_orders`, `transactions`; payments at Kazna | create an order, create a transaction (charge), poll it, take a notification |
| notifications of new bills | `core/actions/bill/create.py` | `bills` | insert a bill for a notification, queue a push |
| task queue | `bill_payments/taskq` | `tasks`, `workers` | take, retry, fail, finish, redeliver |
| amounts | `storage/entities/bill.py` | none | discount, fee |
| keys of Mastercard | `duckgo/mastercard/keys_manager.go` | keys held by two goroutines, cache file | start, get, reload at a tick, close |
| payment tokens, server | `duckgo/{paymenttoken,server,googlepay}` | none of their own | verify, decrypt, encrypt |
| payment on the merchant's page | `pay-frontend/services/sdk/src/payment` | the open form, `paymentCompleted`, a timer, callbacks under way | checkout, complete, destroy, messages of the form |
| windows of the checkout | `pay-frontend/packages/utils/connections` | connection state of both sides | open, connect, close |
| checkout process | `pay-frontend/packages/pay-common/checkout-process`, `services/checkout/src/store/checkout` | `order`, `lastTransactionStatus`, listeners; stage and order in the store | start, cancel, watch a payment, challenges |
| calls to the merchant | `services/checkout/src/{lib/intercom,store}` | listeners, `RpcQueue`, `asyncData` of the stores, both copies of the order | ask for options, points, an order with an option or a coupon |
| rest of the checkout window | `pay-frontend/services/checkout` | stores of contacts, addresses, cards | load, authorise |
| fetch and APIs | `pay-frontend/packages/{fetch,pay-api}` | attempts of a request | retry, timeout, refresh of tokens |
| merchant console | `console-frontend/src/store` | stores, sagas | register, submit |
| the rest | `lib`, `integration`, `frontend`, `sprint`, `contrib`, `tools` | none of interest | clients, schemas, vendored code, builds |

`bill_payments` is where money and concurrency meet, and it comes first.

### How the parts of bill_payments interact

Every change of a document increments `users.revision` and queues a
`SearchFinesAction` with the new revision in the same database transaction.
Workers of the task queue take the tasks, several of one user at the same time;
each acquires the user by writing its revision to `users.syncing_revision`, asks
Kazna for charges and saves bills and `synced_revision` together.  The API shows
the bills and calls the state COMPLETED when `synced_revision = revision`.  The
user pays bills through an order and one or more transactions; Kazna notifies
about payments (webhook) and is asked about them (polling).  The payment part
writes `bills.status`, which the search reads; deleting a document deletes its
bills, which the payment part reads.  All of them lock rows of `bills` one by one,
in no common order.

### How the checkout window works

`CheckoutProcess` is a singleton.  Each start of a payment runs a coroutine that
creates an order and a transaction and then asks for the status of the
transaction every four seconds; the services of `store/checkout` listen to its
events, set the stage of the window and tell the merchant of success.  Cancelling
resets the order and removes the listeners, and stops no coroutine.

The window is opened by the SDK on the page of the merchant (`BasePayment`).  The
form sends its result as a message; the SDK counts it, waits until the page is
looked at and emits Process to the merchant.  That the window was closed it learns
from a timer, and then emits Abort.  While the user fills in the form, it asks the
merchant, by way of the SDK, for delivery options, pickup points and orders; the
answers come back as Updates that do not name what they answer.

### How duckgo keeps its keys

A worker goroutine downloads Mastercard's keys at the start, or reads the cache
file, and serves them over a channel; an updater goroutine downloads them anew at
every tick and hands them over.  Both write the cache file.

### What is hard

* The search is a sequence of separate transactions and calls of Kazna, and the
  documents may change between any two of them.
* Several tasks of one user run at once; `_retry` makes a new task before the old
  row is finished; a worker may fail or die anywhere, and the task is then taken
  again from the start or, after `max_retries`, never.
* Nothing but `syncing_revision` keeps tasks apart, and it is set and reset by
  different transactions.
* A payment request calls Kazna inside a database transaction and under row
  locks; notifications may come before it commits, twice, late or never; the two
  payment actions lock the same rows in opposite orders, and updates, searches, new
  orders and deleted documents lock the same bills in any order.
* In the checkout window every `await` lets the user cancel and start again; all
  coroutines share one order, one last status and one list of listeners; a timer or
  the binding of a card may act on a window that shows something else by then.
* The end of a checkout takes the SDK several turns, up to 1.5 and 5 seconds apart,
  in which the form is closed, refreshed or opened again, and may send another
  result; the callbacks act on whatever checkout is at hand by then.
* Calls to the merchant overlap, time out and are answered late; every listener
  that finds in an Update what it waits for takes it for its own.
* The goroutines of the keys manager block on each other's channels and on
  downloads, share a file without a lock and have to stop at any point.

### What makes it correct

* Search: what is shown as COMPLETED belongs to the present documents, whatever
  happened in between; a paid bill stays paid; Kazna is called by one task at a
  time; each revision is synced or superseded in the end.
* Payment: at most one open transaction per order; transaction, order and bills
  PAID together and only on what Kazna has said; no second charge of a paid
  order; every request ends; what Kazna has settled is settled here.
* Checkout: the merchant is told of success only for an order that is paid; a
  success stays on the screen; a cancelled payment comes to rest; a payment whose
  transaction is settled does not stay in progress.
* SDK: no Abort once the callback of a result has run; a checkout whose window is
  closed is answered; every result received is emitted, and emitted once.
* Calls: a preloader is there only while a call is under way; form and SDK have one
  order after calls in turn; one answer with points ends one fetch.
* Keys: they do not go back, the cache is no older than what has been served, Get
  and Close return, and updates survive failures.

`PROJECT.json` lists every component and, under `hazards`, the places in the code
where these properties are at stake.

## The modules

| module | what it is |
|---|---|
| `BillSync` | documents, revisions and the search for fines of one user |
| `BillBook` | what the user is promised of it; `BillSync` implements it |
| `BillNotifications` | `BillSync` together with the webhook that stores new bills |
| `NotifiedBook` | `BillBook` in which charges also appear by notification; `BillNotifications` implements it |
| `BillPayment` | orders, transactions, notifications and polling of payments |
| `OrderAttempts` | the sequence of attempts an order is paid by; `BillPayment` implements it |
| `BillAmount` | discount, fee and total of a bill while days pass |
| `CheckoutPayment` | the payments of one checkout window |
| `SdkPayment` | the checkouts of one payment object on the merchant's page |
| `CheckoutOutcomes` | what the merchant may be told of them; `SdkPayment` implements it |
| `MerchantCalls` | the calls of the form to the merchant |
| `KeysManager` | the keys of Mastercard, their cache and two goroutines |
| `MC*` | values of the constants for TLC |
| `*_proofs` | theorems and proofs |

Operators named `X_M` are mutants of `X`: what `X` would be with a plausible
mistake.  Each property has one that it detects.

### BillSync

One user (`uid`); other users share nothing with it but the workers.

| variable | code |
|---|---|
| `revision`, `synced`, `syncing` | `users.revision`, `synced_revision`, `syncing_revision` (0, never a revision, for NULL) |
| `docs` | `documents`: the value of each row, `Unborn` before it is created and `Deleted` after |
| `bills` | `bills`: status (`none` for no row, `gone` for a bill Kazna no longer lists) and document |
| `task` | rows of `tasks` together with what the worker running them remembers: revision, `sync_subscription`, retries, documents read, stale subscriptions, charges |
| `subscribed` | the values Kazna sends notifications for |
| `creating`, `forcing` | requests between a check made without a lock and the transaction that follows |
| `answered` | history: the documents and charges of the last saved search |
| `faults` | bound on exceptions and deaths of workers |

A task goes through `pending`, `acquired`, `listing`, `unsubscribing`,
`searching`, `saving`, `returned`: one value for each place where
`SearchFinesAction.handle` has committed a transaction or waits for Kazna, so
that everything else may happen there.  `AcquireUser`, `DropObsolete` and
`WaitForPrevious` are the three ways through `_acquire_user`, under the lock of
the row of the user; `SearchComplete` and `SearchPart` are the two answers of
Kazna; `Complete` is `_complete`, with every assignment of charges to documents
that `_find_document` may choose.  `_retry` inserts its new row before the old
one is finished.  `Raise` is any exception (backoff, then FAILED for good);
`Die` is the death of a worker, after which the task is taken again.  The
constant `FinishMayFail` says whether a worker may die between the end of
`handle` and the finish of its row.

`BillBook` has four variables: the state the API answers with, what the documents
say, and the unpaid and the paid bills.  `ImplementsBook` maps `BillSync` to it.

### BillNotifications

Extends `BillSync`: a webhook handles a batch as one database transaction of
several statements.  `MatchDocument` looks for the bill and for a document,
`InsertBill` inserts later; rows are visible to others at `CommitBatch`, and hold
their key and their document until then (`RowsAreLocked`, `CompleteConflicts`).
`RollBack` is a refused insert or a deadlock broken by the database.  Actions of the
search are restricted here by what the locks of a batch do not let them do, so every
step is one of `BillSync` or one of a webhook.

`NotifiedBook` adds to `BillBook` the fines Kazna has notified about and a step `Add`,
in which bills of such fines appear together.  `ImplementsNotifiedBook` maps
`CommitBatch` to it, `Receive` to `Notify`, and the steps of the search to those of
`BillBook`.

### BillPayment

| variable | code |
|---|---|
| `bills`, `orders`, `items` | statuses of `bills` and `orders`; `bill_orders` |
| `status`, `orderOf` | `transactions` |
| `payment`, `told` | Kazna: status of the payment of a transaction, and what it may notify about |
| `request` | calls of `CreateTransactionAction`, which hold the row of the order and, from the check of its transactions on, these too |
| `update` | calls of `UpdateTransactionStatusAction`, from a notification or from polling: they lock the transaction, then the order, then its bills |
| `write` | whoever else locks bills: a search that saves, an order being created, a document being deleted |
| `locking` | the bills an update or a writer has locked, the one it asks for, and those to come |

A request is one database transaction with a call of Kazna inside: what it writes
appears at `Commit`, and is lost if it raises, dies or times out, whatever Kazna
has done.  Row locks are what other actions may not do meanwhile; the two actions
take them in opposite orders, and `BreakDeadlock` is the database choosing a
victim.  `RequestWaitsFor` and `UpdateWaitsFor` say who waits for whom.

Bills are read without `ORDER BY` and locked one by one (`update_status.py:98`,
`search.py:82`), in whatever order the database finds them; a foreign key of
`bill_orders` takes a shared lock, a deleted document the locks of its bills.
`WaitsForBill` is this relation, and `BreakBillDeadlock` breaks any circle of it, of
two or more.  `write` is no second model of the search: what is saved is a choice, and
what matters here is which rows are locked, and what happens to their status.

`OrderAttempts` forgets requests, locks, Kazna and bills; a new attempt replaces
the open one in one step.

### BillAmount

`discounted_amount`, `fee_amount` and their sum as functions of bill and day, in
integers of thousandths; `NextDay` is midnight.

### CheckoutPayment

| variable | code |
|---|---|
| `order`, `last`, `listeners` | `CheckoutProcess.order`, `lastTransactionStatus`, and whose starts have registered listeners |
| `stage`, `stored` | `checkout.stage`, and `checkout.order` or `processData` |
| `run` | the coroutines: the call each awaits, its method, the transaction it has asked about and the answer under way |
| `tx` | server: statuses of transactions |
| `reported` | what `successCheckout` or `processPayment` has been called with |
| `challenges` | `CHALLENGE_NUM` |
| `panel`, `loading` | the frame of the panel for a new card shown last, and the frames whose timer of 15 s is running and that are not ready |
| `bound` | a card has been bound, and `selectBindedCard` is between its `await`s: payments with it are to start |
| `leaving` | the timers of 2 s of `auth-ya.tsx` and `success-redirect.tsx` that are to go off |
| `overlapped` | history: a payment was started while another was alive or had its listeners still |
| `server` | `IS_CHECKOUT_SERVER` |

An action is what runs between two awaits.  An emitted event runs all its
listeners at once, so what they do to the store is part of the emitting action;
without listeners the store stays as it is, and those of several starts all act.
Nothing clears the timers: `FrameTimesOut` fails the form in any stage, and `StartBound`
starts a payment in any stage, as `failPaymentService` and `startPayment` do, which do
not look at it.  `ServerAnswers`
reads the status and one of the following actions handles it: anything may happen
between the two.

### SdkPayment

A checkout is the value of `checkoutCounter` at its start.

| variable | code |
|---|---|
| `firefox`, `page` | `isFirefox` (no overlay there), and whether the page and the payment object are still there |
| `count`, `agent` | `checkoutCounter`, and the checkout `connectionAgent` belongs to |
| `completed`, `checker`, `overlay` | `paymentCompleted`, `checkTargetOpeningTimer`, the overlay |
| `window`, `inbox` | the form in the window; the messages of forms under way |
| `sent` | history: whose form has sent each result, in order; the place in it is the number of the result |
| `counting`, `focusing` | callbacks of `counters.paymentProcess` and of `pageFocusWatcher` that are still to come |
| `told`, `aborted` | history: how often the merchant was told each result, and an Abort of each checkout |
| `released`, `struck` | history: which checkouts were given up; which were ended by an earlier one |

An action is one turn of the page or of the form.  `OnProcess` receives a result,
`Counted` is the callback up to 1.5 s later that completes the checkout and closes
the window, `Focused` the one up to 5 s later that emits.  `Tick` is the timer that
finds the window closed.  The form may be closed or refreshed at any moment
(`UserCloses`, `UserRefreshes`), with or without time to send its Abort, and as long
as it is open it may send a result, once more if need be (`FormEnds`): after a Success or
a Split its window stays, can be refreshed, and `onMessage` refuses nothing.  The
messages of the code have no number and name no checkout; here the number is there
for the properties, and no guard looks at it.

`CheckoutOutcomes` forgets windows, messages, timers and callbacks: checkouts are
opened, their forms send results, and the merchant is told of Aborts and of results.
`ImplementsOutcomes` maps `count`, `sent`, `told` and `aborted` to it.

### MerchantCalls

| variable | code |
|---|---|
| `call` | calls of the form: kind, progress, and the address a call has been made for |
| `asked`, `toForm` | events the merchant has not answered; Updates of the SDK on their way |
| `queue`, `counter` | `RpcQueue` and `fetchPickupPointsCounter` |
| `status` | `asyncData` of each part of the store |
| `selected`, `listOf`, `coupon`, `shown` | what the form shows: address, whose options, an activated coupon, the answer its order comes from |
| `sdkOrder` | the answer the order of the SDK comes from |
| `disturbed` | history: a call has overlapped another one or timed out |

An Update is a set of contents together with the event it answers; the form sees
the contents only (`Hears`), and the event is there for the properties.  `Deliver`
is the handling of an Update by all listeners at once, with what the continuations
do to the store, in the order in which they run; `Timeout`, `Pinged` and `Updated`
are the later ends of a call.  `Arm` is the timer of `RpcQueue`
that sets the listener of a fetch after its event has been sent.

### KeysManager

| variable | code |
|---|---|
| `options` | whether there is a cache path, and whether ticks may come before the first download ends |
| `published` | Mastercard: the number of its last set of keys |
| `process`, `starts` | the process: up, closing, closed or crashed |
| `pc`, `keys` | where worker and updater are, and the keys they hold |
| `file`, `damaged` | the cache file, and whether a save was cut short (history) |
| `waiting`, `seen` | callers blocked in `Get`; the newest keys any has been given (history) |

A save is two steps, `Truncate` and `Write`, as `WriteFile` is; a crash may come
between them and the other goroutine may come in.  `HandOver` and `GiveUp` are the
two branches of the updater's select, `WorkerStops` and `UpdaterStops` the ends by
`ctx`.

## The runs

TLC checks twelve configurations; `about` in `PROJECT.json` has a sentence on each.

| run | what is small | why it is enough |
|---|---|---|
| `sync_safety` | 3 task rows, 2 documents, 2 values, 2 fines, 4 revisions, 2 retries, 1 fault | one task runs, one waits, one is new; a document changes twice during a search; a fine goes stale with the value of its document; fewer faults than retries, so that no task fails for good |
| `sync_live` | the same rows and documents, 1 fine, 3 revisions, 2 retries, 1 fault, `FinishMayFail` | two tasks of one revision side by side, and a retry to spare, so that no task fails for good |
| `notices` | 2 tasks, 1 document, 2 fines, 2 webhooks, 3 revisions | two batches in both orders, beside a search that is superseded |
| `payment_safety` | 2 bills, 2 orders, 2 transactions, 2 requests, 2 updates, 1 writer, 1 fault | an attempt is replaced, with a request and two notices at the same time; two orders share bills, so that two updates and a writer wait for each other's rows; two writers at once are in `payment_live`, and more of each is covered by the theorems |
| `payment_live` | 2 bills, 1 order, 1 transaction, 1 request, 1 update, 2 writers, no faults but refusals and failing writes | a circle of a request and an update, circles of an update and the writers over two bills, and a bill that one writer deletes while another waits for its row; attempts that replace one another and circles of two updates are in `payment_safety` and the theorems only |
| `amounts` | 425 amounts, 7 discounts, 4 days | every amount near a limit of rounding and near where the fee exceeds its minimum |
| `checkout` | 2 payments, 1 challenge, 1 frame | one payment alive beside the next, both limits of challenges, and a frame whose timer outlives its panel; with three payments the interference is again between two |
| `checkout_cancelled` | 2 payments, 1 frame | as before |
| `sdk` | 2 checkouts, 3 results, 2 messages under way at a refresh | a checkout, and the messages and callbacks of the one before it; two results of one form beside one of the other |
| `sdk_aborted` | 1 checkout, 1 result, 1 message | the counterexample needs no more |
| `calls` | 2 calls of the user, 2 addresses | two calls overlap in every way; there are three events, since a new address is followed by the choice of an option |
| `keys` | 2 callers, 3 sets of keys, 2 starts, all options | old, newer and newest keys in file, worker and updater; a crash and what is read after it |

Task rows and documents are interchangeable in `sync_safety`, and so are workers
and ids in `notices` and `payment_safety`; runs with liveness use no symmetry.
Deadlock is not checked: the bounds stop users in the end, and a system in which
nobody wants anything rightly stands still.  What must go on is stated by the
liveness properties.

### Fairness

* `BillSync!Fairness`: workers take every due task and every step of theirs ends
  (the arbiter of the queue polls for tasks, and every call has a time limit), and
  a search that is repeated for ever is answered COMPLETE at some time, which
  only Kazna can promise.  Nothing is assumed of users; faults need not happen.
* `BillPayment!Fairness`: requests, updates and writers go on, the database breaks
  deadlocks of either kind, and a status is asked for again and again.  Strong fairness, because
  a step may be disabled by a lock others take and release.  The users of
  `GetTransaction` do the polling.  Notifications need not arrive.
* `CheckoutPayment!FairSpec`: every call is answered or fails, and timers go off
  (weak fairness of the turns of each coroutine).  That transactions are settled
  is a premise of `EveryPaymentEnds`, not an assumption.
* `SdkPayment!FairSpec`: messages are delivered, the 500 ms timer ticks, and the two
  callbacks of each result come at their time limits of 1.5 and 5 s.  Nothing is assumed of the
  user or of the merchant.
* `MerchantCalls!FairSpec`: Updates are delivered, and the limits of 15 s for a call
  and 1 s for a ping go off.  The merchant need not answer, and nothing is assumed
  of `Arm`: no property that is checked depends on it.
* `KeysManager!Fairness`: the first download ends, at its timeout if not before;
  saves end; channels serve; ticks come.  A later download of the updater may hang,
  because the HTTP client has no timeout, and ends only when `Close` cancels it;
  that such downloads are answered is a premise of `CatchesUp`.  Strong fairness for
  `UpdaterStops`: select chooses at random between a tick and `ctx.Done()`.  Crashes
  and starts need not happen.

## What is proved

TLAPS checks some 8,200 obligations.  Everything holds for every value of the constants
allowed by the named assumptions of the modules, which TLC evaluates as well.  Every
safety property that a passing run checks is proved, with the invariant it rests on.
The type invariants are proved for every module and no longer run.

**The search** (`BillSync_proofs`).  `CompletedBillsAreExact` is not inductive:
it depends on what tasks remember.  `TasksInv` adds that the revisions are
ordered (`RevisionsOrdered`) and that documents remembered by a task of the
present revision are the present documents (`RowInv`): a change of documents and
the increment of the revision are one transaction, so a task whose documents are
old has an old revision, and saving it cannot make `synced` equal to `revision`.
This holds whatever workers fail, die or run twice.  `SearchInv` is both together,
and the part about bills is kept apart because `BillNotifications` has another one.
`BillsHaveDocuments`, `SyncedMonotonic`, `PaidStaysPaid` and the refinement
`ImplementsBook` follow from it.  `OneKaznaCall` and `CompletedIsSubscribed` need more,
that no two active rows have one revision (`HolderInv`), and that what a task saves or
removes agrees with the subscriptions (`SubscriptionInv`); these two are proved under
`~FinishMayFail`, without which they are false (see below).

Two invariants are what the liveness of the search rests on, and can be proved while
liveness cannot.  `LatestIsQueued`: as long as the present revision is not synced, a
task with that revision is in the queue or in work; dropping an obsolete task, waiting
for an earlier one, retries and redelivery all keep it.  `HolderIsAlive`: whoever
holds `syncing_revision` is still there to reset it, so later tasks do not wait for
nobody.  Both have the proviso that faults are too few for a task to fail for good,
and the second holds under `~FinishMayFail`.  `RetriesInv` bounds the retries of a row by
the faults so far, and `PresentInv` says that a task in `handle` with the present
revision holds the user until it is synced.

**The webhook** (`BillNotifications_proofs`).  `CompletedBillsAreExact` is too strong
beside a webhook, which adds bills without a search; `CompletedBillsAreKnown` is what
remains.  `NotificationInv` is `TasksInv` with the facts about open batches: their
rows exclude each other's and those of the table, the documents under them exist
because they are locked, and they hold only fines that Kazna has sent
(`BatchesAreSent`).  `NothingOverwritten` follows.  Since every step is one of the
search or leaves its variables alone but for bills and failing tasks, the lemmas about
the search carry over: `SyncedMonotonic`, `PaidStaysPaid`, `OneKaznaCall` and
`CompletedIsSubscribed` hold beside the webhook as well (the theorems `...Beside`), and
`NotificationsImplementBook` is the refinement of `NotifiedBook`.  `LatestIsQueued` and
`HolderIsAlive` are not claimed there: a bill of an open batch may make a search fail
any number of times (`CompleteConflicts`), without a fault, and so for good.

**The payment** (`BillPayment_proofs`).  `PaymentInv` adds to the properties what
the locks protect: two requests never hold one order, the transactions a request
is about to cancel are those of the order (`RequestInv`), and a transaction about
to be PAID is NEW and held by nobody else (`UpdateInv`); and that whatever has
been told is part of the history of the payment (`TxInv`).  `PaidIsAuthorised`
follows from that history.  The refinement `ImplementsAttempts` follows as well:
`Commit` is `Begin`, `RecordPaid` is `Succeed`.  `LockingInv` and `OrderInv` are about
the locks themselves: an update that locks bills has the order to itself and will not
miss a bill of it, and an order that is being created is known to nobody else.
`DeadlocksArePairsOrOverBills` follows, that of the locks of orders and transactions only
a request and an update wait for each other; and from it, for any number of processes,
`EveryCircle`: processes that wait for one another in a circle include such a pair, or
all wait for bills.  Those are the two things `BreakDeadlock` and `BreakBillDeadlock`
break, so no other deadlock exists.

**The amounts** (`BillAmount_proofs`).  Rounding up and rounding half up are what
they should be, and no bill becomes cheaper overnight.  The proofs separate the
arithmetic of division from the definitions of the code.

**The checkout** (`CheckoutPayment_proofs`).  `CheckoutInv` says that an alive
payment owns the process (`OwnsProcess`): there is no other one, order and
listeners are its own or reset, the order in the store is its own, and no stage of
success is on the screen.  `ReportedIsPaid` and `SuccessIsFinal` follow; both
suppose that no payment has been started while another was alive or had its
listeners, and the findings below are why they have to.  That a late start may find the
listeners of a payment that has ended is part of the proviso: then a success of the
old payment is followed by a report about the new one.  `SuccessIsFinal` says what may
replace a success all the same, the timer of a frame that was never ready and the page
that leaves.  `ProgressIsWatched` is the safety core of
`EveryPaymentEnds`: while the window says that a payment is in progress, a payment is
alive that owns the listeners, and the end of its transaction would be news to it.
`SuccessHasCause` holds even when payments overlap: no success is reported unless some
payment is in cash or some transaction is authorised, though perhaps another.

**The SDK** (`SdkPayment_proofs`).  A result that waits for the focus belongs to a
checkout that is completed or is no longer at hand, so neither the timer nor a message
can abort it: that is `NoAbortOnceSealed`.  `UnansweredIsWatched` is the safety core of
`EveryCheckoutIsAnswered`: a checkout without an answer has its timer running, whatever
stops and starts it.  The refinement `ImplementsOutcomes` needs that a result is at one
place only, under way, waiting for its counter or for the focus, or told (`OutcomeInv`):
the messages carry nothing by which a handler could notice that it has had one before;
and that the checkout at hand is completed once anything is told of it, so that the
timer aborts none of which the merchant has heard.  What is refined is that each result
is told once at most, not that a checkout has one: `CheckoutOutcomes` allows several
results of one checkout, and a result after an Abort, because the code does.  Two more facts
are proved and not run: the overlay is shown only during a checkout (`OverlayMeansCheckout`), and a callback
that hits a later checkout belongs to one that was given up or aborted
(`LateWasGivenUp`).

**The calls** (`MerchantCalls_proofs`).  `CallsInv` ties the queue to the calls:
its members are the fetches that have not ended, each once, and only the first is
started, so one Update ends one fetch; the counter is their number, so the preloader
of the points goes with the last.  For the other parts a status is pending only by a
call that is alive.  `CallsInTurnAgree` needs that, as long as calls come in turn, an
Update under way answers the one call that waits, and that SDK and form have taken
the same Updates but for those under way.

**The keys** (`KeysManager_proofs`).  Keys on their way from a download
to the channel are at least as new as those on offer (`HeldAreNewer`), and the cache is
at least as new as those, unless it is being written or was damaged
(`CacheHoldsOffered`, both in `FreshInv`); a process that ended while it wrote has left
it damaged (`CutShortIsKnown`).  `CacheIsFresh` and `KeysNeverGoBack` suppose that no tick
comes before the first download has ended, which the defaults guarantee.

Only model-checked: all liveness, which is out of reach of the prover
(`ImplementsFairBook`, `EveryRequestEnds`, `Settled`, `CancelledComesToRest`,
`EveryPaymentEnds`, `EveryCheckoutIsAnswered`, `EveryResultIsEmitted`,
`NoPreloaderForever`, `GetIsAnswered`, `CloseReturns`, `CatchesUp`), and the two
counterexamples.

## What was found

Two are runs that end in a counterexample, and findings with the quoted lines in
`PROJECT.json`.

* `checkout_cancelled`: a watcher whose payment was cancelled goes on with the
  order of the next payment.
* `sdk_aborted`: a form that is closed while the counter of its result is being sent
  is reported as aborted, and then as paid.

The rest has been seen while modelling; the properties are stated so as to be true
beside it.

* Two tasks of one revision may call Kazna at once, if a worker dies after `_retry`
  and before its row is finished (`FinishMayFail`), though one call at
  a time is the invariant that the docstring at `search.py:155` names.
* A task that fails for good leaves `syncing_revision` set; later tasks wait until
  somebody resets the row.  `sync_live` therefore leaves a retry to spare.
* An attempt that is cancelled here may still be authorised at Kazna
  (`transaction/create.py:125`); its money is then not recorded.
* A notification that overtakes the commit of its transaction is answered with
  success and dropped; only polling makes up for it.
* Rows of bills are locked in no common order by updates of orders that share bills
  (`update_status.py:98`), searches, new orders and deleted documents: any of them may
  be the victim of a deadlock, and an update that is one leaves it to the next poll.
* The timer of the frame for a new card (`binding-form.tsx:127`) is never cleared; it
  replaces whatever is on the screen by a failure, a success included.
* `selectBindedCard` (`store/payment-methods/services.ts:78`) starts its payment after two
  calls, whatever the user has started or paid meanwhile; the listeners of an earlier
  payment stay, and those of one in cash report the new order as paid before it is.
* The timers of `success-redirect.tsx` and `auth-ya.tsx` are not cleared either, so the
  data may be sent, or the page left, after the payment was cancelled.
* A payment that is cancelled while its order is being created goes on when the order
  arrives; one failed call of `getTransaction` ends a payment that goes on at the server.
* A form that is kept open after its result, or is refreshed, may send another result,
  and the merchant is told of both.
* Calls that overlap: a coupon change is ended by the answer to any other call,
  despite the comment at `rpc.ts:157`; after two quick choices of an address the
  options of the first may stand under the second; the error of a ping may overwrite
  the success of a later call.  `CallsInTurnAgree` is therefore about calls in turn.
* `RpcQueue` loses an answer that arrives before `setTimeout(fn, 0)` has set its
  listener (`rpc.ts:211`); the preloader of the points then stays.
* A crash during `WriteFile` and a first download that fails leave an empty set of
  keys until the next tick, 168 hours later by default; without a cache path the keys
  are nil.  With an update period shorter than the timeout of the first download an older
  download may overwrite newer keys.  A hanging download stops updates until `Close`,
  and a `Get` after `Close` blocks for ever.

## What is not modelled, and why

Schemas, HTTP, serialisation, logging and counters keep no state the properties
are about.  The queue library, PostgreSQL and Kazna are not in the repository:
they are modelled as the code uses them.  The polling task of a payment is
scheduled by nothing but itself; its update is modelled.  Cryptography of
`duckgo` is a matter of bytes and not of steps.  The push about a new bill reads a bill and
sends it, once or more.  Of `pay-frontend`: in `SdkPayment` the agent that is only
asked whether the form can pay, the path of a blocked popup, payments in several
overlays and the messages Ready, Setup and Ping; in `MerchantCalls` the setup of the form,
`pickupInfoRequest`, the error screen and its retries, the sheet that waits for an
order, and the loss of the connection, which `SdkPayment` has.  `Connections` hides
message channels that are reliable as long as both windows live, and is part of these
two modules as `inbox` and `toForm`.  In `KeysManager` the retries of the HTTP client
are part of one download, and the content of a set of keys is left out.  The retries of
`packages/fetch` are a loop of one caller; no caller passes a signal that would
interleave with it.  The sagas of the merchant console call the server and store
what it answers, one form at a time.  Components and styles have no logic of their own;
they are most of the lines of this repository.
`integration`, `sprint`, `tools`, `contrib` and the older packages of `frontend`
are clients, skeletons and copies.

## The plan

In this order, the most important behaviour first; done are 1 to 8.

1. `BillSync`, `BillBook`: the search, its refinement and their proofs.
2. `BillPayment`, `OrderAttempts`: the payment, its refinement and their proofs.
3. `BillNotifications`: the webhook composed with the search, and its proofs.
4. `BillAmount`: the arithmetic.
5. `CheckoutPayment`: the payments of a checkout window.
6. `SdkPayment`: the merchant page and the form it opens.
7. `MerchantCalls`: calls of the form to the merchant and their answers.
8. `KeysManager`: keys reloaded while requests use them.
9. `Connections` (`packages/utils/connections`): the opening of a channel, refined
   to the reliable one `SdkPayment` and `MerchantCalls` use.
10. `FetchRetry` (`packages/fetch`): attempts, timeouts and the status that ends
    them, composed with the watcher of 5.
11. The sagas of `console-frontend`.

Theorems to come: what overlapping payments may do to each other in `CheckoutPayment`
beyond `ProgressIsWatched` and `SuccessHasCause`; the safety core of the liveness of
`KeysManager` and `BillPayment`, as `LatestIsQueued` is that of the search.
