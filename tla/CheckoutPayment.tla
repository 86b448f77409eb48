-------------------------- MODULE CheckoutPayment --------------------------
(***************************************************************************)
(* The payment in the checkout window of pay-frontend: the singleton       *)
(* CheckoutProcess, the services of store/checkout that listen to it, and  *)
(* the stage of the payment that the window shows.                         *)
(*                                                                         *)
(* A payment is a coroutine: it creates an order, then a transaction, and  *)
(* then watches the status of the transaction every four seconds.  Each    *)
(* await lets the user and the other coroutines run; all of them read and  *)
(* write the same order, lastTransactionStatus and list of listeners.      *)
(* cancelPayment resets these three and stops no coroutine: a watcher is   *)
(* meant to see on its next turn that there is no order.                   *)
(*                                                                         *)
(* Three timers and one more coroutine outlive the panel they belong to    *)
(* and do not look at the stage: the timer of a frame that is slow to      *)
(* load, the two timers with which the page sends its data or leaves, and  *)
(* the coroutine that starts a payment with a card just bound.             *)
(*                                                                         *)
(* Without the server API (server = FALSE) a payment is one call that      *)
(* returns the data the merchant is to be sent.                            *)
(*                                                                         *)
(* An operator X_M is a mutant of X, what X would be with a plausible      *)
(* mistake: the properties below tell X from it.                           *)
(***************************************************************************)
EXTENDS Naturals, FiniteSets

CONSTANTS
  Payment,       \* payments; each creates at most one order and one transaction,
                 \* which have its name
  Frame,         \* frames for a new card; each may be used again
  None,          \* null
  MaxChallenges  \* MAX_CHALLENGE_REDIRECT

ASSUME CheckoutAssumption == None \notin Payment \cup Frame /\ MaxChallenges \in Nat

VARIABLES
  server,      \* IS_CHECKOUT_SERVER
  stage,       \* PaymentStageType in the store
  stored,      \* the order, or the payment data, in the store
  run,         \* the coroutines
  order,       \* CheckoutProcess.order
  last,        \* CheckoutProcess.lastTransactionStatus
  listeners,   \* the payments whose starts have registered listeners
  panel,       \* the frame of the panel for a new card that was shown last
  loading,     \* the frames that are not ready and whose timer is to go off
  bound,       \* has a card been bound, with which payments are to start?
  leaving,     \* the screens whose timer is to send the data or to leave the page
  tx,          \* server: the status of the transaction of a payment
  reported,    \* payments the merchant has been told of
  challenges,  \* CHALLENGE_NUM
  overlapped   \* history: has a payment been started while another was going on
               \* or had still its listeners?

processVars == <<order, last, listeners>>
screenVars  == <<stage, stored, reported>>
pageVars    == <<panel, loading, bound, leaving>>
vars == <<server, stage, stored, run, order, last, listeners, panel, loading, bound,
          leaving, tx, reported, challenges, overlapped>>

Stage == {"initial", "new_card", "payment", "auth_ya", "auth_3ds", "split_payment",
          "failed", "success_info", "success_redirect"}

Method == {"card", "cash"}

TxStatus == {"none", "new", "threeds_challenge", "authorized", "charged", "failed"}

(***************************************************************************)
(* A coroutine: pc is the call it awaits ("ordering", "transacting",       *)
(* "asking", "answered" when the server has read the status but the answer *)
(* has not arrived, "checkout"), "sleeping" between two turns of the       *)
(* watcher, or "idle" and "done".  asked and seen are locals of a turn.    *)
(***************************************************************************)
Pc == {"idle", "ordering", "transacting", "asking", "answered", "sleeping",
       "checkout", "done"}

Run == [pc : Pc, method : Method, asked : Payment \cup {None}, seen : TxStatus]

NoOrder == [id |-> None, tx |-> None]

Alive(p) == run[p].pc \notin {"idle", "done"}

Init ==
  /\ server \in BOOLEAN
  /\ stage = "initial" /\ stored = None
  /\ run = [p \in Payment |-> [pc |-> "idle", method |-> "card", asked |-> None, seen |-> "none"]]
  /\ order = NoOrder /\ last = "none" /\ listeners = {}
  /\ panel = None /\ loading = {} /\ bound = FALSE /\ leaving = {}
  /\ tx = [p \in Payment |-> "none"]
  /\ reported = {}
  /\ challenges = 0
  /\ overlapped = FALSE

Goto(p, pc) ==
  run' = [run EXCEPT ![p] = [pc |-> pc, method |-> @.method, asked |-> None, seen |-> "none"]]

-----------------------------------------------------------------------------
(* What the listeners do, if there are any.                                *)

Show(s) ==
  /\ stage' = IF listeners = {} THEN stage ELSE s
  /\ UNCHANGED <<stored, reported>>

\* showPaymentInfoService and sendPaymentDataService, which fails if there is
\* nothing to send.
ShowSuccess(data) ==
  IF data = None
  THEN stage' = "failed" /\ UNCHANGED reported
  ELSE stage' = "success_info" /\ reported' = reported \cup {data}

OnAuthorized ==
  /\ IF listeners = {} THEN UNCHANGED <<stage, reported>> ELSE ShowSuccess(stored)
  /\ UNCHANGED stored

\* Every listener is told, and each remembers the method of the payment that has
\* registered it: that of a payment in cash takes any order for paid.
OnPaymentOrder(id) ==
  IF listeners = {} THEN UNCHANGED screenVars
  ELSE /\ stored' = id
       /\ IF \E q \in listeners : run[q].method = "cash" THEN ShowSuccess(id)
                                                        ELSE UNCHANGED <<stage, reported>>

-----------------------------------------------------------------------------
(* The user, and the panel for a new card.                                 *)

ChooseNewCard(f) ==
  /\ stage = "initial" /\ f \notin loading
  /\ stage' = "new_card"
  /\ panel' = f /\ loading' = loading \cup {f}
  /\ UNCHANGED <<server, stored, run, processVars, bound, leaving, tx, reported,
                 challenges, overlapped>>

FrameReady ==
  /\ stage = "new_card" /\ panel \in loading
  /\ loading' = loading \ {panel}
  /\ UNCHANGED <<server, screenVars, run, processVars, panel, bound, leaving, tx,
                 challenges, overlapped>>

\* The failure of a panel that is still shown.
NewCardFails ==
  /\ stage = "new_card"
  /\ stage' = "failed"
  /\ UNCHANGED <<server, stored, run, processVars, pageVars, tx, reported, challenges,
                 overlapped>>

\* Nothing stops the timer of a frame, be its panel closed and whatever is shown.
FrameTimesOut(f) ==
  /\ f \in loading
  /\ loading' = loading \ {f}
  /\ stage' = "failed"
  /\ UNCHANGED <<server, stored, run, processVars, panel, bound, leaving, tx, reported,
                 challenges, overlapped>>

\* Nothing takes this back: the listeners of a frame are registered once more
\* whenever the sheet changes, and each of them starts a payment.
CardBound ==
  /\ stage = "new_card" /\ panel \notin loading
  /\ bound' = TRUE
  /\ UNCHANGED <<server, screenVars, run, processVars, panel, loading, leaving, tx,
                 challenges, overlapped>>

LastAfterStart_M == last

LastAfterStart == "none"

\* What startPaymentService does whoever calls it.  The listeners of payments
\* that were not cancelled stay.
Start(p, m) ==
  /\ run[p].pc = "idle"
  /\ stage' = "payment"
  /\ run' = [run EXCEPT ![p].pc = IF server THEN "ordering" ELSE "checkout", ![p].method = m]
  /\ order' = NoOrder /\ last' = LastAfterStart /\ listeners' = listeners \cup {p}
  /\ overlapped' = (overlapped \/ listeners # {} \/ \E q \in Payment : Alive(q))
  /\ UNCHANGED <<server, stored, pageVars, tx, reported, challenges>>

\* The button, or the page that is loaded again after a challenge.
StartPayment(p, m) ==
  /\ stage = "initial"
  /\ Start(p, m)

\* selectBindedCard after its two calls, whatever has become of its panel.
StartBound(p) ==
  /\ bound
  /\ Start(p, "card")

\* The page of the bank says that the user has finished.
Confirm ==
  /\ stage = "auth_3ds"
  /\ stage' = "payment"
  /\ UNCHANGED <<server, stored, run, processVars, pageVars, tx, reported, challenges, overlapped>>

\* resetPaymentService and cancelPayment.
Cancel ==
  /\ stage \in {"new_card", "auth_3ds", "split_payment", "failed"}
  /\ stage' = "initial"
  /\ order' = NoOrder /\ last' = "none" /\ listeners' = {}
  /\ UNCHANGED <<server, stored, run, pageVars, tx, reported, challenges, overlapped>>

-----------------------------------------------------------------------------
(* startServerPayment.                                                     *)

OrderCreated(p) ==
  /\ run[p].pc = "ordering"
  /\ order' = [id |-> p, tx |-> None]
  /\ IF run[p].method = "card" THEN Goto(p, "transacting") /\ UNCHANGED screenVars
                               ELSE Goto(p, "done") /\ OnPaymentOrder(p)
  /\ UNCHANGED <<server, last, listeners, pageVars, tx, challenges, overlapped>>

OrderIsReset == order = NoOrder

\* The transaction is written into whatever order there is, and its watcher
\* takes its first turn.
TransactionCreated(p) ==
  /\ run[p].pc = "transacting" /\ tx[p] # "none"
  /\ ~OrderIsReset
  /\ order' = [order EXCEPT !.tx = p]
  /\ OnPaymentOrder(order.id)
  /\ run' = [run EXCEPT ![p].pc = "asking", ![p].asked = p]
  /\ UNCHANGED <<server, last, listeners, pageVars, tx, challenges, overlapped>>

\* A TypeError, caught like the failure of a call.
TransactionWithoutOrder(p) ==
  /\ run[p].pc = "transacting" /\ tx[p] # "none"
  /\ OrderIsReset
  /\ Show("failed")
  /\ Goto(p, "done")
  /\ UNCHANGED <<server, processVars, pageVars, tx, challenges, overlapped>>

\* No call is repeated: the payment ends with an error.
CallFails(p) ==
  /\ run[p].pc \in {"ordering", "transacting", "asking", "answered", "checkout"}
  /\ Show("failed")
  /\ Goto(p, "done")
  /\ UNCHANGED <<server, processVars, pageVars, tx, challenges, overlapped>>

-----------------------------------------------------------------------------
(* watchServerPayment.                                                     *)

Wake(p) ==
  /\ run[p].pc = "sleeping"
  /\ order # NoOrder
  /\ run' = [run EXCEPT ![p].pc = "asking", ![p].asked = order.tx]
  /\ UNCHANGED <<server, screenVars, processVars, pageVars, tx, challenges, overlapped>>

AfterStop_M == "sleeping"

AfterStop == "done"

Stop(p) ==
  /\ run[p].pc = "sleeping"
  /\ order = NoOrder
  /\ Goto(p, AfterStop)
  /\ UNCHANGED <<server, screenVars, processVars, pageVars, tx, challenges, overlapped>>

\* The status is read now and arrives later; there is none of no transaction.
ServerAnswers(p) ==
  /\ run[p].pc = "asking" /\ run[p].asked # None
  /\ run' = [run EXCEPT ![p].pc = "answered", ![p].seen = tx[run[p].asked]]
  /\ UNCHANGED <<server, screenVars, processVars, pageVars, tx, challenges, overlapped>>

News(p) == run[p].pc = "answered" /\ run[p].seen # last

NoNews(p) ==
  /\ run[p].pc = "answered" /\ run[p].seen = last
  /\ Goto(p, "sleeping")
  /\ UNCHANGED <<server, screenVars, processVars, pageVars, tx, challenges, overlapped>>

IsPaidStatus_M(s) == s \in {"new", "authorized", "charged"}

IsPaidStatus(s) == s \in {"authorized", "charged"}

AfterSuccess_M == "sleeping"

AfterSuccess == "done"

Authorized(p) ==
  /\ News(p) /\ IsPaidStatus(run[p].seen)
  /\ last' = run[p].seen
  /\ OnAuthorized
  /\ Goto(p, AfterSuccess)
  /\ UNCHANGED <<server, order, listeners, pageVars, tx, challenges, overlapped>>

Declined(p) ==
  /\ News(p) /\ run[p].seen = "failed"
  /\ last' = run[p].seen
  /\ Show("failed")
  /\ Goto(p, "done")
  /\ UNCHANGED <<server, order, listeners, pageVars, tx, challenges, overlapped>>

Challenged(p) ==
  /\ News(p) /\ run[p].seen = "threeds_challenge"
  /\ last' = run[p].seen
  /\ Show("auth_3ds")
  /\ Goto(p, "sleeping")
  /\ UNCHANGED <<server, order, listeners, pageVars, tx, challenges, overlapped>>

\* NEW, or a challenge without a page to show.
Undecided(p) ==
  /\ News(p) /\ run[p].seen \in {"new", "threeds_challenge"} /\ ~IsPaidStatus(run[p].seen)
  /\ last' = run[p].seen
  /\ Goto(p, "sleeping")
  /\ UNCHANGED <<server, screenVars, order, listeners, pageVars, tx, challenges, overlapped>>

-----------------------------------------------------------------------------
(* startClientPayment, and what follows it.                                *)

PaymentData(p, isSplit) ==
  /\ run[p].pc = "checkout"
  /\ Goto(p, "done")
  /\ IF listeners = {} THEN UNCHANGED <<screenVars, leaving>>
     ELSE /\ stored' = p
          /\ stage' = IF isSplit THEN "split_payment" ELSE "success_redirect"
          /\ leaving' = IF isSplit THEN leaving ELSE leaving \cup {"success_redirect"}
          /\ UNCHANGED reported
  /\ UNCHANGED <<server, processVars, panel, loading, bound, tx, challenges, overlapped>>

SplitEnds ==
  /\ stage = "split_payment"
  /\ ShowSuccess(stored) \/ (stage' = "failed" /\ UNCHANGED reported)
  /\ UNCHANGED <<server, stored, run, processVars, pageVars, tx, challenges, overlapped>>

\* The screen sets a timer whenever it is drawn and takes none back.
SendPaymentData ==
  /\ "success_redirect" \in leaving
  /\ reported' = reported \cup {stored}
  /\ UNCHANGED <<server, stage, stored, run, processVars, pageVars, tx, challenges,
                 overlapped>>

ChallengeRequired(p) ==
  /\ run[p].pc = "checkout"
  /\ Goto(p, "done")
  /\ IF challenges < MaxChallenges
     THEN /\ Show("auth_ya")
          /\ leaving' = IF listeners = {} THEN leaving ELSE leaving \cup {"auth_ya"}
     ELSE Show("failed") /\ UNCHANGED leaving
  /\ UNCHANGED <<server, processVars, panel, loading, bound, tx, challenges, overlapped>>

\* The page leaves and is loaded again, with nothing but the number of challenges.
Redirect ==
  /\ "auth_ya" \in leaving
  /\ stage' = "initial" /\ stored' = None
  /\ run' = [p \in Payment |-> IF Alive(p) THEN [run[p] EXCEPT !.pc = "done"] ELSE run[p]]
  /\ order' = NoOrder /\ last' = "none" /\ listeners' = {}
  /\ panel' = None /\ loading' = {} /\ bound' = FALSE /\ leaving' = {}
  /\ challenges' = challenges + 1
  /\ UNCHANGED <<server, tx, reported, overlapped>>

-----------------------------------------------------------------------------
(* The server.                                                             *)

CreateTransaction(p) ==
  /\ run[p].pc = "transacting" /\ tx[p] = "none"
  /\ tx' = [tx EXCEPT ![p] = "new"]
  /\ UNCHANGED <<server, screenVars, run, processVars, pageVars, challenges, overlapped>>

Flow == {<<"new", "threeds_challenge">>, <<"new", "authorized">>, <<"new", "failed">>,
         <<"threeds_challenge", "authorized">>, <<"threeds_challenge", "failed">>,
         <<"authorized", "charged">>}

Proceed(p) ==
  /\ \E s \in TxStatus : <<tx[p], s>> \in Flow /\ tx' = [tx EXCEPT ![p] = s]
  /\ UNCHANGED <<server, screenVars, run, processVars, pageVars, challenges, overlapped>>

-----------------------------------------------------------------------------
User ==
  \/ \E f \in Frame : ChooseNewCard(f) \/ FrameTimesOut(f)
  \/ FrameReady
  \/ NewCardFails
  \/ CardBound
  \/ \E p \in Payment : StartBound(p)
  \/ \E p \in Payment, m \in Method : StartPayment(p, m)
  \/ Confirm
  \/ Cancel

\* The turns of a coroutine, with the answers it waits for.
Resume(p) ==
  \/ OrderCreated(p)
  \/ CreateTransaction(p)
  \/ TransactionCreated(p)
  \/ TransactionWithoutOrder(p)
  \/ CallFails(p)
  \/ Wake(p)
  \/ Stop(p)
  \/ ServerAnswers(p)
  \/ NoNews(p)
  \/ Authorized(p)
  \/ Declined(p)
  \/ Challenged(p)
  \/ Undecided(p)
  \/ \E isSplit \in BOOLEAN : PaymentData(p, isSplit)
  \/ ChallengeRequired(p)

Next ==
  \/ User
  \/ \E p \in Payment : Resume(p) \/ Proceed(p)
  \/ SplitEnds
  \/ SendPaymentData
  \/ Redirect

Spec == Init /\ [][Next]_vars

\* Every call is answered or fails, and timers go off.  Nothing is assumed about
\* the user, nor that transactions are ever settled.
FairSpec == Spec /\ \A p \in Payment : WF_vars(Resume(p))

-----------------------------------------------------------------------------
(* Properties.                                                             *)

CheckoutTypeOK ==
  /\ server \in BOOLEAN /\ overlapped \in BOOLEAN
  /\ stage \in Stage /\ stored \in Payment \cup {None}
  /\ run \in [Payment -> Run]
  /\ order \in [id : Payment, tx : Payment \cup {None}] \cup {NoOrder}
  /\ last \in TxStatus
  /\ listeners \subseteq Payment
  /\ panel \in Frame \cup {None} /\ loading \subseteq Frame /\ bound \in BOOLEAN
  /\ leaving \subseteq {"auth_ya", "success_redirect"}
  /\ tx \in [Payment -> TxStatus]
  /\ reported \in SUBSET Payment
  /\ challenges \in Nat

\* The merchant is told of success (successCheckout) only about an order whose
\* transaction is authorised, as long as no payment has been started while another
\* one was going on or had its listeners still.
ReportedIsPaid ==
  (server /\ ~overlapped) =>
    \A p \in reported : run[p].method = "cash" \/ IsPaidStatus(tx[p])

\* With the same proviso, no late answer and no failed call replaces the screen of
\* a success by a failure the user would pay after.  What does replace it is the
\* timer of a frame that was never ready, and the page that leaves for a challenge.
SuccessIsFinal ==
  [][stage = "success_info" /\ ~overlapped' =>
       stage' = "success_info" \/ Redirect \/ \E f \in loading : FrameTimesOut(f)]_vars

\* A cancelled payment comes to rest, unless the user starts another one first and
\* however many are going on, but for one that waits for its order: when that
\* arrives the payment goes on as if nobody had cancelled it.
CancelledComesToRest ==
  (listeners = {} /\ order = NoOrder /\ \A p \in Payment : run[p].pc # "ordering")
    ~> (listeners # {} \/ \A p \in Payment : ~Alive(p))

\* If transactions are settled in the end, the window does not show "payment in
\* progress" for ever: each new status is noticed.  With the same proviso: two
\* watchers share lastTransactionStatus.
EveryPaymentEnds ==
  [](~overlapped) /\ (\A p \in Payment : <>[](tx[p] \notin {"new", "threeds_challenge"})) =>
    ((stage = "payment") ~> (stage # "payment"))

\* The comment of watchServerPayment, "the payment is cancelled, stop the
\* watcher": a watcher asks for the transaction of its own payment only.
WatchesOwn == \A p \in Payment : run[p].pc = "asking" => run[p].asked = p

\* What is sent as payment data has been stored.
DataIsStored == stage = "success_redirect" \/ "success_redirect" \in leaving => stored # None

\* One payment at a time, and whatever the coroutines share is its own or has been
\* reset: the order, the listeners, the order in the store.  The screen is not: the
\* timer of a frame may have put a failure in its place.
Creating == {"ordering", "transacting", "checkout"}
Watching == {"asking", "answered", "sleeping"}

OwnsProcess(p) ==
  /\ \A q \in Payment \ {p} : ~Alive(q)
  /\ server <=> run[p].pc # "checkout"
  /\ listeners \subseteq {p}
  /\ stage \notin {"auth_ya", "split_payment", "success_info", "success_redirect"}
  /\ run[p].pc = "transacting" =>
       /\ order \in {NoOrder, [id |-> p, tx |-> None]}
       /\ run[p].method = "card"
  /\ run[p].pc \in {"asking", "answered"} => run[p].asked = p
  /\ run[p].pc \in Watching =>
       /\ order \in {NoOrder, [id |-> p, tx |-> p]}
       /\ listeners = {p} => stored = p
  /\ run[p].pc = "answered" /\ IsPaidStatus(run[p].seen) => IsPaidStatus(tx[p])

\* "Payment in progress" is never shown without a coroutine that will end it: it is
\* alive, the listeners are its own, and, while it watches, its order is in place and
\* the end of its transaction would be news.  With the same proviso.
ProgressIsWatched ==
  ~overlapped /\ stage \in {"payment", "auth_3ds"} =>
    \E p \in Payment :
      /\ Alive(p) /\ listeners = {p}
      /\ run[p].pc \in Watching =>
           order = [id |-> p, tx |-> p] /\ last \in {"none", "new", "threeds_challenge"}

\* Even when payments overlap, the merchant is told of a success only if some
\* payment is in cash or some transaction is authorised, though perhaps another.
SuccessHasCause ==
  server /\ reported # {} => \E p \in Payment : run[p].method = "cash" \/ IsPaidStatus(tx[p])

\* With the server API there is no frame and no redirect, and whoever has been
\* reported has started.
ServerReports ==
  server /\ ~overlapped =>
    /\ stage \notin {"auth_ya", "split_payment", "success_redirect"} /\ leaving = {}
    /\ \A p \in reported : run[p].pc # "idle"

\* A payment is shown by its listeners, which only a cancellation or a new page removes.
ScreenIsListened == stage \notin {"initial", "new_card", "failed"} => listeners # {}

\* The inductive invariant of the window.
CheckoutInv ==
  /\ CheckoutTypeOK
  /\ DataIsStored
  /\ ScreenIsListened
  /\ ~overlapped => \A p \in Payment : Alive(p) => OwnsProcess(p)
  /\ ServerReports
  /\ ReportedIsPaid
=============================================================================
