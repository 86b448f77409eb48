----------------------- MODULE CheckoutPayment_proofs -----------------------
(***************************************************************************)
(* Theorems about CheckoutPayment, for every set of payments and of frames *)
(* and every limit on challenges.                                          *)
(***************************************************************************)
EXTENDS CheckoutPayment, TLAPS

-----------------------------------------------------------------------------
(* Types.                                                                  *)

\* A coroutine that moves on keeps its method, forgets the locals of its turn and
\* leaves the others alone.
LEMMA GotoFacts ==
  ASSUME run \in [Payment -> Run], NEW p \in Payment, NEW pc \in Pc, Goto(p, pc)
  PROVE  /\ run' \in [Payment -> Run]
         /\ run'[p].pc = pc
         /\ run'[p].method = run[p].method
         /\ \A q \in Payment \ {p} : run'[q] = run[q]
  <1>1. run[p] \in Run
    OBVIOUS
  <1> DEFINE moved == [pc |-> pc, method |-> run[p].method, asked |-> None, seen |-> "none"]
  <1>2. moved \in Run
    BY <1>1 DEF Run, TxStatus
  <1>3. run' = [run EXCEPT ![p] = moved]
    BY DEF Goto
  <1>4. run' \in [Payment -> Run] /\ run'[p] = moved
    BY <1>2, <1>3
  <1>5. \A q \in Payment \ {p} : run'[q] = run[q]
    BY <1>3
  <1> QED BY <1>4, <1>5

\* The same of a coroutine that asks for a status, ...
LEMMA AskFacts ==
  ASSUME run \in [Payment -> Run], NEW p \in Payment, NEW a \in Payment \cup {None},
         run' = [run EXCEPT ![p].pc = "asking", ![p].asked = a]
  PROVE  /\ run' \in [Payment -> Run]
         /\ run'[p].pc = "asking" /\ run'[p].asked = a
         /\ run'[p].method = run[p].method
         /\ \A q \in Payment \ {p} : run'[q] = run[q]
  <1>1. run[p] \in Run
    OBVIOUS
  <1>2. [run[p] EXCEPT !.pc = "asking", !.asked = a] \in Run
    BY <1>1 DEF Run, Pc
  <1>3. run' = [run EXCEPT ![p] = [run[p] EXCEPT !.pc = "asking", !.asked = a]]
    OBVIOUS
  <1>4. run' \in [Payment -> Run] /\ run'[p] = [run[p] EXCEPT !.pc = "asking", !.asked = a]
    BY <1>2, <1>3
  <1>5. \A q \in Payment \ {p} : run'[q] = run[q]
    BY <1>3
  <1>6. run'[p].pc = "asking" /\ run'[p].asked = a /\ run'[p].method = run[p].method
    BY <1>1, <1>4 DEF Run
  <1> QED BY <1>4, <1>5, <1>6

\* ... of one whose status has been read, ...
LEMMA SeenFacts ==
  ASSUME run \in [Payment -> Run], NEW p \in Payment, NEW s \in TxStatus,
         run' = [run EXCEPT ![p].pc = "answered", ![p].seen = s]
  PROVE  /\ run' \in [Payment -> Run]
         /\ run'[p].pc = "answered" /\ run'[p].seen = s
         /\ run'[p].method = run[p].method /\ run'[p].asked = run[p].asked
         /\ \A q \in Payment \ {p} : run'[q] = run[q]
  <1>1. run[p] \in Run
    OBVIOUS
  <1>2. [run[p] EXCEPT !.pc = "answered", !.seen = s] \in Run
    BY <1>1 DEF Run, Pc
  <1>3. run' = [run EXCEPT ![p] = [run[p] EXCEPT !.pc = "answered", !.seen = s]]
    OBVIOUS
  <1>4. run' \in [Payment -> Run] /\ run'[p] = [run[p] EXCEPT !.pc = "answered", !.seen = s]
    BY <1>2, <1>3
  <1>5. \A q \in Payment \ {p} : run'[q] = run[q]
    BY <1>3
  <1>6. /\ run'[p].pc = "answered" /\ run'[p].seen = s
        /\ run'[p].method = run[p].method /\ run'[p].asked = run[p].asked
    BY <1>1, <1>4 DEF Run
  <1> QED BY <1>4, <1>5, <1>6

\* ... and of one that starts.
LEMMA StartFacts ==
  ASSUME run \in [Payment -> Run], NEW p \in Payment, NEW m \in Method, Start(p, m)
  PROVE  /\ run' \in [Payment -> Run]
         /\ run'[p].pc = IF server THEN "ordering" ELSE "checkout"
         /\ run'[p].method = m
         /\ \A q \in Payment \ {p} : run'[q] = run[q]
  <1> DEFINE pc == IF server THEN "ordering" ELSE "checkout"
  <1>1. run[p] \in Run
    OBVIOUS
  <1>2. [run[p] EXCEPT !.pc = pc, !.method = m] \in Run
    BY <1>1 DEF Run, Pc
  <1>3. run' = [run EXCEPT ![p] = [run[p] EXCEPT !.pc = pc, !.method = m]]
    BY DEF Start
  <1>4. run' \in [Payment -> Run] /\ run'[p] = [run[p] EXCEPT !.pc = pc, !.method = m]
    BY <1>2, <1>3
  <1>5. \A q \in Payment \ {p} : run'[q] = run[q]
    BY <1>3
  <1>6. run'[p].pc = pc /\ run'[p].method = m
    BY <1>1, <1>4 DEF Run
  <1> QED BY <1>4, <1>5, <1>6

\* A payment starts from the button or with a bound card.
Starts == \E p \in Payment, m \in Method : Start(p, m)

\* What becomes of the panel for a new card and of its frame.
PanelStep ==
  \/ \E f \in Frame : ChooseNewCard(f) \/ FrameTimesOut(f)
  \/ FrameReady \/ NewCardFails \/ CardBound

\* The steps of the user are a start, a step of the panel, and two more.
LEMMA UserCases ==
  ASSUME User
  PROVE  Starts \/ PanelStep \/ Confirm \/ Cancel
  BY DEF User, StartPayment, StartBound, Starts, PanelStep, Method

\* The panel touches no payment; it takes the screen for itself, or shows a failure.
LEMMA PanelFacts ==
  ASSUME PanelStep
  PROVE  /\ UNCHANGED <<server, stored, run, order, last, listeners, leaving, tx, reported,
                        challenges, overlapped>>
         /\ stage' \in {stage, "new_card", "failed"}
  BY DEF PanelStep, ChooseNewCard, FrameTimesOut, FrameReady, NewCardFails, CardBound,
    processVars, screenVars, pageVars

\* What the listeners write to the store has its type, and payment data are sent
\* only after they have been stored.
ScreenOK ==
  /\ stage \in Stage /\ stored \in Payment \cup {None}
  /\ reported \in SUBSET Payment
  /\ DataIsStored

LEMMA ShowType ==
  ASSUME ScreenOK, NEW s \in Stage \ {"success_redirect"}, Show(s),
         leaving' \subseteq leaving \cup {"auth_ya"}
  PROVE  ScreenOK'
  BY DEF ScreenOK, DataIsStored, Show

LEMMA ShowSuccessType ==
  ASSUME ScreenOK, NEW data \in Payment \cup {None}, ShowSuccess(data), UNCHANGED leaving,
         stored' \in Payment \cup {None}, stored' = None => stored = None
  PROVE  ScreenOK'
  BY DEF ScreenOK, DataIsStored, ShowSuccess, Stage

LEMMA OnPaymentOrderType ==
  ASSUME ScreenOK, NEW id \in Payment, OnPaymentOrder(id), UNCHANGED leaving
  PROVE  ScreenOK'
  <1>1. CASE stored' = id /\ ShowSuccess(id)
    BY <1>1, ShowSuccessType, CheckoutAssumption
  <1>2. CASE stored' = id /\ UNCHANGED <<stage, reported>>
    BY <1>2, CheckoutAssumption DEF ScreenOK, DataIsStored
  <1>3. CASE UNCHANGED screenVars
    BY <1>3 DEF ScreenOK, DataIsStored, screenVars
  <1> QED BY <1>1, <1>2, <1>3 DEF OnPaymentOrder

LEMMA ScreenKept ==
  ASSUME ScreenOK, UNCHANGED <<screenVars, leaving>>
  PROVE  ScreenOK'
  BY DEF ScreenOK, DataIsStored, screenVars

\* The types of everything else.
ProcessOK ==
  /\ server \in BOOLEAN /\ overlapped \in BOOLEAN
  /\ run \in [Payment -> Run]
  /\ order \in [id : Payment, tx : Payment \cup {None}] \cup {NoOrder}
  /\ last \in TxStatus
  /\ listeners \subseteq Payment
  /\ panel \in Frame \cup {None} /\ loading \subseteq Frame /\ bound \in BOOLEAN
  /\ leaving \subseteq {"auth_ya", "success_redirect"}
  /\ tx \in [Payment -> TxStatus]
  /\ challenges \in Nat

\* The turns of a coroutine keep the types.
LEMMA ResumeType ==
  ASSUME ScreenOK, ProcessOK, NEW p \in Payment, Resume(p)
  PROVE  ScreenOK' /\ ProcessOK'
  <1> USE DEF ProcessOK, processVars, pageVars
  <1>0. run \in [Payment -> Run] /\ run[p] \in Run
    OBVIOUS
  <1>a. \A pc \in Pc : Goto(p, pc) => run' \in [Payment -> Run]
    BY <1>0, GotoFacts
  <1>b. /\ "done" \in Pc /\ "transacting" \in Pc /\ "sleeping" \in Pc
        /\ "failed" \in Stage \ {"success_redirect"}
        /\ "auth_3ds" \in Stage \ {"success_redirect"}
        /\ "auth_ya" \in Stage \ {"success_redirect"}
    BY DEF Pc, Stage
  <1>c. \A s \in Stage \ {"success_redirect"} :
          Show(s) /\ leaving' \subseteq leaving \cup {"auth_ya"} => ScreenOK'
    BY <1>0, ShowType
  <1>d. run[p].asked \in Payment \cup {None} /\ run[p].seen \in TxStatus
    BY <1>0 DEF Run
  <1>1. CASE OrderCreated(p)
    <2>1. order' \in [id : Payment, tx : Payment \cup {None}]
      BY <1>1 DEF OrderCreated
    <2>2. ScreenOK'
      BY <1>0, <1>1, OnPaymentOrderType, ScreenKept DEF OrderCreated
    <2>3. run' \in [Payment -> Run]
      BY <1>1, <1>a, <1>b DEF OrderCreated
    <2> QED BY <1>1, <2>1, <2>2, <2>3 DEF OrderCreated
  <1>2. CASE CreateTransaction(p)
    BY <1>2, <1>0, ScreenKept DEF CreateTransaction, TxStatus
  <1>3. CASE TransactionCreated(p)
    <2>1. order \in [id : Payment, tx : Payment \cup {None}]
      BY <1>3 DEF TransactionCreated, OrderIsReset
    <2>2. order' \in [id : Payment, tx : Payment \cup {None}]
      BY <1>3, <2>1 DEF TransactionCreated
    <2>3. ScreenOK'
      BY <1>0, <1>3, <2>1, OnPaymentOrderType DEF TransactionCreated
    <2>4. run' \in [Payment -> Run]
      BY <1>0, <1>3, AskFacts DEF TransactionCreated
    <2> QED BY <1>3, <2>2, <2>3, <2>4 DEF TransactionCreated
  <1>4. CASE TransactionWithoutOrder(p) \/ CallFails(p) \/ ChallengeRequired(p)
    BY <1>4, <1>a, <1>b, <1>c DEF TransactionWithoutOrder, CallFails, ChallengeRequired
  <1>5. CASE Wake(p)
    <2>1. order.tx \in Payment \cup {None}
      BY DEF NoOrder
    <2>2. run' \in [Payment -> Run]
      BY <1>0, <1>5, <2>1, AskFacts DEF Wake
    <2> QED BY <1>0, <1>5, <2>2, ScreenKept DEF Wake
  <1>6. CASE Stop(p) \/ NoNews(p)
    BY <1>0, <1>6, <1>a, <1>b, ScreenKept DEF Stop, AfterStop, NoNews
  <1>7. CASE ServerAnswers(p)
    <2>1. tx[run[p].asked] \in TxStatus
      BY <1>7, <1>d DEF ServerAnswers
    <2>2. run' \in [Payment -> Run]
      BY <1>0, <1>7, <2>1, SeenFacts DEF ServerAnswers
    <2> QED BY <1>0, <1>7, <2>2, ScreenKept DEF ServerAnswers
  <1>8. CASE Authorized(p)
    <2>1. ScreenOK'
      <3>1. CASE listeners = {}
        BY <1>0, <1>8, <3>1, ScreenKept DEF Authorized, OnAuthorized, screenVars
      <3>2. CASE listeners # {}
        <4>1. ShowSuccess(stored) /\ stored' = stored /\ leaving' = leaving
          BY <1>8, <3>2 DEF Authorized, OnAuthorized
        <4>2. stored \in Payment \cup {None}
          BY <1>0 DEF ScreenOK
        <4> QED BY <1>0, <4>1, <4>2, ShowSuccessType
      <3> QED BY <3>1, <3>2
    <2> QED BY <1>8, <1>a, <1>b, <1>d, <2>1 DEF Authorized, AfterSuccess
  <1>9. CASE Declined(p) \/ Challenged(p)
    BY <1>9, <1>a, <1>b, <1>c, <1>d DEF Declined, Challenged
  <1>10. CASE Undecided(p)
    BY <1>0, <1>10, <1>a, <1>b, <1>d, ScreenKept DEF Undecided
  <1>11. CASE \E isSplit \in BOOLEAN : PaymentData(p, isSplit)
    <2> PICK isSplit \in BOOLEAN : PaymentData(p, isSplit) BY <1>11
    <2>1. ScreenOK'
      <3>1. CASE listeners = {}
        BY <1>0, <3>1, ScreenKept DEF PaymentData
      <3>2. CASE listeners # {}
        BY <1>0, <3>2, CheckoutAssumption DEF PaymentData, ScreenOK, DataIsStored, Stage
      <3> QED BY <3>1, <3>2
    <2> QED BY <1>a, <1>b, <2>1 DEF PaymentData
  <1> QED BY <1>1, <1>2, <1>3, <1>4, <1>5, <1>6, <1>7, <1>8, <1>9, <1>10, <1>11 DEF Resume

\* So do the steps of the user, the browser and the server.
LEMMA OtherType ==
  ASSUME ScreenOK, ProcessOK,
         User \/ SplitEnds \/ SendPaymentData \/ Redirect \/ \E p \in Payment : Proceed(p)
  PROVE  ScreenOK' /\ ProcessOK'
  <1> USE DEF ProcessOK, processVars, pageVars
  <1>1. CASE PanelStep
    <2>1. panel' \in Frame \cup {None} /\ loading' \subseteq Frame /\ bound' \in BOOLEAN
      BY <1>1 DEF PanelStep, ChooseNewCard, FrameTimesOut, FrameReady, NewCardFails, CardBound
    <2>2. ScreenOK'
      BY <1>1, PanelFacts DEF ScreenOK, DataIsStored, Stage
    <2> QED BY <1>1, <2>1, <2>2, PanelFacts
  <1>2. CASE Starts
    <2> PICK p \in Payment, m \in Method : Start(p, m) BY <1>2 DEF Starts
    <2>1. run' \in [Payment -> Run]
      BY StartFacts
    <2>2. ScreenOK'
      BY DEF Start, ScreenOK, DataIsStored, Stage
    <2>3. overlapped' \in BOOLEAN
      BY Zenon DEF Start
    <2> QED BY <2>1, <2>2, <2>3 DEF Start, LastAfterStart, TxStatus
  <1>8. CASE Confirm
    BY <1>8 DEF Confirm, ScreenOK, DataIsStored, Stage
  <1>3. CASE Cancel
    BY <1>3 DEF Cancel, ScreenOK, DataIsStored, Stage, TxStatus
  <1>4. CASE SplitEnds
    <2>1. ScreenOK'
      <3>1. CASE ShowSuccess(stored)
        BY <1>4, <3>1, ShowSuccessType DEF SplitEnds, ScreenOK
      <3>2. CASE stage' = "failed" /\ UNCHANGED reported
        BY <1>4, <3>2 DEF SplitEnds, ScreenOK, DataIsStored, Stage
      <3> QED BY <1>4, <3>1, <3>2 DEF SplitEnds
    <2> QED BY <1>4, <2>1 DEF SplitEnds
  <1>5. CASE SendPaymentData
    BY <1>5 DEF SendPaymentData, ScreenOK, DataIsStored
  <1>6. CASE Redirect
    <2>1. run' \in [Payment -> Run]
      <3>1. \A p \in Payment : [run[p] EXCEPT !.pc = "done"] \in Run
        BY DEF Run, Pc
      <3> QED BY <1>6, <3>1 DEF Redirect
    <2>2. ScreenOK'
      BY <1>6 DEF Redirect, ScreenOK, DataIsStored, Stage
    <2>3. /\ UNCHANGED <<server, tx, overlapped>> /\ order' = NoOrder /\ last' = "none"
          /\ listeners' = {} /\ panel' = None /\ loading' = {} /\ bound' = FALSE /\ leaving' = {}
          /\ challenges' \in Nat
      BY <1>6 DEF Redirect
    <2> QED BY <2>1, <2>2, <2>3 DEF TxStatus
  <1>7. CASE \E p \in Payment : Proceed(p)
    BY <1>7, ScreenKept DEF Proceed
  <1> QED BY <1>1, <1>2, <1>3, <1>4, <1>5, <1>6, <1>7, <1>8, UserCases

-----------------------------------------------------------------------------
(* One payment at a time.                                                  *)

OneOwner == ~overlapped => \A p \in Payment : Alive(p) => OwnsProcess(p)

\* A coroutine that takes a turn is alive, and does not touch the others.
LEMMA ResumeFrame ==
  ASSUME run \in [Payment -> Run], order.tx \in Payment \cup {None},
         tx \in [Payment -> TxStatus], NEW p \in Payment, Resume(p)
  PROVE  /\ Alive(p)
         /\ \A q \in Payment \ {p} : run'[q] = run[q]
         /\ run'[p].method = run[p].method
         /\ run'[p].pc # "idle"
         /\ UNCHANGED <<server, overlapped>>
  <1> USE DEF Alive, processVars, pageVars
  <1>0. /\ "done" \in Pc /\ "transacting" \in Pc /\ "sleeping" \in Pc
    BY DEF Pc
  <1>1. CASE \/ OrderCreated(p) \/ TransactionWithoutOrder(p) \/ CallFails(p)
             \/ Stop(p) \/ NoNews(p) \/ Authorized(p) \/ Declined(p) \/ Challenged(p)
             \/ Undecided(p) \/ ChallengeRequired(p)
             \/ \E isSplit \in BOOLEAN : PaymentData(p, isSplit)
    <2>1. \E pc \in {"done", "transacting", "sleeping"} : Goto(p, pc)
      BY <1>1 DEF OrderCreated, TransactionWithoutOrder, CallFails, Stop, AfterStop, NoNews,
           Authorized, AfterSuccess, Declined, Challenged, Undecided, ChallengeRequired, PaymentData
    <2>2. /\ \A q \in Payment \ {p} : run'[q] = run[q]
          /\ run'[p].method = run[p].method /\ run'[p].pc # "idle"
      BY <1>0, <2>1, GotoFacts
    <2>3. Alive(p) /\ UNCHANGED <<server, overlapped>>
      BY <1>1 DEF OrderCreated, TransactionWithoutOrder, CallFails, Stop, NoNews, Authorized,
           News, Declined, Challenged, Undecided, ChallengeRequired, PaymentData
    <2> QED BY <2>2, <2>3
  <1>2. CASE CreateTransaction(p)
    BY <1>2 DEF CreateTransaction
  <1>3. CASE TransactionCreated(p)
    BY <1>3, AskFacts DEF TransactionCreated
  <1>4. CASE Wake(p)
    BY <1>4, AskFacts DEF Wake
  <1>5. CASE ServerAnswers(p)
    <2>1. run[p] \in Run
      OBVIOUS
    <2>2. tx[run[p].asked] \in TxStatus
      BY <1>5, <2>1 DEF ServerAnswers, Run
    <2> QED BY <1>5, <2>2, SeenFacts DEF ServerAnswers
  <1> QED BY <1>1, <1>2, <1>3, <1>4, <1>5 DEF Resume

\* After its turn it owns what it shares.
LEMMA ResumeOwns ==
  ASSUME CheckoutInv, NEW p \in Payment, Resume(p), ~overlapped', Alive(p)'
  PROVE  OwnsProcess(p)'
  <1> USE DEF processVars, pageVars
  <1>0. /\ run \in [Payment -> Run] /\ run[p] \in Run /\ tx \in [Payment -> TxStatus]
        /\ order.tx \in Payment \cup {None}
    BY DEF CheckoutInv, CheckoutTypeOK, NoOrder
  <1>1. /\ Alive(p) /\ UNCHANGED <<server, overlapped>>
        /\ \A q \in Payment \ {p} : run'[q] = run[q]
    BY <1>0, ResumeFrame
  <1>2. OwnsProcess(p)
    BY <1>1 DEF CheckoutInv
  <1>3. \A q \in Payment \ {p} : ~Alive(q)'
    BY <1>1, <1>2 DEF OwnsProcess, Alive
  <1>a. /\ "done" \in Pc /\ "transacting" \in Pc /\ "sleeping" \in Pc
    BY DEF Pc
  <1>4. CASE run'[p].pc = "done"
    BY <1>4 DEF Alive
  <1>5. CASE OrderCreated(p) /\ run[p].method = "card"
    <2>1. Goto(p, "transacting") /\ UNCHANGED screenVars
      BY <1>5 DEF OrderCreated
    <2>2. run'[p].pc = "transacting" /\ run'[p].method = "card"
      BY <1>0, <1>5, <1>a, <2>1, GotoFacts
    <2> QED BY <1>1, <1>2, <1>3, <1>5, <2>1, <2>2
         DEF OrderCreated, OwnsProcess, screenVars, Watching
  <1>6. CASE CreateTransaction(p)
    BY <1>1, <1>2, <1>3, <1>6 DEF CreateTransaction, OwnsProcess, screenVars, Watching
  <1>7. CASE TransactionCreated(p)
    <2>0. order = [id |-> p, tx |-> None] /\ run[p].method = "card" /\ listeners \subseteq {p}
      BY <1>2, <1>7 DEF TransactionCreated, OrderIsReset, OwnsProcess
    <2>1. /\ run'[p].pc = "asking" /\ run'[p].asked = p
          /\ order' = [id |-> p, tx |-> p]
      <3>1. run'[p].pc = "asking" /\ run'[p].asked = p
        BY <1>0, <1>7, AskFacts DEF TransactionCreated
      <3>2. order' = [[id |-> p, tx |-> None] EXCEPT !.tx = p]
        BY <1>7, <2>0 DEF TransactionCreated
      <3> QED BY <3>1, <3>2
    <2>2. (listeners = {p} => stored' = p) /\ stage' = stage
      BY <1>7, <2>0 DEF TransactionCreated, OnPaymentOrder, screenVars
    <2>3. server' = server /\ listeners' = listeners
      BY <1>7 DEF TransactionCreated
    <2>4. server /\ stage \notin {"auth_ya", "split_payment", "success_info", "success_redirect"}
      BY <1>2, <1>7 DEF TransactionCreated, OwnsProcess
    <2> QED BY <1>3, <2>0, <2>1, <2>2, <2>3, <2>4 DEF OwnsProcess
  <1>8. CASE Wake(p)
    <2>1. order = [id |-> p, tx |-> p]
      BY <1>2, <1>8 DEF Wake, OwnsProcess, Watching
    <2>2. run'[p].pc = "asking" /\ run'[p].asked = p
      BY <1>0, <1>8, <2>1, AskFacts DEF Wake
    <2> QED BY <1>1, <1>2, <1>3, <1>8, <2>1, <2>2
         DEF Wake, OwnsProcess, screenVars, Watching
  <1>9. CASE ServerAnswers(p)
    <2>1. run[p].asked = p /\ tx[p] \in TxStatus
      BY <1>0, <1>2, <1>9 DEF ServerAnswers, OwnsProcess, Watching
    <2>2. run'[p].pc = "answered" /\ run'[p].asked = p /\ run'[p].seen = tx[p]
      BY <1>0, <1>9, <2>1, SeenFacts DEF ServerAnswers
    <2> QED BY <1>1, <1>2, <1>3, <1>9, <2>1, <2>2
         DEF ServerAnswers, OwnsProcess, screenVars, Watching
  <1>10. CASE NoNews(p) \/ Undecided(p) \/ Challenged(p)
    <2>1. Goto(p, "sleeping") /\ run[p].pc = "answered"
      BY <1>10 DEF NoNews, Undecided, Challenged, News
    <2>2. run'[p].pc = "sleeping"
      BY <1>0, <1>a, <2>1, GotoFacts
    <2>3. stage' \in {stage, "auth_3ds"} /\ UNCHANGED <<stored, order, listeners>>
      BY <1>10 DEF NoNews, Undecided, Challenged, Show, screenVars
    <2> QED BY <1>1, <1>2, <1>3, <2>1, <2>2, <2>3 DEF OwnsProcess, Watching
  <1>11. CASE \/ TransactionWithoutOrder(p) \/ CallFails(p) \/ Stop(p)
              \/ Authorized(p) \/ Declined(p) \/ ChallengeRequired(p)
              \/ OrderCreated(p) /\ run[p].method # "card"
              \/ \E isSplit \in BOOLEAN : PaymentData(p, isSplit)
    <2>1. Goto(p, "done")
      BY <1>11 DEF OrderCreated, TransactionWithoutOrder, CallFails, Stop, AfterStop, Authorized,
           AfterSuccess, Declined, ChallengeRequired, PaymentData
    <2> QED BY <1>0, <1>4, <1>a, <2>1, GotoFacts
  <1> QED BY <1>5, <1>6, <1>7, <1>8, <1>9, <1>10, <1>11 DEF Resume

\* Whatever else happens leaves the owner alone, or kills it.
LEMMA OtherOwns ==
  ASSUME CheckoutInv, NEW q \in Payment, ~overlapped', Alive(q)',
         User \/ SplitEnds \/ SendPaymentData \/ Redirect \/ \E p \in Payment : Proceed(p)
  PROVE  OwnsProcess(q)'
  <1> USE DEF processVars, screenVars, pageVars
  <1>0. run \in [Payment -> Run] /\ \A p \in Payment : run[p] \in Run
    BY DEF CheckoutInv, CheckoutTypeOK
  <1>1. CASE Starts
    <2> PICK p \in Payment, m \in Method : Start(p, m) BY <1>1 DEF Starts
    <2>1. listeners = {} /\ \A r \in Payment : ~Alive(r)
      BY DEF Start
    <2>2. /\ run'[p].pc = IF server THEN "ordering" ELSE "checkout"
          /\ \A r \in Payment \ {p} : run'[r] = run[r]
      BY <1>0, StartFacts
    <2>3. q = p /\ \A r \in Payment \ {p} : ~Alive(r)'
      BY <2>1, <2>2 DEF Alive
    <2> QED BY <2>1, <2>2, <2>3 DEF Start, OwnsProcess, Watching
  <1>2. ASSUME UNCHANGED <<run, overlapped>> PROVE OwnsProcess(q) /\ \A r \in Payment \ {q} : ~Alive(r)'
    BY <1>2 DEF CheckoutInv, Alive, OwnsProcess
  <1>3. CASE PanelStep
    BY <1>2, <1>3, PanelFacts DEF OwnsProcess, Watching
  <1>8. CASE Confirm
    BY <1>2, <1>8 DEF Confirm, OwnsProcess, Watching
  <1>4. CASE Cancel
    BY <1>2, <1>4 DEF Cancel, OwnsProcess, Watching
  <1>5. CASE SplitEnds
    BY <1>2, <1>5 DEF SplitEnds, OwnsProcess
  <1>9. CASE SendPaymentData
    BY <1>2, <1>9 DEF SendPaymentData, OwnsProcess, Watching
  <1>6. CASE Redirect
    <2>1. run'[q].pc \in {"idle", "done"}
      BY <1>0, <1>6 DEF Redirect, Alive, Run, Pc
    <2> QED BY <2>1 DEF Alive
  <1>7. CASE \E p \in Payment : Proceed(p)
    <2>1. IsPaidStatus(tx[q]) => IsPaidStatus(tx'[q])
      BY <1>7 DEF Proceed, Flow, IsPaidStatus, CheckoutInv, CheckoutTypeOK
    <2> QED BY <1>2, <1>7, <2>1 DEF Proceed, OwnsProcess, Watching
  <1> QED BY <1>1, <1>3, <1>4, <1>5, <1>6, <1>7, <1>8, <1>9, UserCases

-----------------------------------------------------------------------------
(* What the merchant is told.                                              *)

\* A turn reports nothing, or the payment whose turn it is, which has been paid
\* or will be in cash.
LEMMA ResumeReports ==
  ASSUME CheckoutInv, NEW p \in Payment, Resume(p), server, ~overlapped
  PROVE  \/ reported' = reported
         \/ reported' = reported \cup {p} /\ (run[p].method = "cash" \/ IsPaidStatus(tx[p]))
  <1> USE DEF processVars, screenVars, pageVars
  <1>0. /\ run \in [Payment -> Run] /\ run[p] \in Run /\ tx \in [Payment -> TxStatus]
        /\ order.tx \in Payment \cup {None}
    BY DEF CheckoutInv, CheckoutTypeOK, NoOrder
  <1>1. OwnsProcess(p)
    BY <1>0, ResumeFrame DEF CheckoutInv
  <1>2. CASE OrderCreated(p)
    BY <1>0, <1>1, <1>2 DEF OrderCreated, OnPaymentOrder, ShowSuccess, OwnsProcess,
      Run, Method
  <1>3. CASE TransactionCreated(p)
    BY <1>1, <1>3 DEF TransactionCreated, OnPaymentOrder, OwnsProcess
  <1>4. CASE Authorized(p)
    <2>1. IsPaidStatus(tx[p]) /\ (listeners # {} => stored = p)
      BY <1>1, <1>4 DEF Authorized, News, OwnsProcess, Watching
    <2> QED BY <1>4, <2>1 DEF Authorized, OnAuthorized, ShowSuccess
  <1>5. CASE \/ TransactionWithoutOrder(p) \/ CallFails(p) \/ Stop(p) \/ NoNews(p)
             \/ Declined(p) \/ Challenged(p) \/ Undecided(p) \/ ChallengeRequired(p)
             \/ CreateTransaction(p) \/ Wake(p) \/ ServerAnswers(p)
             \/ \E isSplit \in BOOLEAN : PaymentData(p, isSplit)
    BY <1>5 DEF TransactionWithoutOrder, CallFails, Stop, NoNews, Declined, Challenged, Undecided,
      ChallengeRequired, CreateTransaction, Wake, ServerAnswers, PaymentData, Show
  <1> QED BY <1>2, <1>3, <1>4, <1>5 DEF Resume

\* A transaction that is authorised stays so.
LEMMA PaidIsStable ==
  ASSUME CheckoutInv, Next, NEW q \in Payment, IsPaidStatus(tx[q])
  PROVE  IsPaidStatus(tx'[q])
  <1> USE DEF processVars, screenVars, pageVars
  <1>1. CASE \E p \in Payment : Proceed(p)
    BY <1>1 DEF Proceed, Flow, IsPaidStatus, CheckoutInv, CheckoutTypeOK
  <1>2. CASE \E p \in Payment : CreateTransaction(p)
    BY <1>2 DEF CreateTransaction, IsPaidStatus, CheckoutInv, CheckoutTypeOK
  <1>3. ASSUME UNCHANGED tx PROVE IsPaidStatus(tx'[q])
    BY <1>3
  <1>4. CASE User \/ SplitEnds \/ SendPaymentData \/ Redirect
    BY <1>3, <1>4, UserCases, PanelFacts DEF Starts, Start, Confirm, Cancel,
      SplitEnds, SendPaymentData, Redirect
  <1>5. CASE \E p \in Payment : Resume(p) /\ ~CreateTransaction(p)
    BY <1>3, <1>5 DEF Resume, OrderCreated, TransactionCreated, TransactionWithoutOrder, CallFails,
      Wake, Stop, ServerAnswers, NoNews, Authorized, Declined, Challenged, Undecided, PaymentData,
      ChallengeRequired
  <1> QED BY <1>1, <1>2, <1>4, <1>5 DEF Next

-----------------------------------------------------------------------------
(* The inductive invariant.                                                *)

\* No step makes the windows of two payments one again, nor changes the API.
LEMMA OverlapStays ==
  ASSUME CheckoutInv, Next
  PROVE  server' = server /\ (~overlapped' => ~overlapped)
  <1>0. /\ run \in [Payment -> Run] /\ tx \in [Payment -> TxStatus]
        /\ order.tx \in Payment \cup {None}
    BY DEF CheckoutInv, CheckoutTypeOK, NoOrder
  <1>1. CASE \E p \in Payment : Resume(p)
    BY <1>0, <1>1, ResumeFrame
  <1>2. CASE Confirm \/ Cancel \/ SplitEnds \/ SendPaymentData \/ Redirect \/ \E p \in Payment : Proceed(p)
    BY <1>2 DEF Confirm, Cancel, SplitEnds, SendPaymentData, Redirect, Proceed
  <1>3. CASE PanelStep
    BY <1>3, PanelFacts
  <1>4. CASE Starts
    <2>1. server' = server
      BY <1>4 DEF Starts, Start
    <2>2. ~overlapped' => ~overlapped
      BY <1>4, Zenon DEF Starts, Start
    <2> QED BY <2>1, <2>2
  <1> QED BY <1>1, <1>2, <1>3, <1>4, UserCases DEF Next

\* A turn of the owner keeps what is said of the server API.
LEMMA ResumeServer ==
  ASSUME CheckoutInv, NEW p \in Payment, Resume(p), server', ~overlapped'
  PROVE  ServerReports' /\ ReportedIsPaid'
  <1> USE DEF processVars, screenVars, pageVars
  <1>0. /\ run \in [Payment -> Run] /\ tx \in [Payment -> TxStatus]
        /\ order.tx \in Payment \cup {None}
    BY DEF CheckoutInv, CheckoutTypeOK, NoOrder
  <1>1. /\ Alive(p) /\ server /\ ~overlapped
        /\ \A q \in Payment \ {p} : run'[q] = run[q]
        /\ run'[p].method = run[p].method /\ run'[p].pc # "idle"
    BY <1>0, ResumeFrame
  <1>2. OwnsProcess(p)
    BY <1>1 DEF CheckoutInv
  <1>3. run[p].pc # "checkout"
    BY <1>1, <1>2 DEF OwnsProcess
  <1>4. stage' \in {stage, "failed", "success_info", "auth_3ds"} /\ leaving' = leaving
    BY <1>3 DEF Resume, OrderCreated, CreateTransaction, TransactionCreated,
      TransactionWithoutOrder, CallFails, Wake, Stop, ServerAnswers, NoNews, Authorized,
      OnAuthorized, OnPaymentOrder, ShowSuccess, Show, Declined, Challenged, Undecided,
      PaymentData, ChallengeRequired
  <1>5. \A q \in Payment : IsPaidStatus(tx[q]) => IsPaidStatus(tx'[q])
    BY PaidIsStable DEF Next
  <1>6. reported \subseteq Payment
    BY DEF CheckoutInv, CheckoutTypeOK
  <1>7. \A q \in reported' : \/ q \in reported
                             \/ q = p /\ (run[p].method = "cash" \/ IsPaidStatus(tx[p]))
    BY <1>1, ResumeReports
  <1>8. \A q \in reported : run[q].pc # "idle" /\ (run[q].method = "cash" \/ IsPaidStatus(tx[q]))
    BY <1>1 DEF CheckoutInv, ServerReports, ReportedIsPaid
  <1>9. ServerReports'
    BY <1>1, <1>4, <1>6, <1>7, <1>8 DEF CheckoutInv, ServerReports
  <1>10. ReportedIsPaid'
    BY <1>1, <1>5, <1>6, <1>7, <1>8 DEF ReportedIsPaid
  <1> QED BY <1>9, <1>10

\* The other steps report nothing.
LEMMA OtherServer ==
  ASSUME CheckoutInv, server', ~overlapped',
         User \/ SplitEnds \/ SendPaymentData \/ Redirect \/ \E p \in Payment : Proceed(p)
  PROVE  ServerReports' /\ ReportedIsPaid'
  <1> USE DEF processVars, screenVars, pageVars
  <1>1. server /\ ~overlapped
    BY OverlapStays DEF Next
  <1>2. /\ run \in [Payment -> Run] /\ reported \subseteq Payment
        /\ stage \notin {"auth_ya", "split_payment", "success_redirect"} /\ leaving = {}
        /\ \A q \in reported : run[q].pc # "idle" /\ (run[q].method = "cash" \/ IsPaidStatus(tx[q]))
    BY <1>1 DEF CheckoutInv, CheckoutTypeOK, ServerReports, ReportedIsPaid
  <1>3. \A q \in Payment : IsPaidStatus(tx[q]) => IsPaidStatus(tx'[q])
    BY PaidIsStable DEF Next
  <1>4. ~(SplitEnds \/ SendPaymentData \/ Redirect)
    BY <1>2 DEF SplitEnds, SendPaymentData, Redirect
  <1>5. /\ reported' = reported /\ leaving' = leaving
        /\ stage' \notin {"auth_ya", "split_payment", "success_redirect"}
    BY <1>2, <1>4, UserCases, PanelFacts DEF Starts, Start, Confirm, Cancel, Proceed
  <1>6. \A q \in reported : run'[q] = run[q]
    <2>1. CASE Starts
      <3> PICK p \in Payment, m \in Method : Start(p, m) BY <2>1 DEF Starts
      <3>1. run[p].pc = "idle" /\ \A q \in Payment \ {p} : run'[q] = run[q]
        BY <1>2, StartFacts DEF Start
      <3> QED BY <1>2, <3>1
    <2>2. CASE UNCHANGED run
      BY <2>2
    <2> QED BY <1>4, <2>1, <2>2, UserCases, PanelFacts DEF Confirm, Cancel, Proceed
  <1> QED BY <1>2, <1>3, <1>5, <1>6 DEF ServerReports, ReportedIsPaid

\* Listeners change the screen only where there are some, and whoever removes them
\* shows the initial screen.
LEMMA ListenedStays ==
  ASSUME CheckoutInv, Next
  PROVE  ScreenIsListened'
  <1> USE DEF processVars, screenVars, pageVars
  <1>0. stage \notin {"initial", "new_card", "failed"} => listeners # {}
    BY DEF CheckoutInv, ScreenIsListened
  <1>1. CASE \E p \in Payment : Resume(p)
    <2>1. listeners' = listeners /\ (listeners = {} => stage' = stage)
      BY <1>1 DEF Resume, OrderCreated, CreateTransaction, TransactionCreated,
        TransactionWithoutOrder, CallFails, Wake, Stop, ServerAnswers, NoNews, Authorized,
        OnAuthorized, OnPaymentOrder, Show, Declined, Challenged, Undecided, PaymentData,
        ChallengeRequired
    <2> QED BY <1>0, <2>1 DEF ScreenIsListened
  <1>2. CASE Starts
    BY <1>2 DEF Starts, Start, ScreenIsListened
  <1>3. CASE PanelStep
    BY <1>0, <1>3, PanelFacts DEF ScreenIsListened
  <1>4. CASE Confirm \/ Cancel \/ Redirect
    BY <1>0, <1>4 DEF Confirm, Cancel, Redirect, ScreenIsListened
  <1>5. CASE SplitEnds \/ SendPaymentData \/ \E p \in Payment : Proceed(p)
    <2>1. listeners' = listeners /\ (stage' = stage \/ stage = "split_payment")
      BY <1>5 DEF SplitEnds, SendPaymentData, Proceed
    <2> QED BY <1>0, <2>1 DEF ScreenIsListened
  <1> QED BY <1>1, <1>2, <1>3, <1>4, <1>5, UserCases DEF Next

\* A step that changes nothing changes nothing of the invariant.
LEMMA CheckoutStutter ==
  ASSUME CheckoutInv, UNCHANGED vars
  PROVE  CheckoutInv'
  BY DEF vars, processVars, pageVars, CheckoutInv, CheckoutTypeOK, DataIsStored, ScreenIsListened, ServerReports, ReportedIsPaid,
       OwnsProcess, Alive

LEMMA CheckoutInitial ==
  ASSUME Init
  PROVE  CheckoutInv
  <1>1. [pc |-> "idle", method |-> "card", asked |-> None, seen |-> "none"] \in Run
    BY DEF Run, Pc, Method, TxStatus
  <1>2. \A p \in Payment : ~Alive(p)
    BY DEF Init, Alive
  <1>3. CheckoutTypeOK
    BY <1>1 DEF Init, CheckoutTypeOK, Stage, TxStatus
  <1> QED BY <1>2, <1>3 DEF Init, CheckoutInv, DataIsStored, ScreenIsListened, ServerReports,
         ReportedIsPaid

LEMMA CheckoutStep ==
  ASSUME CheckoutInv, Next
  PROVE  CheckoutInv'
  <1>1. ScreenOK /\ ProcessOK
    BY DEF CheckoutInv, CheckoutTypeOK, ScreenOK, ProcessOK
  <1>2. ScreenOK' /\ ProcessOK'
    BY <1>1, ResumeType, OtherType DEF Next
  <1>3. CheckoutTypeOK' /\ DataIsStored'
    BY <1>2 DEF CheckoutTypeOK, ScreenOK, ProcessOK
  <1>4. ASSUME NEW q \in Payment, ~overlapped', Alive(q)' PROVE OwnsProcess(q)'
    <2>1. CASE Resume(q)
      BY <1>4, <2>1, ResumeOwns
    <2>2. ASSUME NEW p \in Payment \ {q}, Resume(p) PROVE FALSE
      <3>0. /\ run \in [Payment -> Run] /\ tx \in [Payment -> TxStatus]
            /\ order.tx \in Payment \cup {None}
        BY DEF CheckoutInv, CheckoutTypeOK, NoOrder
      <3>1. Alive(p) /\ run'[q] = run[q] /\ ~overlapped
        BY <1>4, <2>2, <3>0, ResumeFrame
      <3> QED BY <1>4, <3>1 DEF CheckoutInv, OwnsProcess, Alive
    <2> QED BY <1>4, <2>1, <2>2, OtherOwns DEF Next
  <1>5. ServerReports' /\ ReportedIsPaid'
    <2>1. CASE ~(server' /\ ~overlapped')
      BY <2>1 DEF ServerReports, ReportedIsPaid
    <2>2. CASE server' /\ ~overlapped'
      BY <2>2, ResumeServer, OtherServer DEF Next
    <2> QED BY <2>1, <2>2
  <1>6. ScreenIsListened'
    BY ListenedStays
  <1> QED BY <1>3, <1>4, <1>5, <1>6 DEF CheckoutInv

\* One payment at a time owns the process, and what the window sends to the
\* merchant is data that have been stored and an order that is paid.
THEOREM CheckoutInvariant == Spec => []CheckoutInv
  <1>1. Init => CheckoutInv
    BY CheckoutInitial
  <1>2. CheckoutInv /\ [Next]_vars => CheckoutInv'
    BY CheckoutStep, CheckoutStutter
  <1> QED BY <1>1, <1>2, PTL DEF Spec

\* Every variable of the window stays in its type.
THEOREM CheckoutTypeCorrect == Spec => []CheckoutTypeOK
  <1>1. CheckoutInv => CheckoutTypeOK
    BY DEF CheckoutInv
  <1> QED BY <1>1, CheckoutInvariant, PTL

\* successCheckout is sent for orders whose transaction is authorised, or that
\* are paid in cash, as long as payments do not overlap.
THEOREM ReportedIsPaidCorrect == Spec => []ReportedIsPaid
  <1>1. CheckoutInv => ReportedIsPaid
    BY DEF CheckoutInv
  <1> QED BY <1>1, CheckoutInvariant, PTL

\* With the same proviso only the timer of a frame that was never ready, or the page
\* that leaves, replaces the screen of a success: no late answer and no failed call.
THEOREM SuccessIsFinalCorrect == Spec => SuccessIsFinal
  <1> DEFINE Final == stage' = "success_info" \/ Redirect \/ \E f \in loading : FrameTimesOut(f)
  <1>1. ASSUME CheckoutInv, Next, stage = "success_info", ~overlapped' PROVE Final
    <2>1. ~overlapped
      BY <1>1, OverlapStays
    <2>2. /\ run \in [Payment -> Run] /\ tx \in [Payment -> TxStatus]
          /\ order.tx \in Payment \cup {None}
      BY <1>1 DEF CheckoutInv, CheckoutTypeOK, NoOrder
    <2>3. ~ \E p \in Payment : Resume(p)
      BY <1>1, <2>1, <2>2, ResumeFrame DEF CheckoutInv, OwnsProcess
    <2>4. ~Starts
      BY <1>1 DEF Starts, Start, CheckoutInv, ScreenIsListened
    <2>5. CASE PanelStep
      BY <1>1, <2>5 DEF PanelStep, ChooseNewCard, FrameTimesOut, FrameReady, NewCardFails, CardBound,
        screenVars
    <2> QED BY <1>1, <2>3, <2>4, <2>5, UserCases DEF Next, Confirm, Cancel, SplitEnds,
          SendPaymentData, Proceed, screenVars
  <1>2. UNCHANGED vars /\ stage = "success_info" => stage' = "success_info"
    BY DEF vars
  <1>3. CheckoutInv /\ [Next]_vars => [stage = "success_info" /\ ~overlapped' => Final]_vars
    BY <1>1, <1>2
  <1> QED BY <1>3, CheckoutInvariant, PTL DEF Spec, SuccessIsFinal

-----------------------------------------------------------------------------
(* The payment in progress.                                                *)

Unsettled == {"none", "new", "threeds_challenge"}

Progress == {"payment", "auth_3ds"}

\* What makes ProgressIsWatched inductive: the payment that the listeners belong to
\* keeps its order and has not seen the end of its transaction, whatever is shown.
WatchInv ==
  ~overlapped =>
    /\ stage \in Progress => \E p \in Payment : Alive(p) /\ listeners = {p}
    /\ \A p \in Payment : Alive(p) /\ listeners = {p} =>
         /\ last \in Unsettled
         /\ run[p].pc \in Watching => order = [id |-> p, tx |-> p]

\* A turn of the owner either leaves it in charge or replaces the screen.
LEMMA WatchResume ==
  ASSUME CheckoutInv, WatchInv, NEW p \in Payment, Resume(p)
  PROVE  WatchInv'
  <1> USE DEF processVars, screenVars, pageVars
  <1> SUFFICES ASSUME ~overlapped'
               PROVE  /\ stage' \in Progress => \E q \in Payment : Alive(q)' /\ listeners' = {q}
                      /\ \A q \in Payment : Alive(q)' /\ listeners' = {q} =>
                           /\ last' \in Unsettled
                           /\ run'[q].pc \in Watching => order' = [id |-> q, tx |-> q]
    BY DEF WatchInv
  <1>0. /\ run \in [Payment -> Run] /\ run[p] \in Run /\ tx \in [Payment -> TxStatus]
        /\ order.tx \in Payment \cup {None}
    BY DEF CheckoutInv, CheckoutTypeOK, NoOrder
  <1>1. /\ Alive(p) /\ ~overlapped
        /\ \A q \in Payment \ {p} : run'[q] = run[q]
    BY <1>0, ResumeFrame
  <1>2. OwnsProcess(p)
    BY <1>1 DEF CheckoutInv
  <1>3. \A q \in Payment : Alive(q)' => q = p
    BY <1>1, <1>2 DEF OwnsProcess, Alive
  <1>4. /\ stage \in Progress => listeners = {p}
        /\ listeners = {p} => last \in Unsettled
        /\ listeners = {p} /\ run[p].pc \in Watching => order = [id |-> p, tx |-> p]
    BY <1>1, <1>2 DEF WatchInv, OwnsProcess
  <1>5. listeners' = listeners /\ listeners \subseteq {p}
    BY <1>2 DEF OwnsProcess, Resume, OrderCreated, CreateTransaction, TransactionCreated,
      TransactionWithoutOrder, CallFails, Wake, Stop, ServerAnswers, NoNews, Authorized, Declined,
      Challenged, Undecided, PaymentData, ChallengeRequired
  \* It is enough that the owner stays in charge, or is done and the screen replaced.
  <1>a. /\ "done" \in Pc /\ "transacting" \in Pc /\ "sleeping" \in Pc
    BY DEF Pc
  <1>6. ASSUME Alive(p)', stage' = stage \/ listeners = {p},
               listeners = {p} =>
                 /\ last' \in Unsettled
                 /\ run'[p].pc \in Watching => order' = [id |-> p, tx |-> p]
        PROVE  /\ stage' \in Progress => \E q \in Payment : Alive(q)' /\ listeners' = {q}
               /\ \A q \in Payment : Alive(q)' /\ listeners' = {q} =>
                    /\ last' \in Unsettled
                    /\ run'[q].pc \in Watching => order' = [id |-> q, tx |-> q]
    <2>1. stage' \in Progress => listeners' = {p}
      BY <1>4, <1>5, <1>6
    <2>2. \A q \in Payment : Alive(q)' /\ listeners' = {q} => q = p /\ listeners = {p}
      BY <1>3, <1>5
    <2>3. stage' \in Progress => \E q \in Payment : Alive(q)' /\ listeners' = {q}
      BY <1>6, <2>1
    <2>4. ASSUME NEW q \in Payment, Alive(q)', listeners' = {q}
          PROVE  last' \in Unsettled /\ (run'[q].pc \in Watching => order' = [id |-> q, tx |-> q])
      <3>1. q = p /\ listeners = {p}
        BY <2>2, <2>4
      <3>2. last' \in Unsettled /\ (run'[p].pc \in Watching => order' = [id |-> p, tx |-> p])
        BY <1>6, <3>1
      <3> QED BY <3>1, <3>2
    <2> QED BY <2>3, <2>4
  <1>7. ASSUME Goto(p, "done"), listeners = {p} => stage' \notin Progress, listeners # {p} => stage' = stage
        PROVE  /\ stage' \in Progress => \E q \in Payment : Alive(q)' /\ listeners' = {q}
               /\ \A q \in Payment : Alive(q)' /\ listeners' = {q} =>
                    /\ last' \in Unsettled
                    /\ run'[q].pc \in Watching => order' = [id |-> q, tx |-> q]
    <2>1. run'[p].pc = "done"
      BY <1>0, <1>a, <1>7, GotoFacts
    <2>2. ~Alive(p)'
      BY <2>1 DEF Alive
    <2> QED BY <1>3, <1>4, <1>7, <2>2
  <1>8. CASE OrderCreated(p) /\ run[p].method = "card"
    <2>1. Goto(p, "transacting") /\ UNCHANGED <<screenVars, last>>
      BY <1>8 DEF OrderCreated
    <2>2. run'[p].pc = "transacting"
      BY <1>0, <1>a, <2>1, GotoFacts
    <2>3. Alive(p)' /\ run'[p].pc \notin Watching
      BY <2>2 DEF Alive, Watching
    <2> QED BY <1>4, <1>6, <2>1, <2>3
  <1>9. CASE OrderCreated(p) /\ run[p].method # "card"
    <2>1. run[p].method = "cash"
      BY <1>0, <1>9 DEF Run, Method
    <2>2. listeners = {p} => stage' \in {"success_info", "failed"}
      BY <1>9, <2>1, CheckoutAssumption DEF OrderCreated, OnPaymentOrder, ShowSuccess
    <2>3. listeners # {p} => stage' = stage
      BY <1>5, <1>9 DEF OrderCreated, OnPaymentOrder
    <2>4. Goto(p, "done")
      BY <1>9 DEF OrderCreated
    <2> QED BY <1>7, <2>2, <2>3, <2>4 DEF Progress
  <1>10. CASE CreateTransaction(p)
    <2>1. UNCHANGED <<run, stage, order, last>> /\ run[p].pc = "transacting"
      BY <1>10 DEF CreateTransaction
    <2>2. Alive(p)' /\ run'[p].pc \notin Watching
      BY <2>1 DEF Alive, Watching
    <2> QED BY <1>4, <1>6, <2>1, <2>2
  <1>11. CASE TransactionCreated(p)
    <2>1. run'[p].pc = "asking"
      BY <1>0, <1>11, AskFacts DEF TransactionCreated
    <2>2. order = [id |-> p, tx |-> None] /\ run[p].method = "card"
      BY <1>2, <1>11 DEF TransactionCreated, OrderIsReset, OwnsProcess
    <2>3. order' = [id |-> p, tx |-> p] /\ last' = last
      BY <1>11, <2>2 DEF TransactionCreated
    <2>4. listeners # {p} => stage' = stage
      BY <1>5, <1>11 DEF TransactionCreated, OnPaymentOrder
    <2> QED BY <1>4, <1>6, <2>1, <2>3, <2>4 DEF Alive
  <1>12. CASE TransactionWithoutOrder(p) \/ CallFails(p) \/ Declined(p) \/ ChallengeRequired(p)
    <2>1. Goto(p, "done") /\ \E s \in {"failed", "auth_ya"} : Show(s)
      BY <1>12 DEF TransactionWithoutOrder, CallFails, Declined, ChallengeRequired
    <2>2. listeners = {p} => stage' \notin Progress
      BY <2>1, CheckoutAssumption DEF Show, Progress
    <2>3. listeners # {p} => stage' = stage
      BY <1>5, <2>1 DEF Show
    <2> QED BY <1>7, <2>1, <2>2, <2>3
  <1>13. CASE Wake(p)
    <2>1. UNCHANGED <<stage, order, last>> /\ run[p].pc = "sleeping"
      BY <1>13 DEF Wake
    <2>2. run'[p].pc = "asking"
      BY <1>0, <1>13, AskFacts DEF Wake
    <2> QED BY <1>4, <1>6, <2>1, <2>2 DEF Alive, Watching
  <1>14. CASE ServerAnswers(p)
    <2>1. UNCHANGED <<stage, order, last>> /\ run[p].pc = "asking"
      BY <1>14 DEF ServerAnswers
    <2>2. tx[run[p].asked] \in TxStatus
      BY <1>0, <1>14 DEF ServerAnswers, Run
    <2>3. run'[p].pc = "answered"
      BY <1>0, <1>14, <2>2, SeenFacts DEF ServerAnswers
    <2> QED BY <1>4, <1>6, <2>1, <2>3 DEF Alive, Watching
  \* A watcher whose payment is shown has an order, and does not stop.
  <1>15. CASE Stop(p)
    <2>1. Goto(p, "done") /\ order = NoOrder /\ run[p].pc = "sleeping" /\ stage' = stage
      BY <1>15 DEF Stop, AfterStop
    <2>2. listeners # {p}
      <3>1. [id |-> p, tx |-> p] # NoOrder
        BY CheckoutAssumption DEF NoOrder
      <3> QED BY <1>4, <2>1, <3>1 DEF Watching
    <2> QED BY <1>7, <2>1, <2>2
  <1>16. CASE NoNews(p) \/ Undecided(p) \/ Challenged(p)
    <2>1. Goto(p, "sleeping") /\ run[p].pc = "answered" /\ order' = order
      BY <1>16 DEF NoNews, Undecided, Challenged, News
    <2>2. last' \in Unsettled \/ last' = last
      BY <1>16 DEF NoNews, Undecided, Challenged, Unsettled
    <2>3. stage' = stage \/ listeners = {p}
      BY <1>5, <1>16 DEF NoNews, Undecided, Challenged, Show
    <2>4. run'[p].pc = "sleeping"
      BY <1>0, <1>a, <2>1, GotoFacts
    <2> QED BY <1>4, <1>6, <2>1, <2>2, <2>3, <2>4 DEF Alive, Watching
  <1>17. CASE Authorized(p)
    <2>1. Goto(p, "done")
      BY <1>17 DEF Authorized, AfterSuccess
    <2>2. listeners = {p} => stage' \in {"success_info", "failed"}
      BY <1>17, CheckoutAssumption DEF Authorized, OnAuthorized, ShowSuccess
    <2>3. listeners # {p} => stage' = stage
      BY <1>5, <1>17 DEF Authorized, OnAuthorized
    <2> QED BY <1>7, <2>1, <2>2, <2>3 DEF Progress
  <1>18. CASE \E isSplit \in BOOLEAN : PaymentData(p, isSplit)
    <2>1. Goto(p, "done")
      BY <1>18 DEF PaymentData
    <2>2. listeners = {p} => stage' \in {"split_payment", "success_redirect"}
      BY <1>18, CheckoutAssumption DEF PaymentData
    <2>3. listeners # {p} => stage' = stage
      BY <1>5, <1>18 DEF PaymentData
    <2> QED BY <1>7, <2>1, <2>2, <2>3 DEF Progress
  <1> QED BY <1>8, <1>9, <1>10, <1>11, <1>12, <1>13, <1>14, <1>15, <1>16, <1>17, <1>18 DEF Resume

\* What the user does hands the screen over to a new payment, or takes it from all.
LEMMA WatchOther ==
  ASSUME CheckoutInv, WatchInv,
         User \/ SplitEnds \/ SendPaymentData \/ Redirect \/ \E p \in Payment : Proceed(p)
  PROVE  WatchInv'
  <1> USE DEF processVars, screenVars, pageVars
  <1>0. run \in [Payment -> Run]
    BY DEF CheckoutInv, CheckoutTypeOK
  <1>1. CASE Starts
    <2> PICK p \in Payment, m \in Method : Start(p, m) BY <1>1 DEF Starts
    <2>1. run'[p].pc \in {"ordering", "checkout"}
      BY <1>0, StartFacts
    <2>2. last' = "none" /\ (~overlapped' => listeners' = {p})
      BY DEF Start, LastAfterStart
    <2>3. ~overlapped' => \A q \in Payment : listeners' = {q} => q = p
      BY <2>2
    <2> QED BY <2>1, <2>2, <2>3 DEF WatchInv, Alive, Watching, Unsettled
  <1>2. CASE Cancel \/ Redirect
    BY <1>2 DEF Cancel, Redirect, WatchInv, Progress
  <1>3. CASE PanelStep \/ SplitEnds \/ SendPaymentData \/ \E p \in Payment : Proceed(p)
    <2>1. UNCHANGED <<run, order, last, listeners, overlapped>> /\ (stage' = stage \/ stage' \notin Progress)
      BY <1>3, PanelFacts DEF SplitEnds, SendPaymentData, Proceed, ShowSuccess, Progress
    <2> QED BY <2>1 DEF WatchInv, Alive
  <1>4. CASE Confirm
    <2>1. UNCHANGED <<run, order, last, listeners, overlapped>> /\ stage \in Progress
      BY <1>4 DEF Confirm, Progress
    <2> QED BY <2>1 DEF WatchInv, Alive
  <1> QED BY <1>1, <1>2, <1>3, <1>4, UserCases

\* While "payment in progress" or the page of the bank is shown, a coroutine is alive
\* that will see the end of the transaction as news and replace it: on this, and on
\* the fairness of its turns, the end of every payment rests.
THEOREM ProgressIsWatchedCorrect == Spec => []ProgressIsWatched
  <1>1. Init => WatchInv
    BY DEF Init, WatchInv, Alive, Progress
  <1>2. CheckoutInv /\ WatchInv /\ [Next]_vars => WatchInv'
    <2>1. ASSUME WatchInv, UNCHANGED vars PROVE WatchInv'
      BY <2>1 DEF vars, WatchInv, Alive
    <2> QED BY <2>1, WatchResume, WatchOther DEF Next
  <1>3. WatchInv => ProgressIsWatched
    BY DEF WatchInv, ProgressIsWatched, Progress, Unsettled
  <1> QED BY <1>1, <1>2, <1>3, CheckoutInvariant, PTL DEF Spec

-----------------------------------------------------------------------------
(* What the merchant is told when payments overlap.                        *)

Cause == \E p \in Payment : (run[p].pc # "idle" /\ run[p].method = "cash") \/ IsPaidStatus(tx[p])

\* A status that has been read and a report both have a cause; the listeners are
\* those of payments that have started.
CauseInv ==
  /\ \A p \in listeners : run[p].pc # "idle"
  /\ server =>
       /\ stage \notin {"auth_ya", "split_payment", "success_redirect"} /\ leaving = {}
       /\ \A p \in Payment : run[p].pc # "checkout"
       /\ \A p \in Payment : run[p].pc = "answered" /\ IsPaidStatus(run[p].seen) => Cause
       /\ reported # {} => Cause

\* A payment that has started keeps its method.
LEMMA StartedStays ==
  ASSUME CheckoutInv, Next, NEW p \in Payment, run[p].pc # "idle"
  PROVE  run'[p].pc # "idle" /\ run'[p].method = run[p].method
  <1> USE DEF processVars, screenVars, pageVars
  <1>0. /\ run \in [Payment -> Run] /\ tx \in [Payment -> TxStatus] /\ run[p] \in Run
        /\ order.tx \in Payment \cup {None}
    BY DEF CheckoutInv, CheckoutTypeOK, NoOrder
  <1>1. CASE \E q \in Payment : Resume(q)
    <2> PICK q \in Payment : Resume(q) BY <1>1
    <2>1. /\ \A r \in Payment \ {q} : run'[r] = run[r]
          /\ run'[q].method = run[q].method /\ run'[q].pc # "idle"
      BY <1>0, ResumeFrame
    <2> QED BY <2>1
  <1>2. CASE Starts
    <2> PICK q \in Payment, m \in Method : Start(q, m) BY <1>2 DEF Starts
    <2>1. q # p
      BY DEF Start
    <2>2. run'[p] = run[p]
      BY <1>0, <2>1, StartFacts
    <2> QED BY <2>2
  <1>3. CASE Redirect
    BY <1>0, <1>3 DEF Redirect, Run
  <1>4. CASE \/ PanelStep \/ Confirm \/ Cancel \/ SplitEnds \/ SendPaymentData
             \/ \E q \in Payment : Proceed(q)
    <2>1. run' = run
      BY <1>4, PanelFacts DEF Confirm, Cancel, SplitEnds, SendPaymentData, Proceed
    <2> QED BY <2>1
  <1> QED BY <1>1, <1>2, <1>3, <1>4, UserCases DEF Next

\* A cause is never taken back.
LEMMA CauseStays == ASSUME CheckoutInv, Next, Cause PROVE Cause'
  <1>1. PICK p \in Payment : (run[p].pc # "idle" /\ run[p].method = "cash") \/ IsPaidStatus(tx[p])
    BY DEF Cause
  <1>2. CASE IsPaidStatus(tx[p])
    <2>1. IsPaidStatus(tx'[p])
      BY <1>2, PaidIsStable
    <2> QED BY <2>1 DEF Cause, IsPaidStatus
  <1>3. CASE run[p].pc # "idle" /\ run[p].method = "cash"
    BY <1>3, StartedStays DEF Cause
  <1> QED BY <1>1, <1>2, <1>3

\* A turn reports a payment in cash, or what it has read of a transaction.
LEMMA CauseResume ==
  ASSUME CheckoutInv, CauseInv, server, NEW p \in Payment, Resume(p)
  PROVE  /\ stage' \notin {"auth_ya", "split_payment", "success_redirect"} /\ leaving' = {}
         /\ \A q \in Payment : run'[q].pc # "checkout"
         /\ \A q \in Payment : run'[q].pc = "answered" /\ IsPaidStatus(run'[q].seen) => Cause
         /\ reported' # {} => Cause
  <1> USE DEF processVars, screenVars, pageVars
  <1>0. /\ run \in [Payment -> Run] /\ run[p] \in Run /\ tx \in [Payment -> TxStatus]
        /\ order.tx \in Payment \cup {None}
    BY DEF CheckoutInv, CheckoutTypeOK, NoOrder
  <1>1. /\ stage \notin {"auth_ya", "split_payment", "success_redirect"} /\ leaving = {}
        /\ \A q \in Payment : run[q].pc # "checkout"
        /\ \A q \in Payment : run[q].pc = "answered" /\ IsPaidStatus(run[q].seen) => Cause
        /\ reported # {} => Cause
        /\ \A q \in listeners : q \in Payment /\ run[q].pc # "idle"
    BY DEF CauseInv, CheckoutInv, CheckoutTypeOK
  <1>2. \A q \in Payment \ {p} : run'[q] = run[q]
    BY <1>0, ResumeFrame
  <1>a. /\ "done" \in Pc /\ "transacting" \in Pc /\ "sleeping" \in Pc
    BY DEF Pc
  \* The others as they were, it is enough to look at the one whose turn it is.
  <1>3. ASSUME run'[p].pc \notin {"checkout", "answered"},
               stage' \notin {"auth_ya", "split_payment", "success_redirect"}, leaving' = leaving,
               reported' = reported \/ Cause
        PROVE  /\ stage' \notin {"auth_ya", "split_payment", "success_redirect"} /\ leaving' = {}
               /\ \A q \in Payment : run'[q].pc # "checkout"
               /\ \A q \in Payment : run'[q].pc = "answered" /\ IsPaidStatus(run'[q].seen) => Cause
               /\ reported' # {} => Cause
    BY <1>1, <1>2, <1>3
  <1>4. CASE OrderCreated(p) \/ TransactionCreated(p)
    <2>1. run'[p].pc \in {"transacting", "done", "asking"}
      <3>1. CASE OrderCreated(p)
        <4>1. Goto(p, "transacting") \/ Goto(p, "done")
          BY <3>1 DEF OrderCreated
        <4> QED BY <1>0, <1>a, <4>1, GotoFacts
      <3>2. CASE TransactionCreated(p)
        <4>1. run' = [run EXCEPT ![p].pc = "asking", ![p].asked = p] /\ p \in Payment \cup {None}
          BY <3>2 DEF TransactionCreated
        <4> QED BY <1>0, <4>1, AskFacts
      <3> QED BY <1>4, <3>1, <3>2
    <2>2. /\ stage' \in {stage, "failed", "success_info"}
          /\ reported' = reported \/ (\E q \in listeners : run[q].method = "cash")
          /\ leaving' = leaving
      BY <1>4 DEF OrderCreated, TransactionCreated, OnPaymentOrder, ShowSuccess
    <2>3. reported' = reported \/ Cause
      BY <1>1, <2>2 DEF Cause
    <2> QED BY <1>1, <1>3, <2>1, <2>2, <2>3
  <1>5. CASE Authorized(p)
    <2>1. Goto(p, "done") /\ Cause
      BY <1>1, <1>5 DEF Authorized, AfterSuccess, News
    <2>2. run'[p].pc = "done"
      BY <1>0, <1>a, <2>1, GotoFacts
    <2>3. stage' \in {stage, "failed", "success_info"} /\ leaving' = leaving
      BY <1>5 DEF Authorized, OnAuthorized, ShowSuccess
    <2> QED BY <1>1, <1>3, <2>1, <2>2, <2>3
  <1>6. CASE ServerAnswers(p)
    <2>1. run[p].asked \in Payment /\ tx[run[p].asked] \in TxStatus
      BY <1>0, <1>6 DEF ServerAnswers, Run
    <2>2. run'[p].pc = "answered" /\ run'[p].seen = tx[run[p].asked]
      BY <1>0, <1>6, <2>1, SeenFacts DEF ServerAnswers
    <2>3. IsPaidStatus(run'[p].seen) => Cause
      BY <2>1, <2>2 DEF Cause
    <2>4. stage' = stage /\ reported' = reported /\ leaving' = leaving
      BY <1>6 DEF ServerAnswers
    <2> QED BY <1>1, <1>2, <2>2, <2>3, <2>4
  <1>7. CASE CreateTransaction(p) \/ Wake(p)
    <2>1. run'[p].pc \in {"transacting", "asking"}
      BY <1>0, <1>7, AskFacts DEF CreateTransaction, Wake
    <2>2. stage' = stage /\ reported' = reported /\ leaving' = leaving
      BY <1>7 DEF CreateTransaction, Wake
    <2> QED BY <1>1, <1>3, <2>1, <2>2
  <1>8. CASE \/ TransactionWithoutOrder(p) \/ CallFails(p) \/ Stop(p) \/ NoNews(p)
             \/ Declined(p) \/ Challenged(p) \/ Undecided(p)
    <2>1. Goto(p, "done") \/ Goto(p, "sleeping")
      BY <1>8 DEF TransactionWithoutOrder, CallFails, Stop, AfterStop, NoNews, Declined, Challenged,
           Undecided
    <2>2. run'[p].pc \in {"done", "sleeping"}
      BY <1>0, <1>a, <2>1, GotoFacts
    <2>3. stage' \in {stage, "failed", "auth_3ds"} /\ reported' = reported /\ leaving' = leaving
      BY <1>8 DEF TransactionWithoutOrder, CallFails, Stop, NoNews, Declined, Challenged, Undecided, Show
    <2> QED BY <1>1, <1>3, <2>2, <2>3
  <1>9. ~ChallengeRequired(p) /\ ~ \E isSplit \in BOOLEAN : PaymentData(p, isSplit)
    BY <1>1 DEF ChallengeRequired, PaymentData
  <1> QED BY <1>4, <1>5, <1>6, <1>7, <1>8, <1>9 DEF Resume

\* Nothing else reports anything with the server API.
LEMMA CauseOther ==
  ASSUME CheckoutInv, CauseInv, server,
         User \/ SplitEnds \/ SendPaymentData \/ Redirect \/ \E p \in Payment : Proceed(p)
  PROVE  /\ stage' \notin {"auth_ya", "split_payment", "success_redirect"} /\ leaving' = {}
         /\ \A q \in Payment : run'[q].pc # "checkout"
         /\ \A q \in Payment : run'[q].pc = "answered" /\ IsPaidStatus(run'[q].seen) => Cause
         /\ reported' # {} => Cause
  <1> USE DEF processVars, screenVars, pageVars
  <1>0. run \in [Payment -> Run]
    BY DEF CheckoutInv, CheckoutTypeOK
  <1>1. /\ stage \notin {"auth_ya", "split_payment", "success_redirect"} /\ leaving = {}
        /\ \A q \in Payment : run[q].pc # "checkout"
        /\ \A q \in Payment : run[q].pc = "answered" /\ IsPaidStatus(run[q].seen) => Cause
        /\ reported # {} => Cause
    BY DEF CauseInv
  <1>2. ~(SplitEnds \/ SendPaymentData \/ Redirect)
    BY <1>1 DEF SplitEnds, SendPaymentData, Redirect
  <1>3. /\ reported' = reported /\ leaving' = {}
        /\ stage' \notin {"auth_ya", "split_payment", "success_redirect"}
    BY <1>1, <1>2, UserCases, PanelFacts DEF Starts, Start, Confirm, Cancel, Proceed
  <1>4. CASE Starts
    <2> PICK p \in Payment, m \in Method : Start(p, m) BY <1>4 DEF Starts
    <2>1. run'[p].pc = "ordering" /\ \A q \in Payment \ {p} : run'[q] = run[q]
      BY <1>0, StartFacts
    <2> QED BY <1>1, <1>3, <2>1
  <1>5. CASE run' = run
    BY <1>1, <1>3, <1>5
  <1> QED BY <1>2, <1>4, <1>5, UserCases, PanelFacts DEF Confirm, Cancel, Proceed

\* Listeners are registered by a payment that starts.
LEMMA ListenersStarted ==
  ASSUME CheckoutInv, CauseInv, Next, NEW q \in listeners'
  PROVE  run'[q].pc # "idle"
  <1> USE DEF processVars, screenVars, pageVars
  <1>0. run \in [Payment -> Run] /\ \A p \in listeners : p \in Payment /\ run[p].pc # "idle"
    BY DEF CheckoutInv, CheckoutTypeOK, CauseInv
  <1>1. CASE q \in listeners
    BY <1>0, <1>1, StartedStays
  <1>2. CASE Starts
    <2> PICK p \in Payment, m \in Method : Start(p, m) BY <1>2 DEF Starts
    <2>1. q \in listeners \/ q = p
      BY DEF Start
    <2>2. run'[p].pc \in {"ordering", "checkout"}
      BY <1>0, StartFacts
    <2> QED BY <1>1, <2>1, <2>2
  <1>3. CASE \E p \in Payment : Resume(p)
    <2>1. listeners' = listeners
      BY <1>3 DEF Resume, OrderCreated, CreateTransaction, TransactionCreated, TransactionWithoutOrder,
        CallFails, Wake, Stop, ServerAnswers, NoNews, Authorized, Declined, Challenged, Undecided,
        PaymentData, ChallengeRequired
    <2> QED BY <1>1, <2>1
  <1>4. CASE \/ PanelStep \/ Confirm \/ Cancel \/ SplitEnds \/ SendPaymentData
             \/ Redirect \/ \E p \in Payment : Proceed(p)
    <2>1. listeners' \in {listeners, {}}
      BY <1>4, PanelFacts DEF Confirm, Cancel, SplitEnds, SendPaymentData, Redirect, Proceed
    <2> QED BY <1>1, <2>1
  <1> QED BY <1>2, <1>3, <1>4, UserCases DEF Next

\* A success is reported only if a payment in cash has been ordered or a transaction
\* is authorised, whichever payments overlap and whoever reads whose status.
THEOREM SuccessHasCauseCorrect == Spec => []SuccessHasCause
  <1>1. Init => CauseInv
    BY DEF Init, CauseInv
  <1>2. CheckoutInv /\ CauseInv /\ [Next]_vars => CauseInv'
    <2>1. ASSUME CauseInv, UNCHANGED vars PROVE CauseInv'
      BY <2>1 DEF vars, CauseInv, Cause
    <2>2. ASSUME CheckoutInv, CauseInv, Next PROVE CauseInv'
      <3>1. server' = server
        BY <2>2, OverlapStays
      <3>2. server =>
              /\ stage' \notin {"auth_ya", "split_payment", "success_redirect"} /\ leaving' = {}
              /\ \A q \in Payment : run'[q].pc # "checkout"
              /\ \A q \in Payment : run'[q].pc = "answered" /\ IsPaidStatus(run'[q].seen) => Cause
              /\ reported' # {} => Cause
        BY <2>2, CauseResume, CauseOther DEF Next
      <3>3. Cause => Cause'
        BY <2>2, CauseStays
      <3>4. \A q \in listeners' : run'[q].pc # "idle"
        BY <2>2, ListenersStarted
      <3> QED BY <3>1, <3>2, <3>3, <3>4 DEF CauseInv, IsPaidStatus
    <2> QED BY <2>1, <2>2
  <1>3. CauseInv => SuccessHasCause
    BY DEF CauseInv, SuccessHasCause, Cause
  <1> QED BY <1>1, <1>2, <1>3, CheckoutInvariant, PTL DEF Spec
=============================================================================
