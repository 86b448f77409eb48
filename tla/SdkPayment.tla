----------------------------- MODULE SdkPayment -----------------------------
(***************************************************************************)
(* A payment on the page of a merchant: BasePayment of the SDK, which      *)
(* opens the checkout form in a window of its own, listens to the messages *)
(* of the form and tells the merchant how each checkout ends.              *)
(*                                                                         *)
(* The page runs one handler at a time, but every end of a checkout takes  *)
(* several of them.  A result of the form waits for a counter to be sent   *)
(* (counting), then for the page to be looked at (focusing), and only then *)
(* is emitted.  That the window is closed is found out by a timer.         *)
(* Meanwhile the user closes, refreshes and reopens the form, which may    *)
(* then send another result.  The messages and the callbacks do not say    *)
(* which checkout they are about: what they do, they do to the one at      *)
(* hand.  Here each result has a number of its own, by which the           *)
(* properties tell what becomes of it.                                     *)
(*                                                                         *)
(* All checkouts of a payment use one window name, hence one window.       *)
(*                                                                         *)
(* An operator X_M is a mutant of X, what X would be with a plausible      *)
(* mistake: the properties below tell X from it.                           *)
(***************************************************************************)
EXTENDS Naturals, Sequences

CONSTANTS
  MaxCheckouts,  \* bound: calls of checkout() that open a form
  MaxResults,    \* bound: results that all forms send
  MaxInbox       \* bound: messages under way when the user refreshes the form

ASSUME SdkAssumption == MaxCheckouts \in Nat /\ MaxResults \in Nat /\ MaxInbox \in Nat

VARIABLES
  firefox,   \* isFirefox: no overlay
  page,      \* "here", or "gone": left by the user, or the payment destroyed
  count,     \* checkoutCounter
  agent,     \* the checkout of connectionAgent, or None
  completed, \* paymentCompleted
  checker,   \* is checkTargetOpeningTimer running?
  overlay,   \* is the overlay shown?
  window,    \* the checkout whose form is in the window, or None if it is closed
  inbox,     \* messages of the form on their way to the page, in order
  sent,      \* history: the checkout whose form has sent the n-th result
  counting,  \* results that wait for counters.paymentProcess
  focusing,  \* numbers of the results that wait for pageFocusWatcher
  told,      \* history: how often the merchant has been told the n-th result
  aborted,   \* history: how often the merchant has been told an Abort of a checkout
  released,  \* history: checkouts the merchant or the page has given up
  struck     \* history: checkouts that the result of an earlier one has ended

sdkVars == <<agent, completed, checker, overlay>>
formVars == <<window, inbox, sent>>
pending == <<counting, focusing>>
outcomes == <<told, aborted>>
history == <<outcomes, released, struck>>
vars == <<firefox, page, count, sdkVars, formVars, pending, history>>

None == 0

Checkout == 1..MaxCheckouts

Number == 1..MaxResults

(***************************************************************************)
(* What the form sends at its end.  "Success" is also a Process with the   *)
(* method SPLIT, which differs from it in the text of the event only;      *)
(* "Abort" is sent whenever the document unloads.                          *)
(***************************************************************************)
Result == {"Success", "Process", "Error"}

KeepsWindow(type) == type = "Success"

ResultMessage == [type : Result, no : Number]
AbortMessage == [type |-> "Abort", no |-> 0]
Message == ResultMessage \cup {AbortMessage}

TypeOK ==
  /\ firefox \in BOOLEAN /\ page \in {"here", "gone"}
  /\ count \in 0..MaxCheckouts /\ agent \in {None, count}
  /\ completed \in BOOLEAN /\ checker \in BOOLEAN /\ overlay \in BOOLEAN
  /\ window \in 0..count /\ inbox \in Seq(Message)
  /\ sent \in Seq(1..count) /\ Len(sent) <= MaxResults
  /\ counting \subseteq ResultMessage /\ focusing \subseteq Number
  /\ told \in [Number -> Nat] /\ aborted \in [Checkout -> Nat]
  /\ released \subseteq Checkout /\ struck \subseteq Checkout

Init ==
  /\ firefox \in BOOLEAN /\ page = "here"
  /\ count = 0 /\ agent = None
  /\ completed = FALSE /\ checker = FALSE /\ overlay = FALSE
  /\ window = None /\ inbox = <<>> /\ sent = <<>>
  /\ counting = {} /\ focusing = {}
  /\ told = [n \in Number |-> 0] /\ aborted = [c \in Checkout |-> 0]
  /\ released = {} /\ struck = {}

IsConnected == agent # None /\ window # None

\* The form sends an Abort when it unloads; it may be too late to send anything.
Unloads == inbox' \in {inbox, Append(inbox, AbortMessage)}

EmitResult(n) == told' = [told EXCEPT ![n] = @ + 1] /\ UNCHANGED aborted

EmitAbort(c) == aborted' = [aborted EXCEPT ![c] = @ + 1] /\ UNCHANGED told

\* history: something of checkout c ends the checkout at hand.
Strike(c) == struck' = IF c = count THEN struck ELSE struck \cup {count}

-----------------------------------------------------------------------------
(* The merchant and the page.                                              *)

\* With an agent, checkout() only moves the focus to its window.
MayOpen == agent = None

CountAfterOpen == count + 1

OpenCheckout ==
  /\ page = "here" /\ MayOpen /\ count < MaxCheckouts
  /\ count' = CountAfterOpen /\ agent' = count + 1
  /\ completed' = FALSE /\ checker' = TRUE /\ overlay' = ~firefox
  /\ window' = count + 1
  /\ IF window = None THEN UNCHANGED inbox ELSE Unloads
  /\ UNCHANGED <<firefox, page, sent, pending, history>>

OverlayWithoutChannel == FALSE

DestroyChannel ==
  /\ agent' = None /\ checker' = FALSE /\ overlay' = OverlayWithoutChannel
  /\ UNCHANGED completed
  /\ released' = IF agent = None THEN released ELSE released \cup {agent}
  /\ UNCHANGED <<outcomes, struck>>

\* complete(): to a form that is there it is a message, which at most makes the
\* form close itself (UserCloses).
Complete ==
  /\ page = "here" /\ agent # None /\ ~IsConnected
  /\ DestroyChannel
  /\ UNCHANGED <<firefox, page, count, formVars, pending>>

\* onBeforeUnload; the page may stay all the same.
BeforeUnload ==
  /\ page = "here" /\ agent # None
  /\ DestroyChannel
  /\ UNCHANGED <<firefox, page, count, formVars, pending>>

\* The page is left, or destroy() removes every listener.
End ==
  /\ page = "here"
  /\ page' = "gone"
  /\ DestroyChannel
  /\ UNCHANGED <<firefox, count, formVars, pending>>

-----------------------------------------------------------------------------
(* The form and its user.                                                  *)

UserCloses ==
  /\ page = "here" /\ window # None
  /\ window' = None
  /\ Unloads
  /\ UNCHANGED <<firefox, page, count, sdkVars, sent, pending, history>>

UserRefreshes ==
  /\ page = "here" /\ window # None /\ Len(inbox) < MaxInbox
  /\ inbox' = Append(inbox, AbortMessage)
  /\ UNCHANGED <<firefox, page, count, sdkVars, window, sent, pending, history>>

\* Nothing keeps a form that is still open, or has been refreshed, from sending
\* another result.
FormEnds(type) ==
  /\ page = "here" /\ window # None /\ Len(sent) < MaxResults
  /\ sent' = Append(sent, window)
  /\ inbox' = Append(inbox, [type |-> type, no |-> Len(sent) + 1])
  /\ UNCHANGED <<firefox, page, count, sdkVars, window, pending, history>>

-----------------------------------------------------------------------------
(* onMessage.                                                              *)

\* closeCheckoutWindow, with `rest` the messages that are left.
CloseWindow(close, rest) ==
  IF close /\ IsConnected
  THEN /\ window' = None /\ checker' = FALSE
       /\ inbox' \in {rest, Append(rest, AbortMessage)}
  ELSE /\ UNCHANGED <<window, checker>>
       /\ inbox' = rest

CheckerOnAbort_M == FALSE

\* The timer is started anew: the form may only have been refreshed.
CheckerOnAbort == TRUE

OnAbort ==
  /\ page = "here" /\ inbox # <<>> /\ Head(inbox).type = "Abort"
  /\ inbox' = Tail(inbox)
  /\ checker' = CheckerOnAbort
  /\ UNCHANGED <<firefox, page, count, agent, completed, overlay, window, sent,
                 pending, history>>

OnProcess ==
  /\ page = "here" /\ inbox # <<>> /\ Head(inbox).type \in Result \ {"Error"}
  /\ inbox' = Tail(inbox)
  /\ counting' = counting \cup {Head(inbox)}
  /\ UNCHANGED <<firefox, page, count, sdkVars, window, sent, focusing, history>>

OnError ==
  /\ page = "here" /\ inbox # <<>> /\ Head(inbox).type = "Error"
  /\ completed' = TRUE /\ overlay' = FALSE
  /\ CloseWindow(TRUE, Tail(inbox))
  /\ EmitResult(Head(inbox).no) /\ Strike(sent[Head(inbox).no])
  /\ UNCHANGED <<firefox, page, count, agent, sent, pending, released>>

-----------------------------------------------------------------------------
(* The timers and the callbacks.                                           *)

CompletedByCallback_M == completed

CompletedByCallback == TRUE

\* eventProcessCb, when the counter is sent or has taken too long.
Counted(m) ==
  /\ page = "here" /\ m \in counting
  /\ counting' = counting \ {m} /\ focusing' = focusing \cup {m.no}
  /\ completed' = CompletedByCallback /\ overlay' = FALSE
  /\ CloseWindow(~KeepsWindow(m.type), inbox)
  /\ Strike(sent[m.no])
  /\ UNCHANGED <<firefox, page, count, agent, sent, outcomes, released>>

FocusMatters_M == IsConnected

\* The page need not be visible: the watcher gives up after five seconds.
FocusMatters == TRUE

Focused(n) ==
  /\ page = "here" /\ n \in focusing /\ FocusMatters
  /\ focusing' = focusing \ {n}
  /\ EmitResult(n)
  /\ UNCHANGED <<firefox, page, count, sdkVars, formVars, counting, released, struck>>

\* onTargetOpeningCheck, every half a second.
Tick ==
  /\ page = "here" /\ checker
  /\ ~completed /\ ~IsConnected
  /\ completed' = TRUE
  /\ agent' = None /\ checker' = FALSE /\ overlay' = OverlayWithoutChannel
  /\ EmitAbort(count)
  /\ UNCHANGED <<firefox, page, count, formVars, pending, released, struck>>

Deliver == OnAbort \/ OnProcess \/ OnError

Next ==
  \/ OpenCheckout \/ Complete \/ BeforeUnload \/ End
  \/ UserCloses \/ UserRefreshes \/ (\E type \in Result : FormEnds(type))
  \/ Deliver \/ Tick
  \/ \E m \in counting : Counted(m)
  \/ \E n \in focusing : Focused(n)

Spec == Init /\ [][Next]_vars

\* Messages are delivered, the timer is periodic, and the two callbacks have a
\* timeout of 1.5 and of 5 seconds.
FairSpec ==
  /\ Spec /\ WF_vars(Deliver) /\ WF_vars(Tick)
  /\ \A n \in Number : /\ WF_vars(\E m \in counting : m.no = n /\ Counted(m))
                      /\ WF_vars(Focused(n))

-----------------------------------------------------------------------------
\* The page lies under the overlay only while a checkout is going on, whatever
\* closes, completes or unloads: completeCheckout and destroyChannel both hide it.
OverlayMeansCheckout == overlay => agent # None /\ ~completed

Pending == {m.no : m \in counting} \cup focusing
Awaited(c) == \E n \in Pending : sent[n] = c
ToldOf(c) == \E n \in DOMAIN sent : sent[n] = c /\ told[n] > 0
Aborted(c) == aborted[c] > 0

\* A result that is still to be emitted when another checkout is at hand belongs
\* to a checkout that has been aborted or given up: as long as connectionAgent is
\* kept, with its window closed, no checkout starts that the callbacks would hit.
LateWasGivenUp ==
  \A n \in Pending : sent[n] = count \/ sent[n] \in released \/ Aborted(sent[n])

\* As long as the checkout at hand has neither been answered nor has a result under
\* way, the timer that finds out that its window is closed is running and will
\* report it: no Abort, callback or error stops it for a checkout they leave open.
UnansweredIsWatched ==
  agent # None /\ ~ToldOf(agent) /\ ~Aborted(agent) /\ ~Awaited(agent) /\ agent \notin struck =>
    page = "here" /\ checker /\ ~completed

\* From the callback of a result on, no Abort is emitted for its checkout, though
\* the form closes and unloads before the result is emitted.
Sealed(c) == \E n \in DOMAIN sent : sent[n] = c /\ (n \in focusing \/ told[n] > 0)
NoAbortOnceSealed ==
  [][\A c \in Checkout : Sealed(c) => aborted'[c] = aborted[c]]_vars

\* What the merchant is told is what CheckoutOutcomes says: whatever overlaps and
\* however many results a form sends, each is told once at most, and no checkout is
\* aborted twice, or once the merchant has been told of it.
Outcomes == INSTANCE CheckoutOutcomes WITH opened <- count
ImplementsOutcomes == Outcomes!Spec

\* A checkout whose window is closed is answered, by its result, an error or an
\* Abort, unless it was given up or the result of an earlier one has ended it.
EveryCheckoutIsAnswered ==
  \A c \in Checkout :
    (agent = c /\ window = None) ~>
      (ToldOf(c) \/ Aborted(c) \/ c \in released \cup struck)

\* A result that the page has received is emitted in the end, unless it is left.
EveryResultIsEmitted ==
  \A n \in Number : (n \in Pending) ~> (told[n] > 0 \/ page = "gone")

\* What the comment in onMessage promises: the checkout is marked as completed so
\* early that no Abort comes out before the result that is to be emitted.
NoAbortOnceReceived ==
  [][\A c \in Checkout : Awaited(c) => aborted'[c] = aborted[c]]_vars
=============================================================================
