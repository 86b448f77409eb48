-------------------------- MODULE SdkPayment_proofs --------------------------
(***************************************************************************)
(* Theorems about SdkPayment, for every number of checkouts, of results    *)
(* and of messages under way.                                              *)
(***************************************************************************)
EXTENDS SdkPayment, TLAPS

\* The messages of the forms there have been, about the results they have sent.
Known == {m \in Message : count # 0 /\ (m.type \in Result => m.no \in DOMAIN sent)}

GivenUp(c) == c \in released \/ Aborted(c)

(***************************************************************************)
(* The inductive invariant.  Messages and callbacks are about results that *)
(* have been sent; a checkout with a callback behind it is completed as    *)
(* long as it is at hand; and what is no longer at hand has been given up  *)
(* or aborted.                                                             *)
(***************************************************************************)
SdkInv ==
  /\ TypeOK
  /\ OverlayMeansCheckout
  /\ inbox \in Seq(Known) /\ counting \subseteq Known /\ focusing \subseteq DOMAIN sent
  /\ \A n \in Number : told[n] > 0 => n \in DOMAIN sent
  /\ checker => count # 0
  /\ \A c \in Checkout : Sealed(c) /\ c = count => completed
  /\ \A c \in Checkout : c < count \/ (c = count /\ agent = None) => GivenUp(c)

-----------------------------------------------------------------------------
(* Results and messages.                                                   *)

\* Results are numbered in turn, and are those of checkouts that have been opened.
LEMMA SentFacts ==
  ASSUME SdkInv
  PROVE  /\ count \in Nat /\ Len(sent) \in Nat
         /\ DOMAIN sent = 1..Len(sent) /\ DOMAIN sent \subseteq Number
         /\ \A n \in DOMAIN sent : sent[n] \in Checkout /\ sent[n] <= count
  <1>1. count \in Nat /\ count <= MaxCheckouts /\ sent \in Seq(1..count) /\ Len(sent) <= MaxResults
    BY SdkAssumption DEF SdkInv, TypeOK
  <1>2. Len(sent) \in Nat /\ DOMAIN sent = 1..Len(sent) /\ \A n \in DOMAIN sent : sent[n] \in 1..count
    BY <1>1
  <1> QED BY <1>1, <1>2, SdkAssumption DEF Number, Checkout

\* What is pending has been sent.
LEMMA PendingFacts ==
  ASSUME SdkInv
  PROVE  /\ Pending \subseteq DOMAIN sent /\ Pending \subseteq Number
         /\ \A m \in counting : /\ m.no \in Pending /\ m.no \in DOMAIN sent /\ m.no \in Number
                                /\ m.type \in Result
  <1>1. \A m \in counting : m.no \in DOMAIN sent /\ m.type \in Result
    BY DEF SdkInv, TypeOK, Known, ResultMessage
  <1> QED BY <1>1, SentFacts DEF SdkInv, Pending

\* An Abort is no result.
LEMMA AbortFacts ==
  /\ AbortMessage \in Message /\ AbortMessage.type \notin Result /\ AbortMessage.type = "Abort"
  /\ \A m \in Message : m.type # "Abort" => m \in ResultMessage
  /\ \A m \in Message : m.type \in Result => m \in ResultMessage
  BY DEF AbortMessage, Message, ResultMessage, Result

\* More checkouts and results do not make a message unknown.
LEMMA KnownGrows ==
  ASSUME count # 0 => count' # 0, DOMAIN sent \subseteq DOMAIN sent'
  PROVE  Known \subseteq Known'
  BY DEF Known

\* The form says that it unloads, or is too late to say it.
LEMMA AbortKnown ==
  ASSUME NEW rest, rest \in Seq(Message), rest \in Seq(Known), SdkInv, window # None
  PROVE  \A t \in {rest, Append(rest, AbortMessage)} : t \in Seq(Message) /\ t \in Seq(Known)
  <1>1. count # 0
    BY SdkAssumption DEF SdkInv, TypeOK, None
  <1>2. AbortMessage \in Message /\ AbortMessage \in Known
    BY <1>1, AbortFacts DEF Known
  <1>3. Append(rest, AbortMessage) \in Seq(Message) /\ Append(rest, AbortMessage) \in Seq(Known)
    BY <1>2
  <1> QED BY <1>3

\* Reading a message.
LEMMA ReadKnown ==
  ASSUME SdkInv, inbox # <<>>
  PROVE  /\ Head(inbox) \in Known /\ Head(inbox) \in Message /\ count # 0
         /\ Tail(inbox) \in Seq(Known) /\ Tail(inbox) \in Seq(Message)
         /\ Head(inbox).type # "Abort" =>
              /\ Head(inbox) \in ResultMessage
              /\ Head(inbox).no \in DOMAIN sent /\ Head(inbox).no \in Number
              /\ sent[Head(inbox).no] \in Checkout
  <1>1. inbox \in Seq(Known) /\ inbox \in Seq(Message)
    BY DEF SdkInv, TypeOK
  <1>2. /\ Head(inbox) \in Known /\ Head(inbox) \in Message
        /\ Tail(inbox) \in Seq(Known) /\ Tail(inbox) \in Seq(Message)
    BY <1>1
  <1>3. ASSUME Head(inbox).type # "Abort"
        PROVE  Head(inbox) \in ResultMessage /\ Head(inbox).no \in DOMAIN sent
    <2>1. Head(inbox) \in ResultMessage
      BY <1>2, <1>3, AbortFacts
    <2> QED BY <1>2, <2>1 DEF Known, ResultMessage
  <1>4. count # 0
    BY <1>2 DEF Known
  <1> QED BY <1>2, <1>3, <1>4, SentFacts

\* Closing the window leaves the messages `rest`, and perhaps an Abort.
LEMMA CloseWindowKnown ==
  ASSUME SdkInv, UNCHANGED <<count, sent>>, NEW close \in BOOLEAN, NEW rest,
         rest \in Seq(Known), rest \in Seq(Message), CloseWindow(close, rest)
  PROVE  /\ inbox' \in Seq(Message) /\ inbox' \in Seq(Known')
         /\ window' \in 0..count
         /\ checker' \in BOOLEAN /\ (checker' => checker)
  <1>0. Known' = Known
    BY DEF Known
  <1>1. CASE close /\ IsConnected
    <2>1. inbox' \in Seq(Message) /\ inbox' \in Seq(Known)
      BY <1>1, AbortKnown DEF CloseWindow, IsConnected
    <2>2. 0 \in 0..count
      BY SdkAssumption DEF SdkInv, TypeOK
    <2> QED BY <1>0, <1>1, <2>1, <2>2 DEF CloseWindow, None
  <1>2. CASE ~(close /\ IsConnected)
    BY <1>0, <1>2 DEF CloseWindow, SdkInv, TypeOK
  <1> QED BY <1>1, <1>2

\* Telling is counted.
LEMMA EmitResultFacts ==
  ASSUME SdkInv, NEW n \in Number, EmitResult(n)
  PROVE  /\ told' \in [Number -> Nat] /\ aborted' = aborted
         /\ \A k \in Number : told'[k] = IF k = n THEN told[k] + 1 ELSE told[k]
         /\ \A k \in Number : told'[k] > 0 <=> k = n \/ told[k] > 0
  <1>1. told \in [Number -> Nat]
    BY DEF SdkInv, TypeOK
  <1>2. /\ told' \in [Number -> Nat] /\ aborted' = aborted
        /\ \A k \in Number : told'[k] = IF k = n THEN told[k] + 1 ELSE told[k]
    BY <1>1 DEF EmitResult
  <1> QED BY <1>1, <1>2

LEMMA EmitAbortFacts ==
  ASSUME SdkInv, NEW c \in Checkout, EmitAbort(c)
  PROVE  /\ aborted' \in [Checkout -> Nat] /\ told' = told
         /\ \A d \in Checkout : aborted'[d] = IF d = c THEN aborted[d] + 1 ELSE aborted[d]
         /\ \A d \in Checkout : aborted'[d] > 0 <=> d = c \/ aborted[d] > 0
  <1>1. aborted \in [Checkout -> Nat]
    BY DEF SdkInv, TypeOK
  <1>2. /\ aborted' \in [Checkout -> Nat] /\ told' = told
        /\ \A d \in Checkout : aborted'[d] = IF d = c THEN aborted[d] + 1 ELSE aborted[d]
    BY <1>1 DEF EmitAbort
  <1> QED BY <1>1, <1>2

-----------------------------------------------------------------------------
(* The steps.                                                              *)

LEMMA SdkInitial == Init => SdkInv
  <1> SUFFICES ASSUME Init PROVE SdkInv
    OBVIOUS
  <1>1. TypeOK
    <2>1. told \in [Number -> Nat] /\ aborted \in [Checkout -> Nat] /\ inbox \in Seq(Message)
      BY DEF Init
    <2>2. count \in 0..MaxCheckouts /\ window \in 0..count
      BY SdkAssumption DEF Init, None
    <2>3. sent \in Seq(1..count) /\ Len(sent) <= MaxResults
      BY SdkAssumption DEF Init
    <2> QED BY <2>1, <2>2, <2>3 DEF Init, TypeOK
  <1>2. inbox \in Seq(Known) /\ counting \subseteq Known /\ focusing \subseteq DOMAIN sent
    BY DEF Init
  <1>3. \A c \in Checkout : ~Sealed(c) /\ ~(c < count) /\ c # count
    BY SdkAssumption DEF Init, Sealed, Checkout
  <1>4. \A n \in Number : ~(told[n] > 0)
    BY DEF Init
  <1> QED BY <1>1, <1>2, <1>3, <1>4 DEF Init, SdkInv, OverlayMeansCheckout

\* A new checkout is opened when the one before has been given up.
LEMMA OpenStep == ASSUME SdkInv, OpenCheckout PROVE SdkInv'
  <1>0. /\ count \in Nat /\ count' = count + 1 /\ agent' = count' /\ count' \in Checkout
        /\ UNCHANGED <<sent, counting, focusing, told, aborted, released, struck>>
    BY SdkAssumption DEF SdkInv, TypeOK, OpenCheckout, CountAfterOpen, Checkout, pending, history,
         outcomes
  <1>1. Known \subseteq Known'
    BY <1>0, KnownGrows
  <1>2. inbox' \in Seq(Message) /\ inbox' \in Seq(Known')
    <2>1. inbox' \in Seq(Message) /\ inbox' \in Seq(Known)
      BY AbortKnown DEF OpenCheckout, Unloads, SdkInv, TypeOK
    <2> QED BY <1>1, <2>1
  <1>3. TypeOK'
    <2>1. overlay' \in BOOLEAN
      BY DEF OpenCheckout
    <2>2. count' \in 0..MaxCheckouts /\ window' \in 0..count'
      BY <1>0, SdkAssumption DEF SdkInv, TypeOK, OpenCheckout
    <2>3. sent' \in Seq(1..count') /\ Len(sent') <= MaxResults
      <3>1. 1..count \subseteq 1..count'
        BY <1>0
      <3> QED BY <1>0, <3>1 DEF SdkInv, TypeOK
    <2> QED BY <1>0, <1>2, <2>1, <2>2, <2>3 DEF SdkInv, TypeOK, OpenCheckout
  <1>4. \A c \in Checkout : Sealed(c)' => c # count'
    BY <1>0, SentFacts DEF Sealed
  <1>5. \A c \in Checkout : c < count' => GivenUp(c)'
    <2> SUFFICES ASSUME NEW c \in Checkout, c <= count PROVE GivenUp(c)
      BY <1>0 DEF GivenUp, Aborted, Checkout
    <2> QED BY <1>0 DEF SdkInv, OpenCheckout, MayOpen, Checkout
  <1>6. OverlayMeansCheckout' /\ count' # 0 /\ agent' # None
    BY <1>0 DEF OpenCheckout, OverlayMeansCheckout, None
  <1>7. /\ counting' \subseteq Known' /\ focusing' \subseteq DOMAIN sent'
        /\ \A n \in Number : told'[n] > 0 => n \in DOMAIN sent'
    BY <1>0, <1>1 DEF SdkInv
  <1> QED BY <1>0, <1>2, <1>3, <1>4, <1>5, <1>6, <1>7 DEF SdkInv, Checkout

\* Whatever gives a checkout up hides the overlay and says so.
LEMMA ReleaseStep == ASSUME SdkInv, Complete \/ BeforeUnload \/ End PROVE SdkInv'
  <1>0. /\ UNCHANGED <<firefox, count, completed, window, inbox, sent, counting, focusing, told, aborted>>
        /\ agent' = None /\ checker' = FALSE /\ overlay' = FALSE /\ page' \in {"here", "gone"}
        /\ struck' = struck
        /\ released' = IF agent = None THEN released ELSE released \cup {agent}
    BY DEF SdkInv, TypeOK, Complete, BeforeUnload, End, DestroyChannel, OverlayWithoutChannel,
           formVars, pending, outcomes
  <1>1. TypeOK'
    <2>1. agent # None => agent \in Checkout
      BY SdkAssumption DEF SdkInv, TypeOK, None, Checkout
    <2> QED BY <1>0, <2>1 DEF SdkInv, TypeOK
  <1>2. Known' = Known
    BY <1>0 DEF Known
  <1>3. \A c \in Checkout : Sealed(c)' <=> Sealed(c)
    BY <1>0 DEF Sealed
  <1>4. \A c \in Checkout : c < count' \/ c = count' => GivenUp(c)'
    BY <1>0 DEF SdkInv, TypeOK, GivenUp, Aborted
  <1> QED BY <1>0, <1>1, <1>2, <1>3, <1>4 DEF SdkInv, OverlayMeansCheckout

\* The form closes or is refreshed; the page does not know yet.
LEMMA UnloadStep == ASSUME SdkInv, UserCloses \/ UserRefreshes PROVE SdkInv'
  <1>0. /\ UNCHANGED <<firefox, page, count, agent, completed, checker, overlay, sent, counting,
                       focusing, told, aborted, released, struck>>
        /\ window # None /\ window' \in {window, None}
        /\ inbox' \in {inbox, Append(inbox, AbortMessage)}
    BY DEF UserCloses, UserRefreshes, Unloads, sdkVars, pending, history, outcomes
  <1>1. Known' = Known
    BY <1>0 DEF Known
  <1>2. inbox' \in Seq(Message) /\ inbox' \in Seq(Known)
    BY <1>0, AbortKnown DEF SdkInv, TypeOK
  <1>3. TypeOK'
    BY <1>0, <1>2, SdkAssumption DEF SdkInv, TypeOK, None
  <1>4. \A c \in Checkout : (Sealed(c)' <=> Sealed(c)) /\ (GivenUp(c)' <=> GivenUp(c))
    BY <1>0 DEF Sealed, GivenUp, Aborted
  <1> QED BY <1>0, <1>1, <1>2, <1>3, <1>4 DEF SdkInv, OverlayMeansCheckout

\* What a form that sends a result changes: the result is a new one.
LEMMA FormEndsFacts ==
  ASSUME SdkInv, NEW type \in Result, FormEnds(type)
  PROVE  /\ window \in Checkout /\ window <= count /\ Len(sent) + 1 \in Number
         /\ [type |-> type, no |-> Len(sent) + 1] \in ResultMessage
         /\ sent' \in Seq(1..count) /\ Len(sent') = Len(sent) + 1 /\ Len(sent') <= MaxResults
         /\ DOMAIN sent' = DOMAIN sent \cup {Len(sent) + 1} /\ Len(sent) + 1 \notin DOMAIN sent
         /\ \A n \in DOMAIN sent : sent'[n] = sent[n]
         /\ sent'[Len(sent) + 1] = window
         /\ inbox' = Append(inbox, [type |-> type, no |-> Len(sent) + 1])
         /\ UNCHANGED <<firefox, page, count, agent, completed, checker, overlay, window, counting,
                        focusing, told, aborted, released, struck>>
  <1>1. /\ window \in 1..count /\ sent \in Seq(1..count) /\ Len(sent) < MaxResults
        /\ sent' = Append(sent, window)
    BY SdkAssumption DEF SdkInv, TypeOK, FormEnds, None
  <1>2. /\ sent' \in Seq(1..count) /\ Len(sent) \in Nat /\ Len(sent') = Len(sent) + 1
        /\ DOMAIN sent' = 1..Len(sent) + 1 /\ DOMAIN sent = 1..Len(sent)
        /\ \A n \in DOMAIN sent : sent'[n] = sent[n]
        /\ sent'[Len(sent) + 1] = window
    BY <1>1
  <1>3. /\ DOMAIN sent' = DOMAIN sent \cup {Len(sent) + 1} /\ Len(sent) + 1 \notin DOMAIN sent
        /\ Len(sent) + 1 \in Number /\ Len(sent') <= MaxResults
    BY <1>1, <1>2, SdkAssumption DEF Number
  <1>4. window \in Checkout /\ window <= count
    BY <1>1, SdkAssumption DEF SdkInv, TypeOK, Checkout
  <1>5. [type |-> type, no |-> Len(sent) + 1] \in ResultMessage
    BY <1>3 DEF ResultMessage
  <1> QED BY <1>1, <1>2, <1>3, <1>4, <1>5 DEF FormEnds, sdkVars, pending, history, outcomes

LEMMA FormEndsStep == ASSUME SdkInv, NEW type \in Result, FormEnds(type) PROVE SdkInv'
  <1> DEFINE m == [type |-> type, no |-> Len(sent) + 1]
  <1>1. count # 0 /\ Known \subseteq Known' /\ m \in Known' /\ m \in Message
    <2>1. count # 0
      <3>1. window \in Checkout /\ window <= count
        BY FormEndsFacts
      <3> QED BY <3>1, SdkAssumption DEF Checkout
    <2>2. Known \subseteq Known'
      BY FormEndsFacts, KnownGrows
    <2>3. m \in Message /\ m.no \in DOMAIN sent' /\ count' = count
      BY FormEndsFacts DEF Message
    <2> QED BY <2>1, <2>2, <2>3 DEF Known
  <1>2. inbox' \in Seq(Message) /\ inbox' \in Seq(Known')
    <2>1. inbox \in Seq(Message) /\ inbox \in Seq(Known') /\ inbox' = Append(inbox, m)
      BY <1>1, FormEndsFacts DEF SdkInv, TypeOK
    <2> HIDE DEF m
    <2> QED BY <1>1, <2>1
  <1>3. TypeOK'
    BY <1>2, FormEndsFacts DEF SdkInv, TypeOK
  <1>4. \A n \in focusing : n \in DOMAIN sent
    BY DEF SdkInv
  <1>5. ~(told[Len(sent) + 1] > 0)
    BY FormEndsFacts DEF SdkInv
  <1>6. \A c \in Checkout : Sealed(c)' => Sealed(c)
    BY <1>4, <1>5, FormEndsFacts DEF Sealed
  <1>7. \A c \in Checkout : GivenUp(c)' <=> GivenUp(c)
    BY FormEndsFacts DEF GivenUp, Aborted
  <1>8. /\ counting' \subseteq Known' /\ focusing' \subseteq DOMAIN sent'
        /\ \A n \in Number : told'[n] > 0 => n \in DOMAIN sent'
    BY <1>1, FormEndsFacts DEF SdkInv
  <1>9. UNCHANGED <<count, agent, checker, overlay, completed>>
    BY FormEndsFacts
  <1> QED BY <1>1, <1>2, <1>3, <1>6, <1>7, <1>8, <1>9 DEF SdkInv, OverlayMeansCheckout

LEMMA OnAbortStep == ASSUME SdkInv, OnAbort PROVE SdkInv'
  <1>0. Tail(inbox) \in Seq(Known) /\ Tail(inbox) \in Seq(Message) /\ count # 0
    BY ReadKnown DEF OnAbort
  <1>1. UNCHANGED <<counting, focusing, told, aborted, released, struck, sent, count>>
    BY DEF OnAbort, pending, history, outcomes
  <1>2. TypeOK'
    BY <1>0, <1>1 DEF SdkInv, TypeOK, OnAbort, CheckerOnAbort
  <1>3. Known' = Known
    BY <1>1 DEF Known
  <1>4. \A c \in Checkout : (Sealed(c)' <=> Sealed(c)) /\ (GivenUp(c)' <=> GivenUp(c))
    BY <1>1 DEF Sealed, GivenUp, Aborted
  <1> QED BY <1>0, <1>1, <1>2, <1>3, <1>4 DEF SdkInv, OverlayMeansCheckout, OnAbort

LEMMA OnProcessStep == ASSUME SdkInv, OnProcess PROVE SdkInv'
  <1>0. /\ Head(inbox) \in Known /\ Head(inbox) \in ResultMessage
        /\ Tail(inbox) \in Seq(Known) /\ Tail(inbox) \in Seq(Message)
    <2>1. inbox # <<>> /\ Head(inbox).type # "Abort"
      BY DEF OnProcess, Result
    <2> QED BY <2>1, ReadKnown
  <1>1. UNCHANGED <<agent, completed, checker, overlay, focusing, told, aborted, released, struck, sent,
                    count>>
    BY DEF OnProcess, sdkVars, history, outcomes
  <1>2. TypeOK'
    BY <1>0, <1>1 DEF SdkInv, TypeOK, OnProcess
  <1>3. Known' = Known
    BY <1>1 DEF Known
  <1>4. \A c \in Checkout : (Sealed(c)' <=> Sealed(c)) /\ (GivenUp(c)' <=> GivenUp(c))
    BY <1>1 DEF Sealed, GivenUp, Aborted
  <1> QED BY <1>0, <1>1, <1>2, <1>3, <1>4 DEF SdkInv, OverlayMeansCheckout, OnProcess

\* An error and the callback of a result complete the checkout at hand.
LEMMA OnErrorStep == ASSUME SdkInv, OnError PROVE SdkInv'
  <1> DEFINE k == Head(inbox).no
  <1>0. /\ k \in DOMAIN sent /\ k \in Number /\ count # 0
        /\ Tail(inbox) \in Seq(Known) /\ Tail(inbox) \in Seq(Message)
    <2>1. inbox # <<>> /\ Head(inbox).type # "Abort"
      BY DEF OnError
    <2> QED BY <2>1, ReadKnown
  <1>1. /\ UNCHANGED <<firefox, page, count, agent, sent, counting, focusing, released>>
        /\ completed' = TRUE /\ overlay' = FALSE /\ EmitResult(k)
        /\ CloseWindow(TRUE, Tail(inbox))
    BY DEF OnError, pending
  <1>2. /\ inbox' \in Seq(Message) /\ inbox' \in Seq(Known')
        /\ window' \in 0..count /\ checker' \in BOOLEAN /\ (checker' => checker)
    BY <1>0, <1>1, CloseWindowKnown
  <1>3. /\ told' \in [Number -> Nat] /\ aborted' = aborted
        /\ \A n \in Number : told'[n] > 0 <=> n = k \/ told[n] > 0
    BY <1>0, <1>1, EmitResultFacts
  <1>4. struck' \subseteq Checkout
    BY <1>0, SentFacts, SdkAssumption DEF OnError, Strike, SdkInv, TypeOK, Checkout
  <1>5. TypeOK'
    BY <1>1, <1>2, <1>3, <1>4 DEF SdkInv, TypeOK
  <1>6. Known' = Known
    BY <1>1 DEF Known
  <1>7. \A c \in Checkout : GivenUp(c) <=> GivenUp(c)'
    BY <1>1, <1>3 DEF GivenUp, Aborted
  <1>8. /\ counting' \subseteq Known' /\ focusing' \subseteq DOMAIN sent'
        /\ \A n \in Number : told'[n] > 0 => n \in DOMAIN sent'
    BY <1>0, <1>1, <1>3, <1>6 DEF SdkInv
  <1>9. /\ checker' => count' # 0
        /\ \A c \in Checkout : c < count' \/ (c = count' /\ agent' = None) => GivenUp(c)'
    BY <1>0, <1>1, <1>2, <1>7 DEF SdkInv
  <1> HIDE DEF k
  <1> QED BY <1>1, <1>2, <1>5, <1>8, <1>9 DEF SdkInv, OverlayMeansCheckout

LEMMA CountedStep == ASSUME SdkInv, NEW m \in counting, Counted(m) PROVE SdkInv'
  <1>0. /\ m.no \in DOMAIN sent /\ m.no \in Number /\ count # 0 /\ count \in Checkout
    <2>1. count # 0
      BY DEF SdkInv, Known
    <2> QED BY <2>1, PendingFacts, SdkAssumption DEF SdkInv, TypeOK, Checkout
  <1>1. /\ UNCHANGED <<firefox, page, count, agent, sent, told, aborted, released>>
        /\ completed' = TRUE /\ overlay' = FALSE
        /\ counting' = counting \ {m} /\ focusing' = focusing \cup {m.no}
        /\ CloseWindow(~KeepsWindow(m.type), inbox)
    BY DEF Counted, outcomes, CompletedByCallback
  <1>2. /\ inbox' \in Seq(Message) /\ inbox' \in Seq(Known')
        /\ window' \in 0..count /\ checker' \in BOOLEAN /\ (checker' => checker)
    BY <1>1, CloseWindowKnown DEF SdkInv, TypeOK, KeepsWindow
  <1>3. struck' \subseteq Checkout
    BY <1>0 DEF Counted, Strike, SdkInv, TypeOK
  <1>4. TypeOK'
    <2>1. counting' \subseteq ResultMessage /\ focusing' \subseteq Number
      BY <1>0, <1>1 DEF SdkInv, TypeOK
    <2> QED BY <1>1, <1>2, <1>3, <2>1 DEF SdkInv, TypeOK
  <1>5. Known' = Known
    BY <1>1 DEF Known
  <1>6. \A c \in Checkout : GivenUp(c)' <=> GivenUp(c)
    BY <1>1 DEF GivenUp, Aborted
  <1> QED BY <1>0, <1>1, <1>2, <1>4, <1>5, <1>6 DEF SdkInv, OverlayMeansCheckout

LEMMA FocusedStep == ASSUME SdkInv, NEW n \in focusing, Focused(n) PROVE SdkInv'
  <1>0. n \in Number /\ n \in DOMAIN sent
    BY DEF SdkInv, TypeOK
  <1>1. /\ UNCHANGED <<firefox, page, count, agent, completed, checker, overlay, window, inbox, sent,
                       counting, released, struck>>
        /\ focusing' = focusing \ {n} /\ EmitResult(n)
    BY DEF Focused, sdkVars, formVars
  <1>2. /\ told' \in [Number -> Nat] /\ aborted' = aborted
        /\ \A k \in Number : told'[k] > 0 <=> k = n \/ told[k] > 0
    BY <1>0, <1>1, EmitResultFacts
  <1>3. TypeOK'
    BY <1>1, <1>2 DEF SdkInv, TypeOK
  <1>4. Known' = Known
    BY <1>1 DEF Known
  <1>5. \A c \in Checkout : (Sealed(c)' => Sealed(c)) /\ (GivenUp(c) <=> GivenUp(c)')
    BY <1>0, <1>1, <1>2, SentFacts DEF Sealed, GivenUp, Aborted
  <1> QED BY <1>0, <1>1, <1>2, <1>3, <1>4, <1>5 DEF SdkInv, OverlayMeansCheckout

LEMMA TickStep == ASSUME SdkInv, Tick PROVE SdkInv'
  <1>0. count \in Checkout
    BY SdkAssumption DEF SdkInv, TypeOK, Tick, Checkout
  <1>1. /\ UNCHANGED <<firefox, page, count, window, inbox, sent, counting, focusing, released, struck>>
        /\ completed' = TRUE /\ agent' = None /\ checker' = FALSE /\ overlay' = FALSE
        /\ EmitAbort(count)
    BY DEF Tick, formVars, pending, OverlayWithoutChannel
  <1>2. /\ aborted' \in [Checkout -> Nat] /\ told' = told
        /\ \A d \in Checkout : aborted'[d] > 0 <=> d = count \/ aborted[d] > 0
    BY <1>0, <1>1, EmitAbortFacts
  <1>3. TypeOK'
    BY <1>1, <1>2 DEF SdkInv, TypeOK, None
  <1>4. Known' = Known
    BY <1>1 DEF Known
  <1>5. \A d \in Checkout : (GivenUp(d) => GivenUp(d)') /\ (d = count => GivenUp(d)')
    BY <1>1, <1>2 DEF GivenUp, Aborted
  <1> QED BY <1>1, <1>2, <1>3, <1>4, <1>5 DEF SdkInv, OverlayMeansCheckout

LEMMA SdkStutter == ASSUME SdkInv, UNCHANGED vars PROVE SdkInv'
  <1>1. UNCHANGED <<firefox, page, count, agent, completed, checker, overlay, window, inbox, sent,
                    counting, focusing, told, aborted, released, struck>>
    BY DEF vars, sdkVars, formVars, pending, history, outcomes
  <1>2. TypeOK' /\ OverlayMeansCheckout'
    BY <1>1 DEF SdkInv, TypeOK, OverlayMeansCheckout
  <1>3. Known' = Known
    BY <1>1 DEF Known
  <1>4. \A c \in Checkout : (Sealed(c)' <=> Sealed(c)) /\ (GivenUp(c)' <=> GivenUp(c))
    BY <1>1 DEF Sealed, GivenUp, Aborted
  <1> QED BY <1>1, <1>2, <1>3, <1>4 DEF SdkInv

-----------------------------------------------------------------------------
(* The theorems.                                                           *)

\* Callbacks and messages know nothing of checkouts; that they do as little harm as
\* SdkInv says is kept by every handler of the page.
THEOREM SdkInvariant == Spec => []SdkInv
  <1>1. Init => SdkInv
    BY SdkInitial
  <1>2. SdkInv /\ [Next]_vars => SdkInv'
    BY OpenStep, ReleaseStep, UnloadStep, FormEndsStep, OnAbortStep, OnProcessStep, OnErrorStep,
       CountedStep, FocusedStep, TickStep, SdkStutter DEF Next, Deliver
  <1> QED BY <1>1, <1>2, PTL DEF Spec

\* Every variable stays in its type; the agent, if any, is that of the last checkout.
THEOREM SdkTypeCorrect == Spec => []TypeOK
  <1>1. SdkInv => TypeOK
    BY DEF SdkInv
  <1> QED BY <1>1, SdkInvariant, PTL

\* The merchant's page is under the overlay only during a checkout.
THEOREM OverlayMeansCheckoutCorrect == Spec => []OverlayMeansCheckout
  <1>1. SdkInv => OverlayMeansCheckout
    BY DEF SdkInv
  <1> QED BY <1>1, SdkInvariant, PTL

\* Only the result of a checkout that was aborted or given up can meet a later one.
THEOREM LateWasGivenUpCorrect == Spec => []LateWasGivenUp
  <1>1. SdkInv => LateWasGivenUp
    <2> SUFFICES ASSUME SdkInv, NEW n \in Pending, sent[n] # count PROVE GivenUp(sent[n])
      BY DEF LateWasGivenUp, GivenUp
    <2>1. sent[n] \in Checkout /\ sent[n] <= count /\ count \in Nat
      BY SentFacts, PendingFacts
    <2> QED BY <2>1 DEF SdkInv, Checkout
  <1> QED BY <1>1, SdkInvariant, PTL

\* The checkout at hand is open, and nobody has said anything of it.
Unanswered ==
  /\ agent # None /\ agent \notin struck
  /\ ~ToldOf(agent) /\ ~Aborted(agent) /\ ~Awaited(agent)

\* A checkout that is open and unanswered is watched by the timer, whatever handler
\* has run: this is why, once its window is closed, it is answered in the end.
THEOREM UnansweredIsWatchedCorrect == Spec => []UnansweredIsWatched
  <1> USE DEF UnansweredIsWatched
  <1>1. Init => UnansweredIsWatched
    BY DEF Init
  <1>2. ASSUME SdkInv, UnansweredIsWatched, Next PROVE UnansweredIsWatched'
    <2>0. /\ agent \in {None, count}
          /\ Unanswered => page = "here" /\ checker /\ ~completed
      BY <1>2 DEF SdkInv, TypeOK, Unanswered
    <2>1. CASE OpenCheckout
      BY <2>1 DEF OpenCheckout
    <2>2. CASE Complete \/ BeforeUnload \/ End
      BY <2>2 DEF Complete, BeforeUnload, End, DestroyChannel
    <2>3. CASE UserCloses \/ UserRefreshes
      <3>1. UNCHANGED <<page, agent, completed, checker, sent, told, aborted, struck, counting, focusing>>
        BY <2>3 DEF UserCloses, UserRefreshes, sdkVars, pending, history, outcomes
      <3> QED BY <1>2, <3>1 DEF Pending, Awaited, ToldOf, Aborted
    \* A result that has just been sent is neither told nor pending.
    <2>4. CASE \E type \in Result : FormEnds(type)
      <3> PICK type \in Result : FormEnds(type) BY <2>4
      <3>1. /\ UNCHANGED <<page, agent, completed, checker, told, aborted, struck, counting, focusing>>
            /\ DOMAIN sent \subseteq DOMAIN sent' /\ \A n \in DOMAIN sent : sent'[n] = sent[n]
        BY <1>2, FormEndsFacts
      <3>2. Unanswered' => Unanswered
        BY <1>2, <3>1, PendingFacts DEF Unanswered, Pending, Awaited, ToldOf, Aborted
      <3> QED BY <2>0, <3>1, <3>2 DEF Unanswered
    <2>5. CASE OnAbort
      <3>1. /\ UNCHANGED <<page, agent, completed, sent, told, aborted, struck, counting, focusing>>
            /\ checker'
        BY <2>5 DEF OnAbort, CheckerOnAbort, pending, history, outcomes
      <3>2. Unanswered' => Unanswered
        BY <3>1 DEF Unanswered, Pending, Awaited, ToldOf, Aborted
      <3> QED BY <2>0, <3>1, <3>2 DEF Unanswered
    <2>6. CASE OnProcess
      <3>1. /\ UNCHANGED <<page, agent, completed, checker, sent, told, aborted, struck, focusing>>
            /\ counting \subseteq counting'
        BY <2>6 DEF OnProcess, sdkVars, history, outcomes
      <3>2. Unanswered' => Unanswered
        BY <3>1 DEF Unanswered, Pending, Awaited, ToldOf, Aborted
      <3> QED BY <2>0, <3>1, <3>2 DEF Unanswered
    \* An error is emitted for the checkout at hand, or strikes it.
    <2>7. CASE OnError
      <3> DEFINE k == Head(inbox).no
      <3>1. inbox # <<>> /\ Head(inbox).type # "Abort" /\ EmitResult(k) /\ Strike(sent[k])
            /\ UNCHANGED <<agent, count, sent>>
        BY <2>7 DEF OnError
      <3>2. k \in DOMAIN sent /\ k \in Number
        BY <1>2, <3>1, ReadKnown
      <3>3. told'[k] > 0
        BY <1>2, <3>1, <3>2, EmitResultFacts
      <3>4. CASE sent[k] = count
        BY <2>0, <3>1, <3>2, <3>3, <3>4 DEF ToldOf
      <3>5. CASE sent[k] # count
        BY <2>0, <3>1, <3>5 DEF Strike
      <3> QED BY <3>4, <3>5
    \* So does the callback of a result, which is emitted later.
    <2>8. CASE \E m \in counting : Counted(m)
      <3> PICK m \in counting : Counted(m) BY <2>8
      <3>1. UNCHANGED <<agent, sent>> /\ m.no \in Pending' /\ Strike(sent[m.no])
        BY DEF Counted, Pending
      <3>2. CASE sent[m.no] = count
        BY <2>0, <3>1, <3>2 DEF Awaited
      <3>3. CASE sent[m.no] # count
        BY <2>0, <3>1, <3>3 DEF Strike
      <3> QED BY <3>2, <3>3
    <2>9. CASE \E n \in focusing : Focused(n)
      <3> PICK n \in focusing : Focused(n) BY <2>9
      <3>1. /\ UNCHANGED <<page, agent, completed, checker, struck, sent, counting>>
            /\ focusing' = focusing \ {n} /\ EmitResult(n)
        BY DEF Focused, sdkVars, formVars
      <3>2. n \in DOMAIN sent /\ n \in Number
        BY <1>2 DEF SdkInv, TypeOK
      <3>3. /\ aborted' = aborted
            /\ \A k \in Number : told'[k] > 0 <=> k = n \/ told[k] > 0
        BY <1>2, <3>1, <3>2, EmitResultFacts
      <3>4. Pending \subseteq Pending' \cup {n}
        BY <3>1 DEF Pending
      <3>5. Unanswered' => Unanswered
        BY <1>2, <3>1, <3>2, <3>3, <3>4, SentFacts DEF Unanswered, Awaited, ToldOf, Aborted
      <3> QED BY <2>0, <3>1, <3>5 DEF Unanswered
    <2>10. CASE Tick
      BY <2>10 DEF Tick
    <2> QED BY <1>2, <2>1, <2>2, <2>3, <2>4, <2>5, <2>6, <2>7, <2>8, <2>9, <2>10 DEF Next, Deliver
  <1>3. UnansweredIsWatched /\ UNCHANGED vars => UnansweredIsWatched'
    BY DEF vars, sdkVars, formVars, pending, history, outcomes, Pending, Awaited, ToldOf, Aborted
  <1>4. SdkInv /\ UnansweredIsWatched /\ [Next]_vars => UnansweredIsWatched'
    BY <1>2, <1>3
  <1> QED BY <1>1, <1>4, SdkInvariant, PTL DEF Spec

\* From the callback of its result on no checkout is aborted any more.
THEOREM NoAbortOnceSealedCorrect == Spec => NoAbortOnceSealed
  <1> DEFINE P == \A c \in Checkout : Sealed(c) => aborted'[c] = aborted[c]
  <1>1. ASSUME SdkInv, Next PROVE P
    <2>1. CASE Tick
      <3>1. \A c \in Checkout : Sealed(c) => c # count
        BY <1>1, <2>1 DEF SdkInv, Tick
      <3> QED BY <1>1, <2>1, <3>1 DEF SdkInv, TypeOK, Tick, EmitAbort
    <2>2. CASE UNCHANGED aborted
      BY <2>2
    <2> QED BY <1>1, <2>1, <2>2 DEF Next, OpenCheckout, Complete, BeforeUnload, End, EmitResult,
          DestroyChannel, UserCloses, UserRefreshes, FormEnds, Deliver, OnAbort, OnProcess, OnError,
          Counted, Focused, history, outcomes
  <1>2. UNCHANGED vars => P
    BY DEF vars, history, outcomes
  <1>3. SdkInv /\ [Next]_vars => [P]_vars
    BY <1>1, <1>2
  <1> QED BY <1>3, SdkInvariant, PTL DEF Spec, NoAbortOnceSealed

-----------------------------------------------------------------------------
(* What the merchant is told: SdkPayment implements CheckoutOutcomes.      *)

\* Every result in s is one of those in N; and none is there twice.
Carries(s, N) == \A i \in 1..Len(s) : s[i].type \in Result => s[i].no \in N
OnceEach(s) ==
  \A i, j \in 1..Len(s) :
    s[i].type \in Result /\ s[j].type \in Result /\ s[i].no = s[j].no => i = j

\* The results that have been sent and have not been received.
Owed == {n \in DOMAIN sent : n \notin Pending /\ ~(told[n] > 0)}

(***************************************************************************)
(* A result that the form has sent is at one place only: under way, with   *)
(* its counter, waiting for the focus, or told.  No handler could tell     *)
(* from the message that it has been there before.  And the checkout at    *)
(* hand is completed once it has been aborted.                             *)
(***************************************************************************)
OutcomeInv ==
  /\ \A c \in Checkout : Aborted(c) => c <= count /\ (c = count => completed)
  /\ \A n \in Pending : ~(told[n] > 0)
  /\ \A m, n \in counting : m.no = n.no => m = n
  /\ \A m \in counting : m.no \notin focusing
  /\ Carries(inbox, Owed) /\ OnceEach(inbox)

\* An Abort is no result.
LEMMA AppendAbort ==
  ASSUME NEW s \in Seq(Message), NEW N, Carries(s, N), OnceEach(s),
         NEW t, t \in {s, Append(s, AbortMessage)}
  PROVE  Carries(t, N) /\ OnceEach(t)
  <1>1. /\ Len(Append(s, AbortMessage)) = Len(s) + 1 /\ Len(s) \in Nat
        /\ Append(s, AbortMessage)[Len(s) + 1] = AbortMessage
        /\ \A i \in 1..Len(s) : Append(s, AbortMessage)[i] = s[i]
    BY AbortFacts
  <1>2. \A i \in 1..Len(Append(s, AbortMessage)) :
          Append(s, AbortMessage)[i].type \in Result => i \in 1..Len(s)
    BY <1>1, AbortFacts
  <1>3. Carries(Append(s, AbortMessage), N)
    BY <1>1, <1>2 DEF Carries
  <1>4. OnceEach(Append(s, AbortMessage))
    BY <1>1, <1>2 DEF OnceEach
  <1> QED BY <1>3, <1>4

\* A new result.
LEMMA AppendResult ==
  ASSUME NEW s \in Seq(Message), NEW N, Carries(s, N), OnceEach(s),
         NEW m \in Message, m.no \notin N
  PROVE  Carries(Append(s, m), N \cup {m.no}) /\ OnceEach(Append(s, m))
  <1>1. /\ Len(Append(s, m)) = Len(s) + 1 /\ Len(s) \in Nat
        /\ Append(s, m)[Len(s) + 1] = m
        /\ \A i \in 1..Len(s) : Append(s, m)[i] = s[i]
    OBVIOUS
  <1>2. \A i \in 1..Len(Append(s, m)) : i = Len(s) + 1 \/ i \in 1..Len(s)
    BY <1>1
  <1>3. \A i \in 1..Len(s) : Append(s, m)[i].type \in Result =>
          Append(s, m)[i].no \in N /\ Append(s, m)[i].no # m.no
    BY <1>1 DEF Carries
  <1>4. Carries(Append(s, m), N \cup {m.no})
    BY <1>1, <1>2, <1>3 DEF Carries
  <1>5. OnceEach(Append(s, m))
    <2> SUFFICES ASSUME NEW i \in 1..Len(Append(s, m)), NEW j \in 1..Len(Append(s, m)),
                        Append(s, m)[i].type \in Result, Append(s, m)[j].type \in Result,
                        Append(s, m)[i].no = Append(s, m)[j].no
                 PROVE  i = j
      BY DEF OnceEach
    <2>1. CASE i \in 1..Len(s) /\ j \in 1..Len(s)
      BY <1>1, <2>1 DEF OnceEach
    <2>2. CASE i = Len(s) + 1 \/ j = Len(s) + 1
      BY <1>1, <1>2, <1>3, <2>2
    <2> QED BY <1>2, <2>1, <2>2
  <1> QED BY <1>4, <1>5

\* A message is read: it is not among those that are left.
LEMMA TailCarries ==
  ASSUME NEW s \in Seq(Message), s # <<>>, NEW N, Carries(s, N), OnceEach(s)
  PROVE  /\ Tail(s) \in Seq(Message) /\ Carries(Tail(s), N) /\ OnceEach(Tail(s))
         /\ Head(s).type \in Result =>
              Head(s).no \in N /\ Carries(Tail(s), N \ {Head(s).no})
  <1>1. /\ Tail(s) \in Seq(Message) /\ Head(s) = s[1]
        /\ Len(s) \in Nat /\ Len(s) # 0 /\ Len(Tail(s)) = Len(s) - 1
        /\ \A i \in 1..Len(Tail(s)) : Tail(s)[i] = s[i + 1]
    OBVIOUS
  <1>2. /\ 1 \in 1..Len(s)
        /\ \A i \in 1..Len(Tail(s)) : i + 1 \in 1..Len(s) /\ i + 1 # 1 /\ i \in Nat
    BY <1>1
  <1>3. Carries(Tail(s), N)
    BY <1>1, <1>2 DEF Carries
  <1>4. OnceEach(Tail(s))
    <2> SUFFICES ASSUME NEW i \in 1..Len(Tail(s)), NEW j \in 1..Len(Tail(s)),
                        Tail(s)[i].type \in Result, Tail(s)[j].type \in Result,
                        Tail(s)[i].no = Tail(s)[j].no
                 PROVE  i = j
      BY DEF OnceEach
    <2>1. i + 1 = j + 1
      BY <1>1, <1>2 DEF OnceEach
    <2> QED BY <1>2, <2>1
  <1>5. ASSUME Head(s).type \in Result
        PROVE  Head(s).no \in N /\ Carries(Tail(s), N \ {Head(s).no})
    <2>1. Head(s).no \in N
      BY <1>1, <1>2, <1>5 DEF Carries
    <2>2. \A i \in 1..Len(Tail(s)) : Tail(s)[i].type \in Result => Tail(s)[i].no # Head(s).no
      BY <1>1, <1>2, <1>5 DEF OnceEach
    <2> QED BY <1>3, <2>1, <2>2 DEF Carries
  <1> QED BY <1>1, <1>3, <1>4, <1>5

\* Closing the window, and whatever else the form says as it unloads.
LEMMA CloseWindowCarries ==
  ASSUME NEW close, NEW rest \in Seq(Message), NEW N, Carries(rest, N), OnceEach(rest),
         CloseWindow(close, rest)
  PROVE  Carries(inbox', N) /\ OnceEach(inbox')
  <1>1. inbox' \in {rest, Append(rest, AbortMessage)}
    BY DEF CloseWindow
  <1> QED BY <1>1, AppendAbort

LEMMA OutcomeInitial == Init => OutcomeInv
  <1> SUFFICES ASSUME Init PROVE OutcomeInv
    OBVIOUS
  <1>1. Carries(inbox, Owed) /\ OnceEach(inbox)
    BY DEF Init, Carries, OnceEach
  <1>2. Pending = {} /\ \A c \in Checkout : ~Aborted(c)
    BY DEF Init, Pending, Aborted
  <1> QED BY <1>1, <1>2 DEF Init, OutcomeInv

\* Handlers that neither send, receive nor tell anything.
LEMMA OutcomeFrame ==
  ASSUME SdkInv, OutcomeInv, UNCHANGED <<count, sent, counting, focusing, told, aborted>>,
         completed => completed',
         Carries(inbox', Owed), OnceEach(inbox')
  PROVE  OutcomeInv' /\ UNCHANGED <<count, sent, told, aborted>>
  <1>1. Pending' = Pending /\ Owed' = Owed
    BY DEF Pending, Owed
  <1> QED BY <1>1 DEF OutcomeInv, Aborted

LEMMA OpenOutcome ==
  ASSUME SdkInv, OutcomeInv, OpenCheckout PROVE OutcomeInv' /\ Outcomes!Open
  <1>0. count \in Nat /\ count < MaxCheckouts /\ count' = count + 1
        /\ UNCHANGED <<sent, counting, focusing, told, aborted>>
    BY SdkAssumption DEF SdkInv, TypeOK, OpenCheckout, CountAfterOpen, pending, history, outcomes
  <1>1. Pending' = Pending /\ Owed' = Owed
    BY <1>0 DEF Pending, Owed
  <1>2. Carries(inbox', Owed) /\ OnceEach(inbox')
    <2>1. inbox' \in {inbox, Append(inbox, AbortMessage)}
      BY DEF OpenCheckout, Unloads
    <2> QED BY <2>1, AppendAbort DEF OutcomeInv, SdkInv, TypeOK
  <1>3. \A c \in Checkout : Aborted(c) => c <= count' /\ c # count'
    BY <1>0 DEF OutcomeInv, Checkout
  <1>4. OutcomeInv'
    BY <1>0, <1>1, <1>2, <1>3 DEF OutcomeInv, Aborted
  <1>5. Outcomes!Open
    BY <1>0 DEF Outcomes!Open
  <1> QED BY <1>4, <1>5

LEMMA ReleaseOutcome ==
  ASSUME SdkInv, OutcomeInv, Complete \/ BeforeUnload \/ End
  PROVE  OutcomeInv' /\ UNCHANGED <<count, sent, told, aborted>>
  <1>1. UNCHANGED <<count, completed, inbox, sent, counting, focusing, told, aborted>>
    BY DEF Complete, BeforeUnload, End, DestroyChannel, formVars, pending, outcomes
  <1> QED BY <1>1, OutcomeFrame DEF OutcomeInv

LEMMA UnloadOutcome ==
  ASSUME SdkInv, OutcomeInv, UserCloses \/ UserRefreshes
  PROVE  OutcomeInv' /\ UNCHANGED <<count, sent, told, aborted>>
  <1>1. /\ UNCHANGED <<count, completed, sent, counting, focusing, told, aborted>>
        /\ inbox' \in {inbox, Append(inbox, AbortMessage)}
    BY DEF UserCloses, UserRefreshes, Unloads, sdkVars, pending, history, outcomes
  <1>2. Carries(inbox', Owed) /\ OnceEach(inbox')
    BY <1>1, AppendAbort DEF OutcomeInv, SdkInv, TypeOK
  <1> QED BY <1>1, <1>2, OutcomeFrame

\* The result is a new one, though the form may have sent others.
LEMMA FormEndsOutcome ==
  ASSUME SdkInv, OutcomeInv, NEW type \in Result, FormEnds(type)
  PROVE  OutcomeInv' /\ Outcomes!SendResult(window) /\ window \in Checkout
  <1> DEFINE m == [type |-> type, no |-> Len(sent) + 1]
  <1>0. /\ UNCHANGED <<count, completed, counting, focusing, told, aborted>>
        /\ window \in Checkout /\ window <= count /\ inbox' = Append(inbox, m)
        /\ DOMAIN sent' = DOMAIN sent \cup {m.no} /\ m.no \notin DOMAIN sent /\ m.no \in Number
        /\ m \in Message
    BY FormEndsFacts DEF Message
  <1>1. Pending' = Pending
    BY <1>0 DEF Pending
  <1>2. Owed' = Owed \cup {m.no} /\ m.no \notin Owed
    <2>1. m.no \notin Pending /\ ~(told[m.no] > 0)
      BY <1>0, PendingFacts DEF SdkInv
    <2> QED BY <1>0, <1>1, <2>1 DEF Owed
  <1>3. Carries(inbox', Owed') /\ OnceEach(inbox')
    <2>1. inbox \in Seq(Message) /\ Carries(inbox, Owed) /\ OnceEach(inbox)
      BY DEF OutcomeInv, SdkInv, TypeOK
    <2> HIDE DEF m
    <2> QED BY <1>0, <1>2, <2>1, AppendResult
  <1>4. OutcomeInv'
    BY <1>0, <1>1, <1>3 DEF OutcomeInv, Aborted
  <1>5. Outcomes!SendResult(window)
    BY <1>0 DEF Outcomes!SendResult, FormEnds
  <1> QED BY <1>0, <1>4, <1>5

LEMMA OnAbortOutcome ==
  ASSUME SdkInv, OutcomeInv, OnAbort
  PROVE  OutcomeInv' /\ UNCHANGED <<count, sent, told, aborted>>
  <1>1. /\ UNCHANGED <<count, completed, sent, counting, focusing, told, aborted>>
        /\ inbox # <<>> /\ inbox' = Tail(inbox)
    BY DEF OnAbort, pending, history, outcomes
  <1>2. Carries(inbox', Owed) /\ OnceEach(inbox')
    BY <1>1, TailCarries DEF OutcomeInv, SdkInv, TypeOK
  <1> QED BY <1>1, <1>2, OutcomeFrame

\* A result comes in and waits for its counter; it is nowhere else.
LEMMA OnProcessOutcome ==
  ASSUME SdkInv, OutcomeInv, OnProcess
  PROVE  OutcomeInv' /\ UNCHANGED <<count, sent, told, aborted>>
  <1> DEFINE h == Head(inbox)
  <1>0. /\ UNCHANGED <<count, completed, sent, focusing, told, aborted>>
        /\ inbox # <<>> /\ inbox' = Tail(inbox) /\ h.type \in Result
        /\ counting' = counting \cup {h}
    BY DEF OnProcess, sdkVars, history, outcomes
  <1>1. h.no \in Owed /\ Carries(inbox', Owed \ {h.no}) /\ OnceEach(inbox')
    BY <1>0, TailCarries DEF OutcomeInv, SdkInv, TypeOK
  <1>2. h.no \in DOMAIN sent /\ h.no \notin Pending /\ ~(told[h.no] > 0)
    BY <1>1 DEF Owed
  <1>3. Pending' = Pending \cup {h.no}
    BY <1>0 DEF Pending
  <1>4. Owed' = Owed \ {h.no}
    BY <1>0, <1>3 DEF Owed
  <1>5. OutcomeInv'
    <2>1. \A n \in Pending' : ~(told'[n] > 0)
      BY <1>0, <1>2, <1>3 DEF OutcomeInv
    <2>2. \A k \in counting : k.no # h.no
      BY <1>2 DEF Pending
    <2>3. /\ \A k, n \in counting' : k.no = n.no => k = n
          /\ \A k \in counting' : k.no \notin focusing'
      BY <1>0, <1>2, <2>2 DEF OutcomeInv, Pending
    <2> QED BY <1>0, <1>1, <1>4, <2>1, <2>3 DEF OutcomeInv, Aborted
  <1> QED BY <1>0, <1>5

\* What is told is what has not been told before.
LEMMA TellOutcome ==
  ASSUME SdkInv, NEW n \in DOMAIN sent, ~(told[n] > 0), EmitResult(n), UNCHANGED <<count, sent>>
  PROVE  Outcomes!TellResult(n)
  <1>1. n \in Number /\ told \in [Number -> Nat]
    BY SentFacts DEF SdkInv, TypeOK
  <1>2. told[n] = 0
    BY <1>1
  <1>3. told' = [told EXCEPT ![n] = 1]
    BY <1>1, <1>2 DEF EmitResult
  <1> QED BY <1>2, <1>3 DEF Outcomes!TellResult, EmitResult

\* An error is told at once.
LEMMA OnErrorOutcome ==
  ASSUME SdkInv, OutcomeInv, OnError
  PROVE  OutcomeInv' /\ \E n \in DOMAIN sent : Outcomes!TellResult(n)
  <1> DEFINE h == Head(inbox)
  <1>0. /\ UNCHANGED <<count, sent, counting, focusing>> /\ completed'
        /\ inbox # <<>> /\ h.type \in Result
        /\ EmitResult(h.no) /\ CloseWindow(TRUE, Tail(inbox))
    BY DEF OnError, pending, Result
  <1>1. h.no \in Owed /\ Carries(inbox', Owed \ {h.no}) /\ OnceEach(inbox')
    <2>1. /\ Tail(inbox) \in Seq(Message) /\ OnceEach(Tail(inbox)) /\ h.no \in Owed
          /\ Carries(Tail(inbox), Owed \ {h.no})
      BY <1>0, TailCarries DEF OutcomeInv, SdkInv, TypeOK
    <2> QED BY <1>0, <2>1, CloseWindowCarries
  <1>2. h.no \in DOMAIN sent /\ h.no \in Number /\ h.no \notin Pending /\ ~(told[h.no] > 0)
    BY <1>1, SentFacts DEF Owed
  <1>3. /\ aborted' = aborted
        /\ \A k \in Number : told'[k] > 0 <=> k = h.no \/ told[k] > 0
    BY <1>0, <1>2, EmitResultFacts
  <1>4. Pending' = Pending
    BY <1>0 DEF Pending
  <1>5. Owed' = Owed \ {h.no}
    BY <1>0, <1>3, <1>4, SentFacts DEF Owed
  <1>6. OutcomeInv'
    <2>1. \A n \in Pending' : ~(told'[n] > 0)
      BY <1>2, <1>3, <1>4, PendingFacts DEF OutcomeInv
    <2> QED BY <1>0, <1>1, <1>3, <1>5, <2>1 DEF OutcomeInv, Aborted
  <1>7. Outcomes!TellResult(h.no)
    BY <1>0, <1>2, TellOutcome
  <1> QED BY <1>2, <1>6, <1>7

\* The callback of a counter hands its result over to the focus.
LEMMA CountedOutcome ==
  ASSUME SdkInv, OutcomeInv, NEW m \in counting, Counted(m)
  PROVE  OutcomeInv' /\ UNCHANGED <<count, sent, told, aborted>>
  <1>0. /\ UNCHANGED <<count, sent, told, aborted>> /\ completed'
        /\ counting' = counting \ {m} /\ focusing' = focusing \cup {m.no}
        /\ CloseWindow(~KeepsWindow(m.type), inbox)
    BY DEF Counted, CompletedByCallback, outcomes
  <1>1. Pending' = Pending
    BY <1>0 DEF Pending, OutcomeInv
  <1>2. Owed' = Owed
    BY <1>0, <1>1 DEF Owed
  <1>3. Carries(inbox', Owed) /\ OnceEach(inbox')
    BY <1>0, CloseWindowCarries DEF OutcomeInv, SdkInv, TypeOK
  <1>4. OutcomeInv'
    <2>1. \A k \in counting' : k.no # m.no
      BY <1>0 DEF OutcomeInv
    <2>2. /\ \A k, n \in counting' : k.no = n.no => k = n
          /\ \A k \in counting' : k.no \notin focusing'
      BY <1>0, <2>1 DEF OutcomeInv
    <2> QED BY <1>0, <1>1, <1>2, <1>3, <2>2 DEF OutcomeInv, Aborted
  <1> QED BY <1>0, <1>4

LEMMA FocusedOutcome ==
  ASSUME SdkInv, OutcomeInv, NEW n \in focusing, Focused(n)
  PROVE  OutcomeInv' /\ n \in DOMAIN sent /\ Outcomes!TellResult(n)
  <1>0. /\ UNCHANGED <<count, completed, inbox, sent, counting>>
        /\ focusing' = focusing \ {n} /\ EmitResult(n)
    BY DEF Focused, sdkVars, formVars
  <1>1. /\ n \in DOMAIN sent /\ n \in Number /\ n \in Pending /\ ~(told[n] > 0)
    <2>1. n \in Pending
      BY DEF Pending
    <2> QED BY <2>1, PendingFacts DEF OutcomeInv
  <1>2. /\ aborted' = aborted
        /\ \A k \in Number : told'[k] > 0 <=> k = n \/ told[k] > 0
    BY <1>0, <1>1, EmitResultFacts
  <1>3. Pending' = Pending \ {n}
    BY <1>0 DEF Pending, OutcomeInv
  <1>4. Owed' = Owed
    BY <1>0, <1>1, <1>2, <1>3, SentFacts DEF Owed
  <1>5. OutcomeInv'
    <2>1. \A k \in Pending' : ~(told'[k] > 0)
      BY <1>2, <1>3, PendingFacts DEF OutcomeInv
    <2>2. /\ \A k, l \in counting' : k.no = l.no => k = l
          /\ \A k \in counting' : k.no \notin focusing'
      BY <1>0 DEF OutcomeInv
    <2>3. Carries(inbox', Owed') /\ OnceEach(inbox')
      BY <1>0, <1>4 DEF OutcomeInv
    <2> QED BY <1>0, <1>2, <2>1, <2>2, <2>3 DEF OutcomeInv, Aborted
  <1>6. Outcomes!TellResult(n)
    BY <1>0, <1>1, TellOutcome
  <1> QED BY <1>1, <1>5, <1>6

\* The timer reports an Abort only as long as nothing has been told of the checkout.
LEMMA TickOutcome ==
  ASSUME SdkInv, OutcomeInv, Tick PROVE OutcomeInv' /\ Outcomes!TellAbort
  <1>0. /\ UNCHANGED <<count, inbox, sent, counting, focusing>>
        /\ completed' /\ EmitAbort(count) /\ count \in Checkout /\ ~completed
    BY SdkAssumption DEF SdkInv, TypeOK, Checkout, Tick, formVars, pending
  <1>1. count > 0 /\ ~Aborted(count) /\ ~Sealed(count)
    BY <1>0 DEF OutcomeInv, SdkInv, Checkout
  <1>2. /\ told' = told
        /\ \A d \in Checkout : aborted'[d] > 0 <=> d = count \/ aborted[d] > 0
    BY <1>0, EmitAbortFacts
  <1>3. Pending' = Pending /\ Owed' = Owed
    BY <1>0, <1>2 DEF Pending, Owed
  <1>4. OutcomeInv'
    <2>1. \A d \in Checkout : Aborted(d)' => d <= count' /\ (d = count' => completed')
      BY <1>0, <1>2, SdkAssumption DEF OutcomeInv, Aborted, Checkout
    <2> QED BY <1>0, <1>2, <1>3, <2>1 DEF OutcomeInv
  <1>5. ~Outcomes!ToldOf(count)
    BY <1>1 DEF Outcomes!ToldOf, Sealed, Aborted
  <1>6. aborted' = [aborted EXCEPT ![count] = 1]
    <2>1. aborted \in [Checkout -> Nat]
      BY DEF SdkInv, TypeOK
    <2>2. aborted[count] = 0
      BY <1>0, <1>1, <2>1 DEF Aborted
    <2> QED BY <1>0, <2>1, <2>2 DEF EmitAbort
  <1>7. Outcomes!TellAbort
    BY <1>0, <1>1, <1>2, <1>5, <1>6 DEF Outcomes!TellAbort
  <1> QED BY <1>4, <1>7

LEMMA OutcomeStutter ==
  ASSUME SdkInv, OutcomeInv, UNCHANGED vars
  PROVE  OutcomeInv' /\ UNCHANGED <<count, sent, told, aborted>>
  <1>1. UNCHANGED <<count, completed, inbox, sent, counting, focusing, told, aborted>>
    BY DEF vars, sdkVars, formVars, pending, history, outcomes
  <1> QED BY <1>1, OutcomeFrame DEF OutcomeInv

\* Every step of the payment object keeps OutcomeInv and is a step of CheckoutOutcomes.
LEMMA OutcomeStep ==
  ASSUME SdkInv, OutcomeInv, [Next]_vars
  PROVE  OutcomeInv' /\ [Outcomes!Next]_(Outcomes!outcomeVars)
  <1>1. CASE OpenCheckout
    BY <1>1, OpenOutcome DEF Outcomes!Next
  <1>2. CASE Complete \/ BeforeUnload \/ End
    BY <1>2, ReleaseOutcome DEF Outcomes!outcomeVars
  <1>3. CASE UserCloses \/ UserRefreshes
    BY <1>3, UnloadOutcome DEF Outcomes!outcomeVars
  <1>4. CASE \E type \in Result : FormEnds(type)
    BY <1>4, FormEndsOutcome DEF Outcomes!Next, Outcomes!Checkouts, Checkout
  <1>5. CASE OnAbort
    BY <1>5, OnAbortOutcome DEF Outcomes!outcomeVars
  <1>6. CASE OnProcess
    BY <1>6, OnProcessOutcome DEF Outcomes!outcomeVars
  <1>7. CASE OnError
    BY <1>7, OnErrorOutcome DEF Outcomes!Next
  <1>8. CASE \E m \in counting : Counted(m)
    BY <1>8, CountedOutcome DEF Outcomes!outcomeVars
  <1>9. CASE \E n \in focusing : Focused(n)
    BY <1>9, FocusedOutcome DEF Outcomes!Next
  <1>10. CASE Tick
    BY <1>10, TickOutcome DEF Outcomes!Next
  <1>11. CASE UNCHANGED vars
    BY <1>11, OutcomeStutter DEF Outcomes!outcomeVars
  <1> QED BY <1>1, <1>2, <1>3, <1>4, <1>5, <1>6, <1>7, <1>8, <1>9, <1>10, <1>11 DEF Next, Deliver

\* Each result a form sends is told the merchant once at most, however many there
\* are, and nothing that was not sent; no checkout is reported as aborted twice, or
\* once anything has been told of it, for any number of checkouts and results.
THEOREM SdkImplementsOutcomes == Spec => ImplementsOutcomes
  <1>1. Init => OutcomeInv
    BY OutcomeInitial
  <1>2. Init => Outcomes!Init
    BY DEF Init, Outcomes!Init, Outcomes!Checkouts, Checkout, Number
  <1>3. SdkInv /\ OutcomeInv /\ [Next]_vars => OutcomeInv'
    BY OutcomeStep
  <1>4. SdkInv /\ OutcomeInv /\ [Next]_vars => [Outcomes!Next]_(Outcomes!outcomeVars)
    BY OutcomeStep
  <1> QED BY <1>1, <1>2, <1>3, <1>4, SdkInvariant, PTL
        DEF Spec, ImplementsOutcomes, Outcomes!Spec
=============================================================================
