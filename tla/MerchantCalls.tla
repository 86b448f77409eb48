---------------------------- MODULE MerchantCalls ----------------------------
(***************************************************************************)
(* What the checkout form asks of the merchant while the user fills it in: *)
(* delivery options for an address, the order with an option, a pickup     *)
(* point or a coupon, the pickup points of a map.                          *)
(*                                                                         *)
(* A call is an event (Change or Reset) to the SDK on the merchant's page, *)
(* whose handler answers when it likes, or never.  The SDK passes the      *)
(* answer on as an Update, which does not say what it answers: every       *)
(* listener of the form that finds what it waits for in an Update takes it *)
(* for its own.  Most calls give up after 15 seconds, then ping the SDK    *)
(* and show an error; fetches of points wait in an RpcQueue, one at a      *)
(* time, and never give up.                                                *)
(*                                                                         *)
(* An operator X_M is a mutant of X, what X would be with a plausible      *)
(* mistake: the properties below tell X from it.                           *)
(***************************************************************************)
EXTENDS Naturals, Sequences

CONSTANTS
  MaxCalls,  \* bound: calls the user makes
  Address,   \* addresses of the user
  None

ASSUME CallsAssumption ==
  MaxCalls \in Nat /\ None \notin Address \cup {"coupon", "removeCoupon"}

VARIABLES
  call,      \* the calls of the form: kind, progress, address asked about
  asked,     \* events of the form that the merchant has not answered
  toForm,    \* Updates on their way from the SDK to the form, in order
  queue,     \* RpcQueue: fetches of points, the first of which is started
  counter,   \* fetchPickupPointsCounter
  status,    \* asyncData status of each part of the store
  selected,  \* the selected address
  listOf,    \* the address whose delivery options are listed
  coupon,    \* is a coupon shown as activated?
  shown,     \* the event whose answer gave the order of the form's sheet
  sdkOrder,  \* the event whose answer gave the order of the SDK's sheet
  disturbed  \* history: a call has overlapped another one or timed out

formVars == <<call, queue, counter, status, selected, listOf, coupon, shown, disturbed>>
vars == <<formVars, asked, toForm, sdkOrder>>

Call == 1..MaxCalls

\* Calls that are answered with an order.
OrderKind == {"option", "resetOption", "point", "coupon", "removeCoupon"}

Kind == OrderKind \cup {"address", "points"}

\* resetOption and points are not raced against RPC_REQUEST_TIMEOUT.
Limited == Kind \ {"resetOption", "points"}

Pc == {"unused", "queued", "armed", "waiting", "updating", "pinging", "ended"}

Event == [call : Call, kind : Kind]

Content == {"options", "points", "order", "couponError"}

Update == [re : Event, has : SUBSET Content]

Group == {"list", "option", "point", "points", "coupon", "removal"}

GroupOf(kind) ==
  CASE kind = "address" -> "list"
    [] kind \in {"option", "resetOption"} -> "option"
    [] kind = "removeCoupon" -> "removal"
    [] OTHER -> kind

Status == {"initial", "pending", "success", "error"}

TypeOK ==
  /\ call \in [Call -> [kind : Kind, pc : Pc, address : Address \cup {None}]]
  /\ asked \subseteq Event /\ toForm \in Seq(Update)
  /\ queue \in Seq(Call) /\ counter \in Nat
  /\ status \in [Group -> Status]
  /\ selected \in Address \cup {None} /\ listOf \in Address \cup {None}
  /\ coupon \in BOOLEAN /\ disturbed \in BOOLEAN
  /\ shown \in Event \cup {None} /\ sdkOrder \in Event \cup {None}

Init ==
  /\ call = [c \in Call |-> [kind |-> "address", pc |-> "unused", address |-> None]]
  /\ asked = {} /\ toForm = <<>> /\ queue = <<>> /\ counter = 0
  /\ status = [g \in Group |-> "initial"]
  /\ selected = None /\ listOf = None /\ coupon = FALSE
  /\ shown = None /\ sdkOrder = None /\ disturbed = FALSE

Live(c) == call[c].pc \notin {"unused", "ended"}

\* setCoupon and setRemoveCoupon reset the status of each other.
With(group, value) ==
  [g \in Group |-> CASE g = group -> value
                     [] {g, group} = {"coupon", "removal"} -> "initial"
                     [] OTHER -> status[g]]

-----------------------------------------------------------------------------
(* The user.                                                               *)

StartedAs_M(kind) == IF kind = "points" THEN "armed" ELSE "waiting"

\* The listener is there, or has its place in the queue, before the event is sent.
StartedAs(kind) ==
  CASE kind # "points" -> "waiting"
    [] kind = "points" /\ queue = <<>> -> "armed"
    [] OTHER -> "queued"

Start(c, kind, address) ==
  /\ call[c].pc = "unused" /\ \A d \in Call : d < c => call[d].pc # "unused"
  /\ call' = [call EXCEPT ![c] = [kind |-> kind, pc |-> StartedAs(kind), address |-> address]]
  /\ asked' = asked \cup {[call |-> c, kind |-> kind]}
  /\ status' = With(GroupOf(kind), "pending")
  /\ disturbed' = (disturbed \/ (kind # "points" /\ \E d \in Call : Live(d) /\ call[d].kind # "points"))
  /\ UNCHANGED <<toForm, listOf, coupon, shown, sdkOrder>>

\* selectAddress with refreshShippingOptionsList; the button stays usable.
SelectAddress(c, a) ==
  /\ Start(c, "address", a)
  /\ selected' = a
  /\ UNCHANGED <<queue, counter>>

CounterAfterFetch == counter + 1

FetchPoints(c) ==
  /\ Start(c, "points", None)
  /\ queue' = Append(queue, c) /\ counter' = CounterAfterFetch
  /\ UNCHANGED selected

\* The other calls, whose buttons show their progress.
AskOrder(c, kind) ==
  /\ status[GroupOf(kind)] # "pending"
  /\ kind = "option" => status["list"] = "success"
  /\ kind = "coupon" => status["coupon"] # "success"
  /\ kind = "removeCoupon" => coupon
  /\ Start(c, kind, None)
  /\ UNCHANGED <<queue, counter, selected>>

\* resetCouponData on the way to the form of a new coupon.
EnterNewCoupon ==
  /\ coupon
  /\ status' = With("coupon", "initial")
  /\ UNCHANGED <<call, queue, counter, selected, listOf, coupon, shown, disturbed,
                 asked, toForm, sdkOrder>>

-----------------------------------------------------------------------------
(* The merchant and the SDK.                                               *)

\* What the merchant answers with; prices may depend on the address, too.
Answers(kind) ==
  CASE kind = "address" -> {{"options"}, {"options", "order"}}
    [] kind = "points" -> {{"points"}}
    [] kind = "coupon" -> {{"order"}, {"couponError"}}
    [] OTHER -> {{"order"}}

\* update() of the SDK, when the promise of the merchant's handler resolves.
Answer(e) ==
  /\ e \in asked
  /\ asked' = asked \ {e}
  /\ \E has \in Answers(e.kind) :
       /\ toForm' = Append(toForm, [re |-> e, has |-> has])
       /\ sdkOrder' = IF "order" \in has THEN e ELSE sdkOrder
  /\ UNCHANGED formVars

-----------------------------------------------------------------------------
(* The form: an Update, the timers and the requests.                       *)

Hears(kind, has) ==
  CASE kind = "address" -> "options" \in has
    [] kind = "points" -> "points" \in has
    [] kind = "coupon" -> has \cap {"order", "couponError"} # {}
    [] OTHER -> "order" \in has

\* The calls that take u for their answer, and what they are about.
Resolved(u) == {c \in Call : call[c].pc = "waiting" /\ Hears(call[c].kind, u.has)}

Addressed(u) == {c \in Resolved(u) : call[c].kind = "address"}

ResolvedKinds(u) == {call[c].kind : c \in Resolved(u)}

About(u) == ResolvedKinds(u) \cap {"coupon", "removeCoupon"}

\* The options that have come are followed by the choice of one, or a reset if
\* there is none; the choice waits for updatePaymentInfo before it is a success.
Continued(row, next) ==
  CASE row.kind = "address" -> [row EXCEPT !.kind = next]
    [] row.kind \in {"option", "resetOption", "point"} -> [row EXCEPT !.pc = "updating"]
    [] OTHER -> [row EXCEPT !.pc = "ended"]

\* done() of the RpcQueue starts the next fetch.
Rearmed(c, u) ==
  IF "points" \in ResolvedKinds(u) /\ Len(queue) > 1 /\ c = queue[2]
  THEN [call[c] EXCEPT !.pc = "armed"]
  ELSE call[c]

PointsStatus_M == "success"

PointsStatus == IF counter = 1 THEN "success" ELSE status["points"]

\* Of two calls about the coupon, the one that was started last sets its status last.
StatusAfter(u, last) ==
  [g \in Group |->
    CASE g = "list" /\ Addressed(u) # {} -> "success"
      [] g = "option" /\ Addressed(u) # {} -> "pending"
      [] g = "points" /\ "points" \in ResolvedKinds(u) -> PointsStatus
      [] g \in {"coupon", "removal"} /\ last # None ->
           IF g # GroupOf(last) THEN "initial"
           ELSE IF "couponError" \in u.has THEN "error" ELSE "success"
      [] OTHER -> status[g]]

CouponAfter(u, last) ==
  IF last = None \/ "couponError" \in u.has THEN coupon ELSE last = "coupon"

ShownAfter_M(u) ==
  IF "order" \in u.has /\ ResolvedKinds(u) \cap (OrderKind \ {"resetOption"}) # {}
  THEN u.re ELSE shown

ShownAfter(u) ==
  IF "order" \in u.has /\ ResolvedKinds(u) \cap OrderKind # {} THEN u.re ELSE shown

Take(u, next, last) ==
  /\ call' = [c \in Call |->
               IF c \in Resolved(u) THEN Continued(call[c], next) ELSE Rearmed(c, u)]
  /\ asked' = asked \cup {[call |-> c, kind |-> next] : c \in Addressed(u)}
  /\ status' = StatusAfter(u, last)
  /\ listOf' = IF Addressed(u) = {} THEN listOf ELSE call[u.re.call].address
  /\ coupon' = CouponAfter(u, last) /\ shown' = ShownAfter(u)
  /\ IF "points" \in ResolvedKinds(u)
     THEN queue' = Tail(queue) /\ counter' = counter - 1
     ELSE UNCHANGED <<queue, counter>>

Deliver ==
  /\ toForm # <<>>
  /\ toForm' = Tail(toForm)
  /\ LET u == Head(toForm)
     IN  \E next \in {"option", "resetOption"},
            last \in IF About(u) = {} THEN {None} ELSE About(u) : Take(u, next, last)
  /\ UNCHANGED <<selected, sdkOrder, disturbed>>

\* setTimeout(fn, 0) of the RpcQueue.
Arm(c) ==
  /\ call[c].pc = "armed"
  /\ call' = [call EXCEPT ![c].pc = "waiting"]
  /\ UNCHANGED <<queue, counter, status, selected, listOf, coupon, shown, disturbed,
                 asked, toForm, sdkOrder>>

\* timeRace: the listener stays, but nobody waits for it.
Timeout(c) ==
  /\ call[c].pc = "waiting" /\ call[c].kind \in Limited
  /\ call' = [call EXCEPT ![c].pc = "pinging"]
  /\ disturbed' = TRUE
  /\ UNCHANGED <<queue, counter, status, selected, listOf, coupon, shown,
                 asked, toForm, sdkOrder>>

PingedStatus_M(c) == status

\* The ping is answered or not: the status is set either way.
PingedStatus(c) == With(GroupOf(call[c].kind), "error")

Pinged(c) ==
  /\ call[c].pc = "pinging"
  /\ call' = [call EXCEPT ![c].pc = "ended"]
  /\ status' = PingedStatus(c)
  /\ UNCHANGED <<queue, counter, selected, listOf, coupon, shown, disturbed,
                 asked, toForm, sdkOrder>>

\* The cashback and the split plan have been loaded, or not.
Updated(c) ==
  /\ call[c].pc = "updating"
  /\ call' = [call EXCEPT ![c].pc = "ended"]
  /\ status' = With(GroupOf(call[c].kind), "success")
  /\ UNCHANGED <<queue, counter, selected, listOf, coupon, shown, disturbed,
                 asked, toForm, sdkOrder>>

Next ==
  \/ \E c \in Call, a \in Address : SelectAddress(c, a)
  \/ \E c \in Call : FetchPoints(c)
  \/ \E c \in Call, kind \in OrderKind \ {"resetOption"} : AskOrder(c, kind)
  \/ EnterNewCoupon
  \/ \E e \in asked : Answer(e)
  \/ Deliver
  \/ \E c \in Call : Arm(c) \/ Timeout(c) \/ Pinged(c) \/ Updated(c)

Spec == Init /\ [][Next]_vars

\* Updates are delivered, timers go off and requests end; the merchant need not
\* answer.
FairSpec ==
  /\ Spec /\ WF_vars(Deliver)
  /\ \A c \in Call : WF_vars(Timeout(c)) /\ WF_vars(Pinged(c)) /\ WF_vars(Updated(c))

-----------------------------------------------------------------------------
Undone(group) == {c \in Call : Live(c) /\ GroupOf(call[c].kind) = group}

\* A preloader belongs to a call that is under way, whatever overlaps, fails or
\* comes late; that of the points is there as long as any fetch is.
PreloadersHaveCalls ==
  /\ \A g \in Group : status[g] = "pending" => Undone(g) # {}
  /\ Undone("points") # {} => status["points"] = "pending"

\* An Update with points ends one fetch: those that run in parallel keep waiting
\* for answers of their own.
OneAnswerOneFetch ==
  [][\A c, d \in Undone("points") :
       call'[c].pc = "ended" /\ call'[d].pc = "ended" => c = d]_vars

\* Calls that are made one after the other and answered in time leave the form
\* with the order that the SDK will pay and the options of the address it shows.
CallsInTurnAgree ==
  ~disturbed /\ (\A c \in Call : Live(c) => call[c].kind = "points") =>
    /\ shown = sdkOrder
    /\ status["list"] = "success" => listOf = selected

\* No preloader stays because of a merchant that does not answer, except that of
\* the points and that of a reset, whose calls have no timeout.
NoPreloaderForever ==
  \A g \in Group \ {"points"} :
    status[g] = "pending" ~>
      (status[g] # "pending" \/ \E c \in Undone(g) : call[c].kind = "resetOption")
=============================================================================
