------------------------ MODULE MerchantCalls_proofs ------------------------
(***************************************************************************)
(* MerchantCalls keeps its types, its preloaders belong to calls that are  *)
(* under way, an answer ends one fetch of points, and calls in turn leave  *)
(* the form and the SDK with one order, for any number of calls and        *)
(* addresses.  The invariant ties the queue of fetches to the calls in it, *)
(* and, as long as nothing has been disturbed, the one call under way to   *)
(* the event, the Update and the orders about it.                          *)
(***************************************************************************)
EXTENDS MerchantCalls, SequenceTheorems, TLAPS

\* Which calls can get where.
KindsFit ==
  \A c \in Call :
    /\ call[c].pc = "unused" => call[c].kind # "points"
    /\ call[c].pc \in {"queued", "armed"} => call[c].kind = "points"
    /\ call[c].pc = "pinging" => call[c].kind \in Limited
    /\ call[c].pc = "updating" => call[c].kind \in {"option", "resetOption", "point"}

\* The queue holds the fetches that are under way, of which the first is started.
QueueFits ==
  /\ counter = Len(queue)
  /\ \A i \in 1..Len(queue) :
       /\ call[queue[i]].kind = "points"
       /\ call[queue[i]].pc \in (IF i = 1 THEN {"armed", "waiting"} ELSE {"queued"})
  /\ \A i, j \in 1..Len(queue) : queue[i] = queue[j] => i = j
  /\ \A c \in Undone("points") : \E i \in 1..Len(queue) : queue[i] = c
  /\ status["points"] = "pending" <=> queue # <<>>

\* What is under way about a call that is not a fetch.
Direct(c) == Live(c) /\ call[c].kind # "points"

Awaits(c, e) == call[c].pc = "waiting" /\ e = [call |-> c, kind |-> call[c].kind]

AnswersFit == \A i \in 1..Len(toForm) : toForm[i].has \in Answers(toForm[i].re.kind)

InTurn ==
  /\ \A c, d \in Call : Direct(c) /\ Direct(d) => c = d
  /\ \A e \in asked : e.kind # "points" => Awaits(e.call, e)
  /\ \A i \in 1..Len(toForm) : toForm[i].re.kind # "points" =>
       /\ Awaits(toForm[i].re.call, toForm[i].re)
       /\ \A j \in 1..Len(toForm) : toForm[j].re.kind # "points" => i = j
       /\ \A e \in asked : e.kind = "points"

\* The two orders differ only while a call is about to bring them together.
OrdersFit ==
  /\ \A i \in 1..Len(toForm) : "order" \in toForm[i].has => sdkOrder = toForm[i].re
  /\ shown # sdkOrder =>
       \E c \in Call :
         /\ call[c].pc = "waiting" /\ call[c].kind # "points"
         /\ call[c].kind = "coupon" =>
              \E i \in 1..Len(toForm) : toForm[i].re.call = c /\ "order" \in toForm[i].has

ListFits ==
  /\ status["list"] = "success" => listOf = selected
  /\ \A c \in Call :
       call[c].kind = "address" /\ call[c].pc = "waiting" => call[c].address = selected

CallsInv ==
  /\ TypeOK /\ KindsFit /\ QueueFits /\ PreloadersHaveCalls /\ AnswersFit
  /\ ~disturbed => InTurn /\ OrdersFit /\ ListFits

-----------------------------------------------------------------------------
\* The kinds of calls that share a part of the store.
LEMMA GroupFacts ==
  \A k \in Kind :
    /\ GroupOf(k) \in Group
    /\ GroupOf(k) = "points" <=> k = "points"
    /\ GroupOf(k) = "list" <=> k = "address"
    /\ GroupOf(k) = "option" <=> k \in {"option", "resetOption"}
  BY DEF GroupOf, Kind, OrderKind, Group

\* What an event may be answered with is what its listener waits for.
LEMMA AnswerFacts ==
  \A k \in Kind : \A has \in Answers(k) :
    /\ has \subseteq Content
    /\ Hears(k, has)
    /\ Hears("points", has) <=> k = "points"
    /\ "options" \in has => k = "address"
    /\ k = "points" => "order" \notin has /\ \A l \in Kind : Hears(l, has) => l = "points"
    /\ "order" \notin has => k \in {"address", "points", "coupon"}
    /\ "couponError" \in has => k = "coupon" /\ "order" \notin has
  BY DEF Answers, Hears, Kind, OrderKind, Content

\* Setting one status keeps the others, or resets one of the coupon.
LEMMA WithFacts ==
  ASSUME TypeOK, NEW g \in Group, NEW v \in Status
  PROVE  /\ With(g, v) \in [Group -> Status]
         /\ With(g, v)[g] = v
         /\ \A h \in Group \ {g} : With(g, v)[h] \in {"initial", status[h]}
         /\ g \in {"list", "option", "point", "points"} =>
              \A h \in Group \ {g} : With(g, v)[h] = status[h]
         /\ \A h \in Group \ {g, "coupon", "removal"} : With(g, v)[h] = status[h]
  <1>0. status \in [Group -> Status] /\ "initial" \in Status
    BY DEF TypeOK, Status
  <1>1. With(g, v)[g] = v
    BY DEF With
  <1>2. \A h \in Group \ {g} :
          With(g, v)[h] = IF {h, g} = {"coupon", "removal"} THEN "initial" ELSE status[h]
    BY DEF With
  <1>3. ASSUME NEW h \in Group \ {g}, {h, g} = {"coupon", "removal"}
        PROVE  g \in {"coupon", "removal"} /\ h \in {"coupon", "removal"}
    BY <1>3
  <1>4. With(g, v) \in [Group -> Status]
    <2>1. \A h \in Group : With(g, v)[h] \in Status
      BY <1>0, <1>1, <1>2
    <2>2. With(g, v) = [h \in Group |-> With(g, v)[h]]
      BY DEF With
    <2> QED BY <2>1, <2>2
  <1>5. \A h \in Group \ {g} : With(g, v)[h] \in {"initial", status[h]}
    BY <1>2
  <1>6. g \in {"list", "option", "point", "points"} => g \notin {"coupon", "removal"}
    OBVIOUS
  <1>7. g \in {"list", "option", "point", "points"} =>
          \A h \in Group \ {g} : With(g, v)[h] = status[h]
    BY <1>2, <1>3, <1>6
  <1>8. \A h \in Group \ {g, "coupon", "removal"} : With(g, v)[h] = status[h]
    BY <1>2, <1>3
  <1> QED BY <1>1, <1>4, <1>5, <1>7, <1>8

\* A new call waits for its answer, or in the queue.
LEMMA StartFacts ==
  ASSUME TypeOK, NEW c \in Call, NEW kind \in Kind, NEW a \in Address \cup {None},
         Start(c, kind, a)
  PROVE  /\ call' \in [Call -> [kind : Kind, pc : Pc, address : Address \cup {None}]]
         /\ call'[c] = [kind |-> kind, pc |-> StartedAs(kind), address |-> a]
         /\ \A d \in Call \ {c} : call'[d] = call[d]
         /\ ~Live(c)
         /\ asked' \subseteq Event /\ disturbed' \in BOOLEAN
         /\ status' \in [Group -> Status]
  <1>1. StartedAs(kind) \in Pc
    BY DEF StartedAs, Pc
  <1>2. [call |-> c, kind |-> kind] \in Event
    BY DEF Event
  <1>3. GroupOf(kind) \in Group /\ "pending" \in Status
    BY GroupFacts DEF Status
  <1>4. status' \in [Group -> Status]
    BY <1>3, WithFacts DEF Start
  <1>5. disturbed' \in BOOLEAN
    BY DEF Start, TypeOK
  <1> QED BY <1>1, <1>2, <1>4, <1>5 DEF Start, TypeOK, Live

\* The fetch that waits is the first of the queue.
LEMMA WaitingFetch ==
  ASSUME TypeOK, QueueFits, NEW c \in Call, call[c].kind = "points", call[c].pc = "waiting"
  PROVE  Len(queue) >= 1 /\ queue[1] = c
  <1>1. c \in Undone("points")
    BY DEF Undone, Live, GroupOf
  <1>2. PICK i \in 1..Len(queue) : queue[i] = c
    BY <1>1 DEF QueueFits
  <1>3. i = 1
    BY <1>2 DEF QueueFits
  <1> QED BY <1>2, <1>3

\* What an Update does to the calls.
LEMMA TakeFacts ==
  ASSUME TypeOK, QueueFits, NEW u \in Update, NEW next \in {"option", "resetOption"},
         NEW last, Take(u, next, last)
  PROVE  /\ call' \in [Call -> [kind : Kind, pc : Pc, address : Address \cup {None}]]
         /\ \A c \in Addressed(u) : call'[c] = [call[c] EXCEPT !.kind = next]
         /\ \A c \in Resolved(u) \ Addressed(u) :
              call'[c] = [call[c] EXCEPT !.pc =
                            IF call[c].kind \in {"option", "resetOption", "point"}
                            THEN "updating" ELSE "ended"]
         /\ \A c \in Call \ Resolved(u) : call'[c] = Rearmed(c, u)
  <1>0. \A c \in Call : call[c] \in [kind : Kind, pc : Pc, address : Address \cup {None}]
    BY DEF TypeOK
  <1>1. \A c \in Addressed(u) : call'[c] = [call[c] EXCEPT !.kind = next]
    BY DEF Take, Addressed, Resolved, Continued
  <1>2. \A c \in Resolved(u) \ Addressed(u) :
          call'[c] = [call[c] EXCEPT !.pc =
                        IF call[c].kind \in {"option", "resetOption", "point"}
                        THEN "updating" ELSE "ended"]
    BY DEF Take, Addressed, Resolved, Continued
  <1>3. \A c \in Call \ Resolved(u) : call'[c] = Rearmed(c, u)
    BY DEF Take
  <1>4. \A c \in Call : call'[c] \in [kind : Kind, pc : Pc, address : Address \cup {None}]
    <2> SUFFICES ASSUME NEW c \in Call
                 PROVE  call'[c] \in [kind : Kind, pc : Pc, address : Address \cup {None}]
      OBVIOUS
    <2>1. CASE c \in Addressed(u)
      <3>1. next \in Kind
        BY DEF Kind, OrderKind
      <3>2. call'[c] = [call[c] EXCEPT !.kind = next]
        BY <1>1, <2>1
      <3> QED BY <1>0, <3>1, <3>2
    <2>2. CASE c \in Resolved(u) \ Addressed(u)
      <3> DEFINE pc == IF call[c].kind \in {"option", "resetOption", "point"}
                       THEN "updating" ELSE "ended"
      <3>1. pc \in Pc
        BY DEF Pc
      <3>2. call'[c] = [call[c] EXCEPT !.pc = pc]
        BY <1>2, <2>2
      <3> HIDE DEF pc
      <3> QED BY <1>0, <3>1, <3>2
    <2>3. CASE c \notin Resolved(u)
      <3>1. call[c] \in [kind : Kind, pc : Pc, address : Address \cup {None}] /\ "armed" \in Pc
        BY <1>0 DEF Pc
      <3>2. [call[c] EXCEPT !.pc = "armed"]
              \in [kind : Kind, pc : Pc, address : Address \cup {None}]
        BY <3>1
      <3>3. call'[c] \in {call[c], [call[c] EXCEPT !.pc = "armed"]}
        BY <1>3, <2>3 DEF Rearmed
      <3> QED BY <3>1, <3>2, <3>3
    <2> QED BY <2>1, <2>2, <2>3
  <1>5. call' = [c \in Call |-> call'[c]]
    BY DEF Take
  <1> QED BY <1>1, <1>2, <1>3, <1>4, <1>5

\* If an Update ends a fetch, it is the first of the queue.
LEMMA TakenFetch ==
  ASSUME TypeOK, QueueFits, NEW u \in Update, "points" \in ResolvedKinds(u)
  PROVE  /\ Len(queue) >= 1 /\ queue[1] \in Resolved(u) \ Addressed(u)
         /\ \A c \in Resolved(u) : call[c].kind = "points" => c = queue[1]
  <1>1. PICK c \in Resolved(u) : call[c].kind = "points"
    BY DEF ResolvedKinds
  <1>2. \A d \in Resolved(u) : call[d].kind = "points" => Len(queue) >= 1 /\ queue[1] = d
    BY WaitingFetch DEF Resolved
  <1> QED BY <1>1, <1>2 DEF Addressed

LEMMA HeadTail ==
  ASSUME NEW S, NEW s \in Seq(S), s # <<>>
  PROVE  /\ Len(s) \in Nat /\ Len(s) >= 1
         /\ Head(s) = s[1] /\ Head(s) \in S
         /\ Tail(s) \in Seq(S) /\ Len(Tail(s)) = Len(s) - 1
         /\ \A i \in 1..Len(Tail(s)) : Tail(s)[i] = s[i + 1] /\ i + 1 \in 1..Len(s)
  OBVIOUS

LEMMA AppendFacts ==
  ASSUME NEW S, NEW s \in Seq(S), NEW x \in S
  PROVE  /\ Append(s, x) \in Seq(S) /\ Len(Append(s, x)) = Len(s) + 1
         /\ Append(s, x)[Len(s) + 1] = x /\ Append(s, x) # <<>>
         /\ \A i \in 1..Len(s) : Append(s, x)[i] = s[i]
  OBVIOUS

-----------------------------------------------------------------------------
(* Types.                                                                  *)

\* The steps of one call that change nothing but its progress and a status.
CallStep(c) == Arm(c) \/ Timeout(c) \/ Pinged(c) \/ Updated(c)

LEMMA CallStepFacts ==
  ASSUME TypeOK, NEW c \in Call, CallStep(c)
  PROVE  /\ \E pc \in {"waiting", "pinging", "ended"} :
              /\ call' = [call EXCEPT ![c].pc = pc]
              /\ Arm(c) => pc = "waiting"
              /\ Timeout(c) => pc = "pinging"
              /\ Pinged(c) \/ Updated(c) => pc = "ended"
         /\ status' \in [Group -> Status]
         /\ UNCHANGED <<queue, counter, selected, listOf, coupon, shown, asked, toForm, sdkOrder>>
  <1>1. GroupOf(call[c].kind) \in Group /\ {"error", "success"} \subseteq Status
    BY GroupFacts DEF TypeOK, Status
  <1>2. CASE Arm(c)
    BY <1>2 DEF Arm, TypeOK, Timeout, Pinged, Updated
  <1>3. CASE Timeout(c)
    BY <1>3 DEF Timeout, TypeOK, Arm, Pinged, Updated
  <1>4. CASE Pinged(c)
    BY <1>1, <1>4, WithFacts DEF Pinged, PingedStatus, TypeOK, Arm, Timeout, Updated
  <1>5. CASE Updated(c)
    BY <1>1, <1>5, WithFacts DEF Updated, TypeOK, Arm, Timeout, Pinged
  <1> QED BY <1>2, <1>3, <1>4, <1>5 DEF CallStep

\* The user starts a call.
StartStep(c) ==
  \/ \E a \in Address : SelectAddress(c, a)
  \/ FetchPoints(c)
  \/ \E kind \in OrderKind \ {"resetOption"} : AskOrder(c, kind)

LEMMA StartStepFacts ==
  ASSUME NEW c \in Call, StartStep(c)
  PROVE  \E kind \in Kind, a \in Address \cup {None} :
           /\ Start(c, kind, a)
           /\ kind = "points" => queue' = Append(queue, c) /\ counter' = counter + 1
           /\ kind # "points" => UNCHANGED <<queue, counter>>
           /\ kind = "address" => selected' = a /\ a \in Address
           /\ kind # "address" => UNCHANGED selected
  <1>1. CASE \E a \in Address : SelectAddress(c, a)
    BY <1>1 DEF SelectAddress, Kind
  <1>2. CASE FetchPoints(c)
    BY <1>2 DEF FetchPoints, CounterAfterFetch, Kind
  <1>3. CASE \E kind \in OrderKind \ {"resetOption"} : AskOrder(c, kind)
    BY <1>3 DEF AskOrder, Kind, OrderKind
  <1> QED BY <1>1, <1>2, <1>3 DEF StartStep

\* Next by the shape of its steps.
LEMMA NextCases ==
  ASSUME [Next]_vars
  PROVE  \/ \E c \in Call : StartStep(c)
         \/ EnterNewCoupon
         \/ \E e \in asked : Answer(e)
         \/ Deliver
         \/ \E c \in Call : CallStep(c)
         \/ UNCHANGED vars
  BY DEF Next, StartStep, CallStep

\* An Update that is delivered.
LEMMA DeliverFacts ==
  ASSUME TypeOK, Deliver
  PROVE  /\ toForm # <<>> /\ Head(toForm) \in Update /\ toForm' = Tail(toForm)
         /\ \E next \in {"option", "resetOption"}, last \in {None} \cup Kind :
              /\ last \in (IF About(Head(toForm)) = {} THEN {None} ELSE About(Head(toForm)))
              /\ Take(Head(toForm), next, last)
         /\ UNCHANGED <<selected, sdkOrder, disturbed>>
  <1>1. About(Head(toForm)) \subseteq Kind
    BY DEF About, Kind, OrderKind
  <1>2. toForm # <<>> /\ Head(toForm) \in Update
    BY HeadTail DEF Deliver, TypeOK
  <1> QED BY <1>1, <1>2 DEF Deliver

\* Statuses stay in their type, also when an Update ends several calls.
LEMMA StatusAfterType ==
  ASSUME TypeOK, NEW u \in Update, NEW last
  PROVE  StatusAfter(u, last) \in [Group -> Status]
  BY DEF StatusAfter, PointsStatus, TypeOK, Status, Group

LEMMA TypeStep ==
  ASSUME TypeOK, QueueFits, [Next]_vars
  PROVE  TypeOK'
  <1>1. CASE \E c \in Call : StartStep(c)
    <2> PICK c \in Call : StartStep(c) BY <1>1
    <2> PICK kind \in Kind, a \in Address \cup {None} :
           /\ Start(c, kind, a)
           /\ kind = "points" => queue' = Append(queue, c) /\ counter' = counter + 1
           /\ kind # "points" => UNCHANGED <<queue, counter>>
           /\ kind = "address" => selected' = a /\ a \in Address
           /\ kind # "address" => UNCHANGED selected
      BY StartStepFacts
    <2>1. queue' \in Seq(Call) /\ counter' \in Nat
      <3>1. queue \in Seq(Call) /\ counter \in Nat
        BY DEF TypeOK
      <3>2. Append(queue, c) \in Seq(Call)
        BY <3>1, AppendFacts
      <3> QED BY <3>1, <3>2
    <2>2. UNCHANGED <<toForm, listOf, coupon, shown, sdkOrder>>
      BY DEF Start
    <2> QED BY <2>1, <2>2, StartFacts DEF TypeOK
  <1>2. CASE EnterNewCoupon
    <2>1. status' \in [Group -> Status]
      BY <1>2, WithFacts DEF EnterNewCoupon, Group, Status
    <2> QED BY <1>2, <2>1 DEF EnterNewCoupon, TypeOK
  <1>3. CASE \E e \in asked : Answer(e)
    <2> PICK e \in asked : Answer(e) BY <1>3
    <2>1. e \in Event /\ e.kind \in Kind
      BY DEF TypeOK, Event
    <2>2. PICK has \in Answers(e.kind) :
            /\ toForm' = Append(toForm, [re |-> e, has |-> has])
            /\ sdkOrder' = IF "order" \in has THEN e ELSE sdkOrder
      BY DEF Answer
    <2>3. [re |-> e, has |-> has] \in Update
      BY <2>1, <2>2, AnswerFacts DEF Update
    <2>4. toForm' \in Seq(Update)
      BY <2>2, <2>3, AppendFacts DEF TypeOK
    <2> QED BY <2>1, <2>2, <2>4 DEF Answer, formVars, TypeOK
  <1>4. CASE Deliver
    <2> DEFINE u == Head(toForm)
    <2>1. PICK next \in {"option", "resetOption"}, last \in {None} \cup Kind : Take(u, next, last)
      BY <1>4, DeliverFacts
    <2>2. /\ u \in Update /\ toForm' \in Seq(Update)
          /\ UNCHANGED <<selected, sdkOrder, disturbed>>
      <3>1. /\ toForm # <<>> /\ u \in Update /\ toForm' = Tail(toForm)
            /\ UNCHANGED <<selected, sdkOrder, disturbed>>
        BY <1>4, DeliverFacts
      <3>2. toForm \in Seq(Update)
        BY DEF TypeOK
      <3>3. Tail(toForm) \in Seq(Update)
        BY <3>1, <3>2, HeadTail
      <3> QED BY <3>1, <3>3
    <2> HIDE DEF u
    <2>3. call' \in [Call -> [kind : Kind, pc : Pc, address : Address \cup {None}]]
      BY <2>1, <2>2, TakeFacts
    <2>4. asked' \subseteq Event
      <3>1. \A c \in Addressed(u) : [call |-> c, kind |-> next] \in Event
        BY DEF Addressed, Resolved, Event, Kind, OrderKind
      <3> QED BY <2>1, <3>1 DEF Take, TypeOK
    <2>5. status' \in [Group -> Status]
      BY <2>1, <2>2, StatusAfterType DEF Take
    <2>6. listOf' \in Address \cup {None}
      <3>1. call[u.re.call].address \in Address \cup {None}
        BY <2>2 DEF TypeOK, Update, Event
      <3> QED BY <2>1, <3>1 DEF Take, TypeOK
    <2>7. coupon' \in BOOLEAN /\ shown' \in Event \cup {None}
      BY <2>1, <2>2 DEF Take, CouponAfter, ShownAfter, TypeOK, Update
    <2>8. queue' \in Seq(Call) /\ counter' \in Nat
      <3>1. CASE "points" \in ResolvedKinds(u)
        <4>1. Len(queue) >= 1 /\ counter = Len(queue)
          BY <2>2, <3>1, TakenFetch DEF QueueFits
        <4>2. queue # <<>> /\ queue \in Seq(Call)
          BY <4>1 DEF TypeOK
        <4>3. Tail(queue) \in Seq(Call) /\ Len(queue) - 1 \in Nat
          BY <4>2, HeadTail
        <4> QED BY <2>1, <3>1, <4>1, <4>3 DEF Take
      <3>2. CASE "points" \notin ResolvedKinds(u)
        BY <2>1, <3>2 DEF Take, TypeOK
      <3> QED BY <3>1, <3>2
    <2> QED BY <2>2, <2>3, <2>4, <2>5, <2>6, <2>7, <2>8 DEF TypeOK
  <1>5. CASE \E c \in Call : CallStep(c)
    <2> PICK c \in Call : CallStep(c) BY <1>5
    <2>1. PICK pc \in {"waiting", "pinging", "ended"} : call' = [call EXCEPT ![c].pc = pc]
      BY CallStepFacts
    <2>2. call' \in [Call -> [kind : Kind, pc : Pc, address : Address \cup {None}]]
      BY <2>1 DEF TypeOK, Pc
    <2>3. disturbed' \in BOOLEAN
      BY DEF CallStep, Arm, Timeout, Pinged, Updated, TypeOK
    <2> QED BY <2>2, <2>3, CallStepFacts DEF TypeOK
  <1>6. CASE UNCHANGED vars
    BY <1>6 DEF vars, formVars, TypeOK
  <1> QED BY <1>1, <1>2, <1>3, <1>4, <1>5, <1>6, NextCases

-----------------------------------------------------------------------------
(* The kinds of calls and the queue of fetches.                            *)

LEMMA KindsStep ==
  ASSUME TypeOK, QueueFits, KindsFit, [Next]_vars
  PROVE  KindsFit'
  <1>1. CASE \E c \in Call : StartStep(c)
    <2> PICK c \in Call : StartStep(c) BY <1>1
    <2> PICK kind \in Kind, a \in Address \cup {None} : Start(c, kind, a)
      BY StartStepFacts
    <2>1. /\ StartedAs(kind) \notin {"unused", "pinging", "updating"}
          /\ StartedAs(kind) \in {"queued", "armed"} => kind = "points"
      BY DEF StartedAs
    <2>2. /\ call'[c] = [kind |-> kind, pc |-> StartedAs(kind), address |-> a]
          /\ \A d \in Call \ {c} : call'[d] = call[d]
      BY StartFacts
    <2>3. call'[c].kind = kind /\ call'[c].pc = StartedAs(kind)
      BY <2>2
    <2> QED BY <2>1, <2>2, <2>3 DEF KindsFit
  <1>2. CASE Deliver
    <2> DEFINE u == Head(toForm)
    <2>1. PICK next \in {"option", "resetOption"}, last \in {None} \cup Kind : Take(u, next, last)
      BY <1>2, DeliverFacts
    <2>2. u \in Update
      BY <1>2, DeliverFacts
    <2> HIDE DEF u
    <2> SUFFICES ASSUME NEW c \in Call
                 PROVE  /\ call'[c].pc = "unused" => call'[c].kind # "points"
                        /\ call'[c].pc \in {"queued", "armed"} => call'[c].kind = "points"
                        /\ call'[c].pc = "pinging" => call'[c].kind \in Limited
                        /\ call'[c].pc = "updating" => call'[c].kind \in {"option", "resetOption", "point"}
      BY DEF KindsFit
    <2>0. call[c] \in [kind : Kind, pc : Pc, address : Address \cup {None}]
      BY DEF TypeOK
    <2>3. CASE c \in Addressed(u)
      <3>1. call'[c] = [call[c] EXCEPT !.kind = next]
        BY <2>1, <2>2, <2>3, TakeFacts
      <3>2. call[c].pc = "waiting"
        BY <2>3 DEF Addressed, Resolved
      <3> QED BY <2>0, <3>1, <3>2
    <2>4. CASE c \in Resolved(u) \ Addressed(u)
      <3>1. call'[c] = [call[c] EXCEPT !.pc =
                          IF call[c].kind \in {"option", "resetOption", "point"}
                          THEN "updating" ELSE "ended"]
        BY <2>1, <2>2, <2>4, TakeFacts
      <3> QED BY <2>0, <3>1
    <2>5. CASE c \notin Resolved(u)
      <3>1. call'[c] = Rearmed(c, u)
        BY <2>1, <2>2, <2>5, TakeFacts
      <3>2. CASE "points" \in ResolvedKinds(u) /\ Len(queue) > 1 /\ c = queue[2]
        <4>1. call[c].kind = "points"
          <5>1. 2 \in 1..Len(queue)
            BY <3>2 DEF TypeOK
          <5> QED BY <3>2, <5>1 DEF QueueFits
        <4> QED BY <2>0, <3>1, <3>2, <4>1 DEF Rearmed
      <3>3. CASE ~("points" \in ResolvedKinds(u) /\ Len(queue) > 1 /\ c = queue[2])
        BY <3>1, <3>3 DEF Rearmed, KindsFit
      <3> QED BY <3>2, <3>3
    <2> QED BY <2>3, <2>4, <2>5
  <1>3. CASE \E c \in Call : CallStep(c)
    <2> PICK c \in Call : CallStep(c) BY <1>3
    <2>1. Timeout(c) => call[c].kind \in Limited
      BY DEF Timeout
    <2>2. call \in [Call -> [kind : Kind, pc : Pc, address : Address \cup {None}]]
      BY DEF TypeOK
    <2>3. PICK pc \in {"waiting", "pinging", "ended"} :
            /\ call' = [call EXCEPT ![c].pc = pc]
            /\ pc = "pinging" => Timeout(c)
      BY CallStepFacts DEF CallStep
    <2> QED BY <2>1, <2>2, <2>3 DEF KindsFit
  <1>4. CASE EnterNewCoupon \/ (\E e \in asked : Answer(e)) \/ UNCHANGED vars
    BY <1>4 DEF EnterNewCoupon, Answer, vars, formVars, KindsFit
  <1> QED BY <1>1, <1>2, <1>3, <1>4, NextCases

\* If the fetches, the queue and its preloader are let alone, they go on to fit.
LEMMA QueueKept ==
  ASSUME TypeOK, QueueFits, UNCHANGED <<queue, counter>>, status'["points"] = status["points"],
         \A c \in Call : call[c].kind = "points" \/ call'[c].kind = "points" =>
            /\ call'[c].kind = call[c].kind
            /\ \/ call'[c].pc = call[c].pc
               \/ call[c].pc = "armed" /\ call'[c].pc = "waiting"
  PROVE  QueueFits'
  <1>1. \A i \in 1..Len(queue) : queue[i] \in Call
    BY DEF TypeOK
  <1>2. \A c \in Call : call[c] \in [kind : Kind, pc : Pc, address : Address \cup {None}]
    BY DEF TypeOK
  <1>3. \A c \in Undone("points")' : c \in Undone("points")
    <2> SUFFICES ASSUME NEW c \in Call, Live(c)', GroupOf(call'[c].kind) = "points"
                 PROVE  c \in Undone("points")
      BY DEF Undone
    <2>1. call'[c].kind = "points" \/ call[c].kind = "points"
      <3>1. CASE call'[c].kind = "points"
        BY <3>1
      <3>2. CASE call'[c].kind # "points"
        BY <3>2 DEF GroupOf
      <3> QED BY <3>1, <3>2
    <2> QED BY <2>1 DEF Undone, Live, GroupOf
  <1>4. \A i \in 1..Len(queue') :
          /\ call'[queue'[i]].kind = "points"
          /\ call'[queue'[i]].pc \in (IF i = 1 THEN {"armed", "waiting"} ELSE {"queued"})
    BY <1>1 DEF QueueFits
  <1> QED BY <1>3, <1>4 DEF QueueFits

\* A fetch takes the last place in the queue.
LEMMA FetchQueued ==
  ASSUME TypeOK, QueueFits, NEW c \in Call, NEW a, Start(c, "points", a),
         a \in Address \cup {None}, queue' = Append(queue, c), counter' = counter + 1
  PROVE  QueueFits'
  <1>0. /\ queue \in Seq(Call) /\ Len(queue) \in Nat
        /\ Len(queue') = Len(queue) + 1 /\ queue'[Len(queue) + 1] = c /\ queue' # <<>>
        /\ \A i \in 1..Len(queue) : queue'[i] = queue[i] /\ queue[i] \in Call
    <2>1. queue \in Seq(Call)
      BY DEF TypeOK
    <2> QED BY <2>1, AppendFacts
  <1>1. /\ call'[c] = [kind |-> "points", pc |-> StartedAs("points"), address |-> a]
        /\ \A d \in Call \ {c} : call'[d] = call[d]
        /\ ~Live(c)
    BY StartFacts DEF Kind
  <1>2. StartedAs("points") = IF queue = <<>> THEN "armed" ELSE "queued"
    BY DEF StartedAs
  <1>3. queue = <<>> <=> Len(queue) = 0
    BY <1>0
  <1>4. \A i \in 1..Len(queue) : queue[i] # c
    BY <1>0, <1>1 DEF QueueFits, Live
  <1>5. \A i \in 1..Len(queue') :
          /\ call'[queue'[i]].kind = "points"
          /\ call'[queue'[i]].pc \in (IF i = 1 THEN {"armed", "waiting"} ELSE {"queued"})
    <2> SUFFICES ASSUME NEW i \in 1..Len(queue')
                 PROVE  /\ call'[queue'[i]].kind = "points"
                        /\ call'[queue'[i]].pc \in (IF i = 1 THEN {"armed", "waiting"} ELSE {"queued"})
      OBVIOUS
    <2>1. CASE i = Len(queue) + 1
      BY <1>0, <1>1, <1>2, <1>3, <2>1
    <2>2. CASE i # Len(queue) + 1
      <3>1. i \in 1..Len(queue)
        BY <1>0, <2>2
      <3> QED BY <1>0, <1>1, <1>4, <3>1 DEF QueueFits
    <2> QED BY <2>1, <2>2
  <1>6. \A i, j \in 1..Len(queue') : queue'[i] = queue'[j] => i = j
    <2> SUFFICES ASSUME NEW i \in 1..Len(queue'), NEW j \in 1..Len(queue'), queue'[i] = queue'[j]
                 PROVE  i = j
      OBVIOUS
    <2>1. \A k \in 1..Len(queue') : k = Len(queue) + 1 \/ k \in 1..Len(queue)
      BY <1>0
    <2> QED BY <1>0, <1>4, <2>1 DEF QueueFits
  <1>7. \A d \in Undone("points")' : \E i \in 1..Len(queue') : queue'[i] = d
    <2> SUFFICES ASSUME NEW d \in Undone("points")'
                 PROVE  \E i \in 1..Len(queue') : queue'[i] = d
      OBVIOUS
    <2>1. CASE d = c
      <3>1. Len(queue) + 1 \in 1..Len(queue')
        BY <1>0
      <3> QED BY <1>0, <2>1, <3>1
    <2>2. CASE d # c
      <3>1. d \in Undone("points")
        BY <1>1, <2>2 DEF Undone, Live
      <3>2. PICK i \in 1..Len(queue) : queue[i] = d
        BY <3>1 DEF QueueFits
      <3>3. i \in 1..Len(queue')
        BY <1>0
      <3> QED BY <1>0, <3>2, <3>3
    <2> QED BY <2>1, <2>2
  <1>8. status'["points"] = "pending"
    <2>1. status' = With("points", "pending")
      BY DEF Start, GroupOf
    <2> QED BY <2>1, WithFacts DEF Group, Status
  <1>9. counter' = Len(queue')
    BY <1>0 DEF QueueFits
  <1> QED BY <1>0, <1>5, <1>6, <1>7, <1>8, <1>9 DEF QueueFits

\* The first fetch leaves the queue, and the next one takes its place.
LEMMA FetchTaken ==
  ASSUME TypeOK, QueueFits, NEW u \in Update, NEW next \in {"option", "resetOption"},
         NEW last, Take(u, next, last), "points" \in ResolvedKinds(u)
  PROVE  QueueFits'
  <1>0. /\ queue \in Seq(Call) /\ Len(queue) >= 1 /\ queue # <<>>
        /\ queue[1] \in Resolved(u) \ Addressed(u)
        /\ \A c \in Resolved(u) : call[c].kind = "points" => c = queue[1]
    BY TakenFetch DEF TypeOK
  <1>1. /\ queue' = Tail(queue) /\ counter' = counter - 1
        /\ Len(queue) \in Nat /\ Len(queue') = Len(queue) - 1
        /\ \A i \in 1..Len(queue') : queue'[i] = queue[i + 1] /\ i + 1 \in 1..Len(queue)
    BY <1>0, HeadTail DEF Take
  <1>2. \A i \in 1..Len(queue) : queue[i] \in Call
    BY <1>0
  <1>3. \A c \in Call : call[c] \in [kind : Kind, pc : Pc, address : Address \cup {None}]
    BY DEF TypeOK
  <1>4. \A i \in 2..Len(queue) :
          /\ call[queue[i]].pc = "queued" /\ call[queue[i]].kind = "points"
          /\ queue[i] \notin Resolved(u)
    <2> SUFFICES ASSUME NEW i \in 2..Len(queue)
                 PROVE  /\ call[queue[i]].pc = "queued" /\ call[queue[i]].kind = "points"
                        /\ queue[i] \notin Resolved(u)
      OBVIOUS
    <2>1. i \in 1..Len(queue) /\ i # 1
      BY <1>1
    <2>2. call[queue[i]].pc = "queued" /\ call[queue[i]].kind = "points"
      BY <2>1 DEF QueueFits
    <2> QED BY <2>2 DEF Resolved
  <1>5. \A i \in 1..Len(queue') :
          /\ call'[queue'[i]].kind = "points"
          /\ call'[queue'[i]].pc = IF i = 1 THEN "armed" ELSE "queued"
    <2> SUFFICES ASSUME NEW i \in 1..Len(queue')
                 PROVE  /\ call'[queue'[i]].kind = "points"
                        /\ call'[queue'[i]].pc = IF i = 1 THEN "armed" ELSE "queued"
      OBVIOUS
    <2>1. i + 1 \in 2..Len(queue) /\ queue'[i] = queue[i + 1] /\ queue[i + 1] \in Call
      BY <1>1, <1>2
    <2>2. call'[queue'[i]] = Rearmed(queue[i + 1], u)
      BY <1>4, <2>1, TakeFacts
    <2>3. queue[i + 1] = queue[2] <=> i = 1
      <3>1. 2 \in 1..Len(queue) /\ i + 1 \in 1..Len(queue)
        BY <1>1, <2>1
      <3> QED BY <3>1 DEF QueueFits
    <2>4. Len(queue) > 1
      BY <1>1
    <2> QED BY <1>3, <1>4, <2>1, <2>2, <2>3, <2>4 DEF Rearmed
  <1>6. \A i, j \in 1..Len(queue') : queue'[i] = queue'[j] => i = j
    BY <1>1 DEF QueueFits
  <1>7. \A d \in Undone("points")' : \E i \in 1..Len(queue') : queue'[i] = d
    <2> SUFFICES ASSUME NEW d \in Call, Live(d)', GroupOf(call'[d].kind) = "points"
                 PROVE  \E i \in 1..Len(queue') : queue'[i] = d
      BY DEF Undone
    <2>1. call'[d].kind = "points"
      <3>1. call'[d].kind \in Kind
        BY TakeFacts
      <3> QED BY <3>1, GroupFacts
    <2>2. d \notin Addressed(u)
      <3>1. d \in Addressed(u) => call'[d] = [call[d] EXCEPT !.kind = next]
        BY TakeFacts
      <3> QED BY <1>3, <2>1, <3>1
    <2>3. d \notin Resolved(u)
      <3> SUFFICES ASSUME d \in Resolved(u) PROVE FALSE
        OBVIOUS
      <3>1. call'[d] = [call[d] EXCEPT !.pc =
                          IF call[d].kind \in {"option", "resetOption", "point"}
                          THEN "updating" ELSE "ended"]
        BY <2>2, TakeFacts
      <3>2. call[d].kind = "points" /\ call'[d].pc = "ended"
        BY <1>3, <2>1, <3>1
      <3> QED BY <3>2 DEF Live
    <2>4. call'[d] = Rearmed(d, u)
      BY <2>3, TakeFacts
    <2>5. CASE Len(queue) > 1 /\ d = queue[2]
      <3>1. 1 \in 1..Len(queue') /\ queue'[1] = d
        BY <1>1, <2>5
      <3> QED BY <3>1
    <2>6. CASE ~(Len(queue) > 1 /\ d = queue[2])
      <3>1. call'[d] = call[d]
        BY <2>4, <2>6 DEF Rearmed
      <3>2. d \in Undone("points")
        BY <2>1, <3>1 DEF Undone, Live, GroupOf
      <3>3. PICK i \in 1..Len(queue) : queue[i] = d
        BY <3>2 DEF QueueFits
      <3>4. i # 1
        BY <1>0, <2>3, <3>3
      <3>5. i - 1 \in 1..Len(queue') /\ queue'[i - 1] = d
        BY <1>1, <3>3, <3>4
      <3> QED BY <3>5
    <2> QED BY <2>5, <2>6
  <1>8. status'["points"] = "pending" <=> queue' # <<>>
    <2>1. status'["points"] = PointsStatus
      BY DEF Take, StatusAfter, Group
    <2>2. status["points"] = "pending"
      BY <1>0 DEF QueueFits
    <2>3. queue' # <<>> <=> Len(queue') # 0
      <3>1. queue' \in Seq(Call)
        BY <1>0, <1>1, HeadTail
      <3>2. Len(queue') = 0 <=> queue' = <<>>
        BY <3>1, EmptySeq
      <3> QED BY <3>2
    <2> QED BY <1>1, <2>1, <2>2, <2>3 DEF PointsStatus, QueueFits
  <1>9. counter' = Len(queue')
    BY <1>1 DEF QueueFits
  <1> QED BY <1>5, <1>6, <1>7, <1>8, <1>9 DEF QueueFits

LEMMA QueueStep ==
  ASSUME TypeOK, KindsFit, QueueFits, [Next]_vars
  PROVE  QueueFits'
  <1>0. \A c \in Call : call[c] \in [kind : Kind, pc : Pc, address : Address \cup {None}]
    BY DEF TypeOK
  <1>1. CASE \E c \in Call : StartStep(c)
    <2> PICK c \in Call : StartStep(c) BY <1>1
    <2> PICK kind \in Kind, a \in Address \cup {None} :
           /\ Start(c, kind, a)
           /\ kind = "points" => queue' = Append(queue, c) /\ counter' = counter + 1
           /\ kind # "points" => UNCHANGED <<queue, counter>>
      BY StartStepFacts
    <2>1. CASE kind = "points"
      BY <2>1, FetchQueued
    <2>2. CASE kind # "points"
      <3>1. call[c].kind # "points"
        BY DEF Start, KindsFit
      <3>2. call'[c].kind = kind /\ \A d \in Call \ {c} : call'[d] = call[d]
        <4>1. /\ call'[c] = [kind |-> kind, pc |-> StartedAs(kind), address |-> a]
              /\ \A d \in Call \ {c} : call'[d] = call[d]
          BY StartFacts
        <4> QED BY <4>1
      <3>3. status'["points"] = status["points"]
        <4>1. GroupOf(kind) \in Group /\ GroupOf(kind) # "points"
          BY <2>2, GroupFacts
        <4> QED BY <4>1 DEF Start, With, Group
      <3> QED BY <2>2, <3>1, <3>2, <3>3, QueueKept
    <2> QED BY <2>1, <2>2
  <1>2. CASE EnterNewCoupon
    <2>1. status'["points"] = status["points"]
      BY <1>2 DEF EnterNewCoupon, With, Group
    <2> QED BY <1>2, <2>1, QueueKept DEF EnterNewCoupon
  <1>3. CASE (\E e \in asked : Answer(e)) \/ UNCHANGED vars
    BY <1>3, QueueKept DEF Answer, vars, formVars
  <1>4. CASE Deliver
    <2> DEFINE u == Head(toForm)
    <2>1. PICK next \in {"option", "resetOption"}, last \in {None} \cup Kind : Take(u, next, last)
      BY <1>4, DeliverFacts
    <2>2. u \in Update
      BY <1>4, DeliverFacts
    <2> HIDE DEF u
    <2>3. CASE "points" \in ResolvedKinds(u)
      BY <2>1, <2>2, <2>3, FetchTaken
    <2>4. CASE "points" \notin ResolvedKinds(u)
      <3>0. /\ \A c \in Addressed(u) : call'[c] = [call[c] EXCEPT !.kind = next]
            /\ \A c \in Resolved(u) \ Addressed(u) :
                 call'[c] = [call[c] EXCEPT !.pc =
                               IF call[c].kind \in {"option", "resetOption", "point"}
                               THEN "updating" ELSE "ended"]
            /\ \A c \in Call \ Resolved(u) : call'[c] = Rearmed(c, u)
        BY <2>1, <2>2, TakeFacts
      <3>1. \A c \in Resolved(u) : call[c].kind # "points"
        BY <2>4 DEF ResolvedKinds
      <3>2. \A c \in Call \ Resolved(u) : call'[c] = call[c]
        BY <2>4, <3>0 DEF Rearmed
      <3>3. \A c \in Resolved(u) : call'[c].kind # "points"
        <4> SUFFICES ASSUME NEW c \in Resolved(u) PROVE call'[c].kind # "points"
          OBVIOUS
        <4>0. call[c] \in [kind : Kind, pc : Pc, address : Address \cup {None}]
          BY <1>0 DEF Resolved
        <4>1. CASE c \in Addressed(u)
          <5>1. call'[c] = [call[c] EXCEPT !.kind = next]
            BY <3>0, <4>1
          <5> QED BY <4>0, <5>1
        <4>2. CASE c \notin Addressed(u)
          <5>1. call'[c] = [call[c] EXCEPT !.pc =
                              IF call[c].kind \in {"option", "resetOption", "point"}
                              THEN "updating" ELSE "ended"]
            BY <3>0, <4>2
          <5> QED BY <3>1, <4>0, <5>1
        <4> QED BY <4>1, <4>2
      <3>4. UNCHANGED <<queue, counter>> /\ status'["points"] = status["points"]
        BY <2>1, <2>4 DEF Take, StatusAfter, Group
      <3> QED BY <3>1, <3>2, <3>3, <3>4, QueueKept
    <2> QED BY <2>3, <2>4
  <1>5. CASE \E c \in Call : CallStep(c)
    <2> PICK c \in Call : CallStep(c) BY <1>5
    <2>1. PICK pc \in {"waiting", "pinging", "ended"} :
            /\ call' = [call EXCEPT ![c].pc = pc]
            /\ Arm(c) => pc = "waiting"
      BY CallStepFacts
    <2>2. UNCHANGED <<queue, counter>>
      BY CallStepFacts
    <2>3. \A d \in Call : call'[d].kind = call[d].kind /\ (d # c => call'[d] = call[d])
      BY <1>0, <2>1 DEF TypeOK
    <2>4. CASE Arm(c)
      <3>1. call[c].pc = "armed" /\ call'[c].pc = "waiting" /\ UNCHANGED status
        BY <1>0, <2>1, <2>4 DEF Arm, TypeOK
      <3> QED BY <2>2, <2>3, <3>1, QueueKept
    <2>5. CASE ~Arm(c)
      <3>1. call[c].kind # "points"
        BY <2>5 DEF CallStep, Timeout, Pinged, Updated, KindsFit, Limited
      <3>2. status'["points"] = status["points"]
        <4>1. GroupOf(call[c].kind) # "points"
          BY <1>0, <3>1, GroupFacts
        <4> QED BY <2>5, <4>1 DEF CallStep, Timeout, Pinged, PingedStatus, Updated, With, Group
      <3> QED BY <2>2, <2>3, <3>1, <3>2, QueueKept
    <2> QED BY <2>4, <2>5
  <1> QED BY <1>1, <1>2, <1>3, <1>4, <1>5, NextCases

-----------------------------------------------------------------------------
(* Preloaders and answers.                                                 *)

\* The parts of the store that are not of the points.
LEMMA OtherPreloaders ==
  ASSUME TypeOK, KindsFit, QueueFits, PreloadersHaveCalls, [Next]_vars,
         NEW g \in Group \ {"points"}, status'[g] = "pending"
  PROVE  \E c \in Call : Live(c)' /\ GroupOf(call'[c].kind) = g
  <1>0. \A c \in Call : call[c] \in [kind : Kind, pc : Pc, address : Address \cup {None}]
    BY DEF TypeOK
  <1>7. status'[g] = "pending"
    OBVIOUS
  <1>1. status[g] = "pending" => \E c \in Call : Live(c) /\ GroupOf(call[c].kind) = g
    BY DEF PreloadersHaveCalls, Undone
  <1>2. CASE \E c \in Call : StartStep(c)
    <2> PICK c \in Call : StartStep(c) BY <1>2
    <2> PICK kind \in Kind, a \in Address \cup {None} : Start(c, kind, a)
      BY StartStepFacts
    <2>1. /\ call'[c] = [kind |-> kind, pc |-> StartedAs(kind), address |-> a]
          /\ \A d \in Call \ {c} : call'[d] = call[d]
          /\ ~Live(c)
      BY StartFacts
    <2>2. CASE g = GroupOf(kind)
      BY <2>1, <2>2 DEF Live, StartedAs
    <2>3. CASE g # GroupOf(kind)
      <3>1. status[g] = "pending"
        BY <2>3 DEF Start, With
      <3> QED BY <1>1, <2>1, <3>1 DEF Live
    <2> QED BY <2>2, <2>3
  <1>3. CASE EnterNewCoupon
    BY <1>1, <1>3 DEF EnterNewCoupon, With, Live
  <1>4. CASE (\E e \in asked : Answer(e)) \/ UNCHANGED vars
    BY <1>1, <1>4 DEF Answer, vars, formVars, Live
  <1>5. CASE Deliver
    <2> DEFINE u == Head(toForm)
    <2>1. PICK next \in {"option", "resetOption"}, last \in {None} \cup Kind :
            /\ last \in (IF About(u) = {} THEN {None} ELSE About(u))
            /\ Take(u, next, last)
      BY <1>5, DeliverFacts
    <2>2. u \in Update
      BY <1>5, DeliverFacts
    <2> HIDE DEF u
    <2>3. status'[g] = StatusAfter(u, last)[g]
      BY <2>1 DEF Take
    <2>4. CASE g = "option" /\ Addressed(u) # {}
      <3>1. PICK c \in Addressed(u) : TRUE
        BY <2>4
      <3>2. call'[c] = [call[c] EXCEPT !.kind = next] /\ call[c].pc = "waiting" /\ c \in Call
        BY <2>1, <2>2, TakeFacts DEF Addressed, Resolved
      <3> QED BY <1>0, <2>4, <3>2 DEF Live, GroupOf
    <2>5. CASE ~(g = "option" /\ Addressed(u) # {})
      <3>1. /\ status[g] = "pending"
            /\ g = "list" => Addressed(u) = {}
            /\ g \in {"coupon", "removal"} => About(u) = {}
        <4>1. last # None => g \notin {"coupon", "removal"}
          BY <1>7, <2>3 DEF StatusAfter
        <4>2. About(u) # {} => last # None
          BY <2>1, CallsAssumption DEF About
        <4>3. g = "list" => Addressed(u) = {}
          BY <1>7, <2>3 DEF StatusAfter
        <4>4. status[g] = "pending"
          BY <1>7, <2>3, <2>5, <4>1, <4>3 DEF StatusAfter
        <4> QED BY <4>1, <4>2, <4>3, <4>4
      <3>2. PICK c \in Call : Live(c) /\ GroupOf(call[c].kind) = g
        BY <1>1, <3>1
      <3>3. c \notin Addressed(u)
        BY <3>1, <3>2 DEF Addressed, GroupOf
      <3>4. c \in Resolved(u) => call[c].kind \in {"option", "resetOption", "point"}
        <4> SUFFICES ASSUME c \in Resolved(u), call[c].kind \notin {"option", "resetOption", "point"}
                     PROVE  FALSE
          OBVIOUS
        <4>1. call[c].kind \in ResolvedKinds(u) /\ call[c].kind \in Kind
          BY <1>0 DEF ResolvedKinds
        <4>2. call[c].kind \in {"coupon", "removeCoupon"}
          BY <3>2, <3>3, <4>1, GroupFacts DEF Kind, OrderKind, Addressed
        <4> QED BY <3>1, <3>2, <4>1, <4>2 DEF About, GroupOf
      <3>5. CASE c \in Resolved(u)
        <4>1. call'[c] = [call[c] EXCEPT !.pc = "updating"]
          BY <2>1, <2>2, <3>3, <3>4, <3>5, TakeFacts
        <4> QED BY <1>0, <3>2, <4>1 DEF Live
      <3>6. CASE c \notin Resolved(u)
        <4>1. call'[c] = Rearmed(c, u)
          BY <2>1, <2>2, <3>6, TakeFacts
        <4> QED BY <1>0, <3>2, <4>1 DEF Live, Rearmed
      <3> QED BY <3>5, <3>6
    <2> QED BY <2>4, <2>5
  <1>6. CASE \E c \in Call : CallStep(c)
    <2> PICK c \in Call : CallStep(c) BY <1>6
    <2>1. PICK pc \in {"waiting", "pinging", "ended"} :
            /\ call' = [call EXCEPT ![c].pc = pc]
            /\ Pinged(c) \/ Updated(c) => pc = "ended"
            /\ Arm(c) => pc = "waiting"
            /\ Timeout(c) => pc = "pinging"
      BY CallStepFacts
    <2>2. \A d \in Call : call'[d].kind = call[d].kind /\ (d # c => call'[d] = call[d])
      BY <1>0, <2>1 DEF TypeOK
    <2>3. CASE Pinged(c) \/ Updated(c)
      <3>1. status[g] = "pending" /\ g # GroupOf(call[c].kind)
        BY <2>3 DEF Pinged, PingedStatus, Updated, With
      <3> QED BY <1>1, <2>2, <3>1 DEF Live
    <2>4. CASE Arm(c) \/ Timeout(c)
      <3>1. call'[c].pc \in {"waiting", "pinging"} /\ status[g] = "pending"
        BY <1>0, <2>1, <2>4 DEF Arm, Timeout, TypeOK
      <3> QED BY <1>1, <2>2, <3>1 DEF Live
    <2> QED BY <2>3, <2>4 DEF CallStep
  <1> QED BY <1>2, <1>3, <1>4, <1>5, <1>6, NextCases

LEMMA PreloadersStep ==
  ASSUME TypeOK, KindsFit, QueueFits, PreloadersHaveCalls, [Next]_vars, TypeOK', QueueFits'
  PROVE  PreloadersHaveCalls'
  <1>1. ASSUME NEW g \in Group, status'[g] = "pending" PROVE Undone(g)' # {}
    <2>1. CASE g # "points"
      BY <1>1, <2>1, OtherPreloaders DEF Undone
    <2>2. CASE g = "points"
      <3>1. queue' # <<>> /\ queue' \in Seq(Call)
        BY <1>1, <2>2 DEF QueueFits, TypeOK
      <3>2. 1 \in 1..Len(queue') /\ queue'[1] \in Call
        BY <3>1, HeadTail
      <3>3. queue'[1] \in Undone("points")'
        BY <3>2 DEF QueueFits, Undone, Live, GroupOf
      <3> QED BY <2>2, <3>3
    <2> QED BY <2>1, <2>2
  <1>2. ASSUME Undone("points")' # {} PROVE status'["points"] = "pending"
    <2>1. PICK i \in 1..Len(queue') : TRUE
      BY <1>2 DEF QueueFits
    <2>2. queue' # <<>>
      BY <2>1
    <2> QED BY <2>2 DEF QueueFits
  <1> QED BY <1>1, <1>2 DEF PreloadersHaveCalls

LEMMA AnswersStep ==
  ASSUME TypeOK, AnswersFit, [Next]_vars
  PROVE  AnswersFit'
  <1>0. toForm \in Seq(Update)
    BY DEF TypeOK
  <1>1. CASE \E e \in asked : Answer(e)
    <2> PICK e \in asked : Answer(e) BY <1>1
    <2>1. PICK has \in Answers(e.kind) : toForm' = Append(toForm, [re |-> e, has |-> has])
      BY DEF Answer
    <2>2. [re |-> e, has |-> has] \in Update
      BY <2>1, AnswerFacts DEF TypeOK, Update, Event
    <2>3. /\ Len(toForm') = Len(toForm) + 1 /\ Len(toForm) \in Nat
          /\ toForm'[Len(toForm) + 1] = [re |-> e, has |-> has]
          /\ \A i \in 1..Len(toForm) : toForm'[i] = toForm[i]
      BY <1>0, <2>1, <2>2, AppendFacts
    <2> SUFFICES ASSUME NEW i \in 1..Len(toForm')
                 PROVE  toForm'[i].has \in Answers(toForm'[i].re.kind)
      BY DEF AnswersFit
    <2>4. CASE i = Len(toForm) + 1
      BY <2>1, <2>3, <2>4
    <2>5. CASE i # Len(toForm) + 1
      <3>1. i \in 1..Len(toForm)
        BY <2>3, <2>5
      <3> QED BY <2>3, <3>1 DEF AnswersFit
    <2> QED BY <2>4, <2>5
  <1>2. CASE Deliver
    <2>1. toForm # <<>> /\ toForm' = Tail(toForm)
      BY <1>2 DEF Deliver
    <2> QED BY <1>0, <2>1, HeadTail DEF AnswersFit
  <1>3. CASE UNCHANGED toForm
    BY <1>3 DEF AnswersFit
  <1>4. (\E e \in asked : Answer(e)) \/ Deliver \/ UNCHANGED toForm
    <2>1. ASSUME NEW c \in Call, StartStep(c) PROVE UNCHANGED toForm
      BY <2>1, StartStepFacts DEF Start
    <2>2. ASSUME NEW c \in Call, CallStep(c) PROVE UNCHANGED toForm
      BY <2>2, CallStepFacts
    <2> QED BY <2>1, <2>2, NextCases DEF EnterNewCoupon, vars
  <1> QED BY <1>1, <1>2, <1>3, <1>4

-----------------------------------------------------------------------------
(* Calls in turn.                                                          *)

Turns == InTurn /\ OrdersFit /\ ListFits

\* An event or an Update about a call other than a fetch belongs to a call that is
\* under way, and an order is about such a call.
LEMMA TurnFacts ==
  ASSUME TypeOK, AnswersFit, InTurn
  PROVE  /\ \A e \in asked : e.kind # "points" => e.call \in Call /\ Direct(e.call)
         /\ \A i \in 1..Len(toForm) :
              /\ toForm[i] \in Update
              /\ toForm[i].re.kind # "points" =>
                   toForm[i].re.call \in Call /\ Direct(toForm[i].re.call)
              /\ "order" \in toForm[i].has => toForm[i].re.kind # "points"
  <1>1. ASSUME NEW e \in Event, e.kind # "points", Awaits(e.call, e)
        PROVE  e.call \in Call /\ Direct(e.call)
    BY <1>1 DEF Event, Awaits, Direct, Live
  <1>2. ASSUME NEW i \in 1..Len(toForm)
        PROVE  /\ toForm[i] \in Update /\ toForm[i].re \in Event
               /\ toForm[i].re.kind \in Kind
    <2>1. toForm \in Seq(Update)
      BY DEF TypeOK
    <2>2. toForm[i] \in Update
      BY <2>1
    <2> QED BY <2>2 DEF Update, Event
  <1>3. \A e \in asked : e \in Event
    BY DEF TypeOK
  <1>4. ASSUME NEW i \in 1..Len(toForm), "order" \in toForm[i].has
        PROVE  toForm[i].re.kind # "points"
    BY <1>2, <1>4, AnswerFacts DEF AnswersFit
  <1> QED BY <1>1, <1>2, <1>3, <1>4 DEF InTurn

\* Steps that leave the calls in turn alone: of a fetch, or the end of a call.
LEMMA LetAlone ==
  ASSUME TypeOK, AnswersFit, Turns,
         UNCHANGED <<toForm, shown, sdkOrder, listOf, selected>>,
         \A e \in asked' : e \in asked \/ e.kind = "points",
         status'["list"] = "success" => status["list"] = "success",
         \A c \in Call : call[c].pc = "waiting" /\ call[c].kind # "points" => call'[c] = call[c],
         \A c \in Call : call'[c].pc = "waiting" /\ call'[c].kind = "address" => call'[c] = call[c],
         \A c \in Call : Direct(c)' => Direct(c)
  PROVE  Turns'
  <1>1. \A e \in Event : Awaits(e.call, e) /\ e.kind # "points" => Awaits(e.call, e)'
    BY DEF Awaits, Event
  <1>2. \A e \in asked : e \in Event
    BY DEF TypeOK
  <1>3. \A i \in 1..Len(toForm) : toForm[i].re \in Event
    BY TurnFacts DEF Turns, Update
  <1>4. InTurn'
    BY <1>1, <1>2, <1>3 DEF Turns, InTurn
  <1>5. OrdersFit'
    BY DEF Turns, OrdersFit
  <1>6. ListFits'
    BY DEF Turns, ListFits
  <1> QED BY <1>4, <1>5, <1>6 DEF Turns

\* A call that is started in turn is the only one under way.
LEMMA StartTurn ==
  ASSUME TypeOK, AnswersFit, Turns, NEW c \in Call, StartStep(c), ~disturbed'
  PROVE  Turns'
  <1>0. \A d \in Call : call[d] \in [kind : Kind, pc : Pc, address : Address \cup {None}]
    BY DEF TypeOK
  <1> PICK kind \in Kind, a \in Address \cup {None} :
         /\ Start(c, kind, a)
         /\ kind = "address" => selected' = a /\ a \in Address
         /\ kind # "address" => UNCHANGED selected
    BY StartStepFacts
  <1>1. /\ call'[c] = [kind |-> kind, pc |-> StartedAs(kind), address |-> a]
        /\ \A d \in Call \ {c} : call'[d] = call[d]
        /\ ~Live(c)
    BY StartFacts
  <1>2. call'[c].kind = kind /\ call'[c].pc = StartedAs(kind) /\ call'[c].address = a
    BY <1>1
  <1>3. /\ asked' = asked \cup {[call |-> c, kind |-> kind]}
        /\ status' = With(GroupOf(kind), "pending")
        /\ UNCHANGED <<toForm, listOf, coupon, shown, sdkOrder>>
        /\ kind # "points" => \A d \in Call : ~Direct(d)
    BY DEF Start, Direct
  <1>4. status'["list"] = IF kind = "address" THEN "pending" ELSE status["list"]
    BY <1>3, GroupFacts DEF With, Group
  <1>5. CASE kind = "points"
    <2>1. \A e \in asked' : e \in asked \/ e.kind = "points"
      BY <1>3, <1>5
    <2>2. \A d \in Call : call[d].pc = "waiting" => call'[d] = call[d]
      BY <1>1 DEF Live
    <2>3. \A d \in Call : call'[d].kind # "points" => call'[d] = call[d]
      BY <1>1, <1>2, <1>5
    <2>4. \A d \in Call : Direct(d)' => Direct(d)
      BY <2>3 DEF Direct, Live
    <2>5. UNCHANGED <<toForm, shown, sdkOrder, listOf, selected>>
      BY <1>3, <1>5
    <2> QED BY <1>4, <2>1, <2>2, <2>3, <2>4, <2>5, LetAlone
  <1>6. CASE kind # "points"
    <2>1. \A d \in Call \ {c} : ~Direct(d)' /\ ~Direct(d)
      BY <1>1, <1>3, <1>6 DEF Direct, Live
    <2>2. \A e \in asked : e.kind = "points"
      BY <1>3, <1>6, TurnFacts DEF Turns
    <2>3. \A i \in 1..Len(toForm) : toForm[i].re.kind = "points" /\ "order" \notin toForm[i].has
      BY <1>3, <1>6, TurnFacts DEF Turns
    <2>4. Awaits(c, [call |-> c, kind |-> kind])'
      BY <1>2, <1>6 DEF Awaits, StartedAs
    <2>5. InTurn'
      <3>1. \A e \in asked' : e.kind # "points" => Awaits(e.call, e)'
        BY <1>3, <2>2, <2>4
      <3> QED BY <1>3, <2>1, <2>3, <3>1 DEF InTurn
    <2>6. shown = sdkOrder
      <3> SUFFICES ASSUME shown # sdkOrder PROVE FALSE
        OBVIOUS
      <3>1. PICK d \in Call : call[d].pc = "waiting" /\ call[d].kind # "points"
        BY DEF Turns, OrdersFit
      <3> QED BY <1>3, <1>6, <3>1 DEF Direct, Live
    <2>7. OrdersFit'
      BY <1>3, <2>3, <2>6 DEF OrdersFit
    <2>8. ListFits'
      <3>1. status'["list"] = "success" => listOf' = selected'
        BY <1>3, <1>4 DEF Turns, ListFits
      <3>2. ASSUME NEW d \in Call, call'[d].kind = "address", call'[d].pc = "waiting"
            PROVE  call'[d].address = selected'
        <4>1. d = c
          BY <2>1, <3>2 DEF Direct, Live
        <4> QED BY <1>2, <3>2, <4>1
      <3> QED BY <3>1, <3>2 DEF ListFits
    <2> QED BY <2>5, <2>7, <2>8 DEF Turns
  <1> QED BY <1>5, <1>6

\* A step of one call ends it, times it out or starts a fetch.
LEMMA CallTurn ==
  ASSUME TypeOK, KindsFit, AnswersFit, Turns, NEW c \in Call, CallStep(c), ~disturbed'
  PROVE  Turns'
  <1>0. \A d \in Call : call[d] \in [kind : Kind, pc : Pc, address : Address \cup {None}]
    BY DEF TypeOK
  <1>1. PICK pc \in {"waiting", "pinging", "ended"} :
          /\ call' = [call EXCEPT ![c].pc = pc]
          /\ Pinged(c) \/ Updated(c) => pc = "ended"
          /\ Arm(c) => pc = "waiting"
    BY CallStepFacts
  <1>2. UNCHANGED <<queue, counter, selected, listOf, coupon, shown, asked, toForm, sdkOrder>>
    BY CallStepFacts
  <1>3. /\ call'[c].kind = call[c].kind /\ call'[c].pc = pc
        /\ \A d \in Call \ {c} : call'[d] = call[d]
    BY <1>0, <1>1 DEF TypeOK
  <1>4. ~Timeout(c)
    BY DEF Timeout
  <1>5. status'["list"] = "success" => status["list"] = "success"
    <2>1. CASE Arm(c)
      BY <2>1 DEF Arm
    <2>2. CASE Pinged(c)
      BY <2>2 DEF Pinged, PingedStatus, With, Group
    <2>3. CASE Updated(c)
      <3>1. GroupOf(call[c].kind) # "list"
        BY <2>3 DEF Updated, KindsFit, GroupOf
      <3> QED BY <2>3, <3>1 DEF Updated, With, Group
    <2> QED BY <1>4, <2>1, <2>2, <2>3 DEF CallStep
  <1>6. call[c].pc # "waiting"
    BY <1>4 DEF CallStep, Arm, Pinged, Updated
  <1>7. call[c].kind = "points" \/ pc = "ended"
    BY <1>1, <1>4 DEF CallStep, Arm, KindsFit
  <1>8. \A d \in Call : Direct(d)' => Direct(d)
    BY <1>3, <1>7 DEF Direct, Live
  <1>9. \A d \in Call : call'[d].pc = "waiting" /\ call'[d].kind = "address" => call'[d] = call[d]
    BY <1>3, <1>7
  <1>10. \A d \in Call : call[d].pc = "waiting" => call'[d] = call[d]
    BY <1>3, <1>6
  <1> QED BY <1>2, <1>5, <1>8, <1>9, <1>10, LetAlone

\* The merchant's answer takes the place of the event; its order becomes that of
\* the SDK before it is that of the form.
LEMMA AnswerTurn ==
  ASSUME TypeOK, AnswersFit, Turns, NEW e \in asked, Answer(e)
  PROVE  Turns'
  <1>0. e \in Event /\ e.kind \in Kind /\ toForm \in Seq(Update)
    BY DEF TypeOK, Event
  <1>1. PICK has \in Answers(e.kind) :
          /\ toForm' = Append(toForm, [re |-> e, has |-> has])
          /\ sdkOrder' = IF "order" \in has THEN e ELSE sdkOrder
    BY DEF Answer
  <1>2. asked' = asked \ {e} /\ UNCHANGED <<call, status, selected, listOf, shown>>
    BY DEF Answer, formVars
  <1>3. [re |-> e, has |-> has] \in Update
    BY <1>0, AnswerFacts DEF Update
  <1>4. /\ Len(toForm') = Len(toForm) + 1 /\ Len(toForm) \in Nat
        /\ toForm'[Len(toForm) + 1] = [re |-> e, has |-> has]
        /\ \A i \in 1..Len(toForm) : toForm'[i] = toForm[i]
    BY <1>0, <1>1, <1>3, AppendFacts
  <1>5. \A i \in 1..Len(toForm') : i = Len(toForm) + 1 \/ i \in 1..Len(toForm)
    BY <1>4
  <1>6. e.kind = "points" => "order" \notin has
    BY <1>0, AnswerFacts
  <1>7. \A f \in Event : Awaits(f.call, f)' <=> Awaits(f.call, f)
    BY <1>2 DEF Awaits
  <1>8. \A d \in Call : Direct(d)' <=> Direct(d)
    BY <1>2 DEF Direct, Live
  <1>9. ListFits'
    BY <1>2 DEF Turns, ListFits
  <1>10. CASE e.kind = "points"
    <2>1. InTurn'
      <3>1. \A f \in asked' : f.kind # "points" => Awaits(f.call, f)'
        BY <1>2 DEF Turns, InTurn, Awaits
      <3>2. ASSUME NEW i \in 1..Len(toForm'), toForm'[i].re.kind # "points"
            PROVE  /\ i \in 1..Len(toForm) /\ toForm'[i] = toForm[i]
        BY <1>4, <1>5, <1>10, <3>2
      <3>3. ASSUME NEW i \in 1..Len(toForm'), toForm'[i].re.kind # "points"
            PROVE  /\ Awaits(toForm[i].re.call, toForm[i].re)'
                   /\ \A j \in 1..Len(toForm') : toForm'[j].re.kind # "points" => i = j
                   /\ \A f \in asked' : f.kind = "points"
        BY <1>2, <3>2, <3>3 DEF Turns, InTurn, Awaits
      <3> QED BY <1>8, <3>1, <3>3 DEF Turns, InTurn
    <2>2. OrdersFit'
      <3>1. UNCHANGED sdkOrder
        BY <1>1, <1>6, <1>10
      <3>2. \A i \in 1..Len(toForm') : "order" \in toForm'[i].has =>
              i \in 1..Len(toForm) /\ toForm'[i] = toForm[i]
        BY <1>4, <1>5, <1>6, <1>10
      <3>3. \A i \in 1..Len(toForm) : i \in 1..Len(toForm') /\ toForm'[i] = toForm[i]
        BY <1>4
      <3> QED BY <1>2, <3>1, <3>2, <3>3 DEF Turns, OrdersFit
    <2> QED BY <1>9, <2>1, <2>2 DEF Turns
  <1>11. CASE e.kind # "points"
    <2>1. Awaits(e.call, e) /\ Direct(e.call) /\ e.call \in Call
      BY <1>11, TurnFacts DEF Turns, InTurn
    <2>2. \A i \in 1..Len(toForm) : toForm[i].re.kind = "points" /\ "order" \notin toForm[i].has
      BY <1>11, TurnFacts DEF Turns, InTurn
    <2>3. \A f \in asked' : f.kind = "points"
      <3> SUFFICES ASSUME NEW f \in asked', f.kind # "points" PROVE FALSE
        OBVIOUS
      <3>1. f \in asked /\ f # e
        BY <1>2
      <3>2. Awaits(f.call, f) /\ Direct(f.call) /\ f.call \in Call
        BY <3>1, TurnFacts DEF Turns, InTurn
      <3>3. f.call = e.call
        BY <2>1, <3>2 DEF Turns, InTurn
      <3> QED BY <2>1, <3>1, <3>2, <3>3 DEF Awaits
    <2>4. InTurn'
      <3>1. \A i \in 1..Len(toForm') : toForm'[i].re.kind # "points" => i = Len(toForm) + 1
        BY <1>4, <1>5, <2>2
      <3>2. PICK n \in Nat : n = Len(toForm) + 1
        BY <1>4
      <3>3. Awaits(toForm[n].re.call, toForm[n].re)'
        BY <1>2, <1>4, <2>1, <3>2 DEF Awaits
      <3> QED BY <1>8, <2>3, <3>1, <3>2, <3>3 DEF Turns, InTurn
    <2>5. OrdersFit'
      <3>1. \A i \in 1..Len(toForm') : "order" \in toForm'[i].has => sdkOrder' = toForm'[i].re
        BY <1>1, <1>4, <1>5, <2>2
      <3>2. ASSUME shown' # sdkOrder'
            PROVE  \E c \in Call :
                     /\ call'[c].pc = "waiting" /\ call'[c].kind # "points"
                     /\ call'[c].kind = "coupon" =>
                          \E i \in 1..Len(toForm') :
                            toForm'[i].re.call = c /\ "order" \in toForm'[i].has
        <4>1. CASE "order" \in has
          <5>1. Len(toForm) + 1 \in 1..Len(toForm')
            BY <1>4
          <5> QED BY <1>2, <1>4, <2>1, <4>1, <5>1 DEF Awaits, Direct
        <4>2. CASE "order" \notin has
          <5>1. shown # sdkOrder
            BY <1>1, <1>2, <3>2, <4>2
          <5>2. \A i \in 1..Len(toForm) : i \in 1..Len(toForm') /\ toForm'[i] = toForm[i]
            BY <1>4
          <5> QED BY <1>2, <5>1, <5>2 DEF Turns, OrdersFit
        <4> QED BY <4>1, <4>2
      <3> QED BY <3>1, <3>2 DEF OrdersFit
    <2> QED BY <1>9, <2>4, <2>5 DEF Turns
  <1> QED BY <1>10, <1>11

\* An Update with points is for fetches only.
LEMMA PointsTurn ==
  ASSUME TypeOK, QueueFits, AnswersFit, Turns, NEW u \in Update, u = Head(toForm),
         toForm # <<>>, toForm' = Tail(toForm), UNCHANGED <<selected, sdkOrder>>,
         NEW next \in {"option", "resetOption"}, NEW last \in {None} \cup Kind,
         Take(u, next, last), u.re.kind = "points"
  PROVE  Turns'
  <1>0. \A c \in Call : call[c] \in [kind : Kind, pc : Pc, address : Address \cup {None}]
    BY DEF TypeOK
  <1>1. /\ Len(toForm) >= 1 /\ Len(toForm') = Len(toForm) - 1 /\ u = toForm[1]
        /\ \A i \in 1..Len(toForm') : toForm'[i] = toForm[i + 1] /\ i + 1 \in 1..Len(toForm)
        /\ Len(toForm) \in Nat
    BY HeadTail DEF TypeOK
  <1>2. u.has \in Answers("points")
    BY <1>1 DEF AnswersFit
  <1>3. "order" \notin u.has /\ \A k \in Kind : Hears(k, u.has) => k = "points"
    BY <1>2, AnswerFacts DEF Kind
  <1>4. \A c \in Resolved(u) : call[c].kind = "points"
    BY <1>0, <1>3 DEF Resolved
  <1>5. Addressed(u) = {}
    BY <1>4 DEF Addressed
  <1>6. /\ UNCHANGED <<asked, listOf, shown>>
        /\ status'["list"] = status["list"]
    BY <1>3, <1>5 DEF Take, ShownAfter, StatusAfter, Group
  <1>7. ASSUME NEW c \in Call
        PROVE  /\ call'[c].kind = call[c].kind
               /\ call[c].kind # "points" => call'[c] = call[c]
    <2>1. CASE c \in Resolved(u)
      <3>1. call'[c] = [call[c] EXCEPT !.pc = "ended"]
        BY <1>4, <1>5, <2>1, TakeFacts
      <3> QED BY <1>0, <1>4, <2>1, <3>1
    <2>2. CASE c \notin Resolved(u)
      <3>1. call'[c] = Rearmed(c, u)
        BY <2>2, TakeFacts
      <3>2. Len(queue) > 1 => call[queue[2]].kind = "points"
        <4> SUFFICES ASSUME Len(queue) > 1 PROVE call[queue[2]].kind = "points"
          OBVIOUS
        <4>1. 2 \in 1..Len(queue)
          BY DEF TypeOK
        <4> QED BY <4>1 DEF QueueFits
      <3> QED BY <1>0, <3>1, <3>2 DEF Rearmed
    <2> QED BY <2>1, <2>2
  <1>8. \A c \in Call : Direct(c)' <=> Direct(c)
    BY <1>7 DEF Direct, Live
  <1>9. \A e \in Event : Awaits(e.call, e) /\ e.kind # "points" => Awaits(e.call, e)'
    BY <1>7 DEF Awaits, Event
  <1>10. InTurn'
    <2>1. \A e \in asked' : e.kind # "points" => Awaits(e.call, e)'
      BY <1>6, <1>9 DEF TypeOK, Turns, InTurn
    <2>2. ASSUME NEW i \in 1..Len(toForm'), toForm'[i].re.kind # "points"
          PROVE  /\ Awaits(toForm[i + 1].re.call, toForm[i + 1].re)
                 /\ \A j \in 1..Len(toForm') : toForm'[j].re.kind # "points" => i = j
                 /\ \A e \in asked' : e.kind = "points"
      <3>1. Awaits(toForm[i + 1].re.call, toForm[i + 1].re)
        BY <1>1, <2>2 DEF Turns, InTurn
      <3>2. ASSUME NEW j \in 1..Len(toForm'), toForm'[j].re.kind # "points" PROVE i = j
        <4>1. i + 1 = j + 1
          BY <1>1, <2>2, <3>2 DEF Turns, InTurn
        <4> QED BY <4>1
      <3>3. \A e \in asked' : e.kind = "points"
        BY <1>1, <1>6, <2>2 DEF Turns, InTurn
      <3> QED BY <3>1, <3>2, <3>3
    <2>3. ASSUME NEW i \in 1..Len(toForm'), toForm'[i].re.kind # "points"
          PROVE  Awaits(toForm[i].re.call, toForm[i].re)'
      <3>1. PICK e \in Event : e = toForm'[i].re
        BY <1>1, TurnFacts DEF Turns, Update
      <3>2. Awaits(e.call, e) /\ e.kind # "points"
        BY <1>1, <2>2, <2>3, <3>1
      <3>3. Awaits(e.call, e)'
        BY <1>9, <3>2
      <3> QED BY <3>1, <3>3 DEF Awaits
    <2> QED BY <1>8, <2>1, <2>2, <2>3 DEF Turns, InTurn
  <1>11. OrdersFit'
    <2>1. \A i \in 1..Len(toForm') : "order" \in toForm'[i].has => sdkOrder' = toForm'[i].re
      BY <1>1 DEF Turns, OrdersFit
    <2>2. ASSUME shown' # sdkOrder'
          PROVE  \E c \in Call :
                   /\ call'[c].pc = "waiting" /\ call'[c].kind # "points"
                   /\ call'[c].kind = "coupon" =>
                        \E i \in 1..Len(toForm') :
                          toForm'[i].re.call = c /\ "order" \in toForm'[i].has
      <3>1. PICK c \in Call :
              /\ call[c].pc = "waiting" /\ call[c].kind # "points"
              /\ call[c].kind = "coupon" =>
                   \E i \in 1..Len(toForm) :
                     toForm[i].re.call = c /\ "order" \in toForm[i].has
        BY <1>6, <2>2 DEF Turns, OrdersFit
      <3>2. call'[c] = call[c]
        BY <1>7, <3>1
      <3>3. ASSUME NEW i \in 1..Len(toForm), toForm[i].re.call = c, "order" \in toForm[i].has
            PROVE  \E j \in 1..Len(toForm') :
                     toForm'[j].re.call = c /\ "order" \in toForm'[j].has
        <4>1. i # 1
          BY <1>1, <1>3, <3>3
        <4>2. i - 1 \in 1..Len(toForm') /\ (i - 1) + 1 = i
          BY <1>1, <4>1
        <4>3. toForm'[i - 1] = toForm[i]
          BY <1>1, <4>2
        <4> QED BY <3>3, <4>2, <4>3
      <3> QED BY <3>1, <3>2, <3>3
    <2> QED BY <2>1, <2>2 DEF OrdersFit
  <1>12. ListFits'
    BY <1>6, <1>7 DEF Turns, ListFits
  <1> QED BY <1>10, <1>11, <1>12 DEF Turns

\* An Update about another call is for that call, and brings the two orders together.
LEMMA CallAnswered ==
  ASSUME TypeOK, QueueFits, AnswersFit, Turns, NEW u \in Update, u = Head(toForm),
         toForm # <<>>, toForm' = Tail(toForm), UNCHANGED <<selected, sdkOrder>>,
         NEW next \in {"option", "resetOption"}, NEW last \in {None} \cup Kind,
         Take(u, next, last), u.re.kind # "points"
  PROVE  Turns'
  <1> DEFINE r == u.re.call
             kind == call[r].kind
  <1>0. \A c \in Call : call[c] \in [kind : Kind, pc : Pc, address : Address \cup {None}]
    BY DEF TypeOK
  <1>1. /\ Len(toForm) >= 1 /\ Len(toForm') = Len(toForm) - 1 /\ u = toForm[1]
        /\ \A i \in 1..Len(toForm') : toForm'[i] = toForm[i + 1] /\ i + 1 \in 1..Len(toForm)
        /\ Len(toForm) \in Nat /\ 1 \in 1..Len(toForm)
    BY HeadTail DEF TypeOK
  <1>2. /\ r \in Call /\ Direct(r) /\ Awaits(r, u.re)
        /\ \A i \in 1..Len(toForm) : toForm[i].re.kind # "points" => i = 1
        /\ \A e \in asked : e.kind = "points"
    BY <1>1, TurnFacts DEF Turns, InTurn
  <1>3. /\ call[r].pc = "waiting" /\ kind = u.re.kind /\ kind \in Kind \ {"points"}
        /\ u.has \in Answers(kind)
    BY <1>0, <1>1, <1>2 DEF Awaits, AnswersFit
  <1>4. /\ Hears(kind, u.has) /\ ~Hears("points", u.has)
        /\ "order" \notin u.has => kind \in {"address", "coupon"}
    BY <1>3, AnswerFacts
  <1>5. Resolved(u) = {r}
    <2>1. \A c \in Resolved(u) : c = r
      <3> SUFFICES ASSUME NEW c \in Resolved(u) PROVE c = r
        OBVIOUS
      <3>1. c \in Call /\ Direct(c)
        BY <1>4 DEF Resolved, Direct, Live
      <3> QED BY <1>2, <3>1 DEF Turns, InTurn
    <2>2. r \in Resolved(u)
      BY <1>2, <1>3, <1>4 DEF Resolved
    <2> QED BY <2>1, <2>2
  <1>6. ResolvedKinds(u) = {kind} /\ Addressed(u) = IF kind = "address" THEN {r} ELSE {}
    BY <1>5 DEF ResolvedKinds, Addressed
  <1>7. \A c \in Call \ {r} : call'[c] = call[c] /\ ~Direct(c)
    <2>1. \A c \in Call \ {r} : call'[c] = call[c]
      BY <1>3, <1>5, <1>6, TakeFacts DEF Rearmed
    <2> QED BY <1>2, <2>1 DEF Turns, InTurn
  <1>8. \A i \in 1..Len(toForm') : toForm'[i].re.kind = "points" /\ "order" \notin toForm'[i].has
    <2> SUFFICES ASSUME NEW i \in 1..Len(toForm')
                 PROVE  toForm'[i].re.kind = "points" /\ "order" \notin toForm'[i].has
      OBVIOUS
    <2>1. i + 1 # 1 /\ i + 1 \in 1..Len(toForm)
      BY <1>1
    <2> QED BY <1>1, <1>2, <2>1, TurnFacts DEF Turns
  <1>9. \A c \in Call : Direct(c)' => c = r
    BY <1>7 DEF Direct, Live
  <1>10. CASE kind = "address"
    <2>1. call'[r].kind = next /\ call'[r].pc = "waiting"
      <3>0. r \in Addressed(u)
        BY <1>6, <1>10
      <3>1. \A c \in Addressed(u) : call'[c] = [call[c] EXCEPT !.kind = next]
        BY TakeFacts
      <3>2. call'[r] = [call[r] EXCEPT !.kind = next]
        BY <3>0, <3>1
      <3> QED BY <1>0, <1>2, <1>3, <3>2
    <2>2. asked' = asked \cup {[call |-> r, kind |-> next]}
      BY <1>6, <1>10 DEF Take
    <2>3. InTurn'
      <3>1. \A e \in asked' : e.kind # "points" => e = [call |-> r, kind |-> next]
        BY <1>2, <2>2
      <3>2. \A e \in asked' : e.kind # "points" => Awaits(e.call, e)'
        BY <2>1, <3>1 DEF Awaits
      <3> QED BY <1>8, <1>9, <3>2 DEF InTurn
    <2>4. OrdersFit'
      BY <1>2, <1>8, <2>1 DEF OrdersFit
    <2>5. ListFits'
      <3>1. listOf' = selected'
        BY <1>2, <1>3, <1>6, <1>10 DEF Take, Turns, ListFits
      <3>2. \A c \in Call : call'[c].kind = "address" /\ call'[c].pc = "waiting" => c = r
        BY <1>7 DEF Direct, Live
      <3> QED BY <2>1, <3>1, <3>2 DEF ListFits
    <2> QED BY <2>3, <2>4, <2>5 DEF Turns
  <1>11. CASE kind # "address"
    <2>1. call'[r].kind = kind /\ call'[r].pc \in {"updating", "ended"}
      <3>1. r \in Resolved(u) \ Addressed(u)
        BY <1>5, <1>6, <1>11
      <3>2. call'[r] = [call[r] EXCEPT !.pc =
                          IF call[r].kind \in {"option", "resetOption", "point"}
                          THEN "updating" ELSE "ended"]
        BY <3>1, TakeFacts
      <3> QED BY <1>0, <1>2, <3>2
    <2>2. asked' = asked /\ listOf' = listOf /\ status'["list"] = status["list"]
      BY <1>6, <1>11 DEF Take, StatusAfter, Group
    <2>3. InTurn'
      BY <1>2, <1>8, <1>9, <2>2 DEF InTurn
    <2>4. shown' = sdkOrder'
      <3>1. shown' = ShownAfter(u)
        BY DEF Take
      <3>2. CASE "order" \in u.has
        <4>1. kind \in OrderKind
          BY <1>3, <1>11 DEF Kind
        <4>2. sdkOrder = u.re
          BY <1>1, <3>2 DEF Turns, OrdersFit
        <4> QED BY <1>6, <3>1, <3>2, <4>1, <4>2 DEF ShownAfter
      <3>3. CASE "order" \notin u.has
        <4>1. shown' = shown /\ kind = "coupon"
          BY <1>4, <1>11, <3>1, <3>3 DEF ShownAfter
        <4> SUFFICES ASSUME shown # sdkOrder PROVE FALSE
          BY <4>1
        <4>2. PICK c \in Call :
                /\ call[c].pc = "waiting" /\ call[c].kind # "points"
                /\ call[c].kind = "coupon" =>
                     \E i \in 1..Len(toForm) : "order" \in toForm[i].has
          BY DEF Turns, OrdersFit
        <4>3. c = r
          BY <1>7, <4>2 DEF Direct, Live
        <4>4. PICK i \in 1..Len(toForm) : "order" \in toForm[i].has
          BY <4>1, <4>2, <4>3
        <4>5. i = 1
          BY <1>2, <4>4, TurnFacts DEF Turns
        <4> QED BY <1>1, <3>3, <4>4, <4>5
      <3> QED BY <3>2, <3>3
    <2>5. OrdersFit'
      BY <1>8, <2>4 DEF OrdersFit
    <2>6. ListFits'
      <3>1. \A c \in Call : call'[c].kind = "address" /\ call'[c].pc = "waiting" => FALSE
        BY <1>7, <2>1 DEF Direct, Live
      <3> QED BY <2>2, <3>1 DEF Turns, ListFits
    <2> QED BY <2>3, <2>5, <2>6 DEF Turns
  <1> QED BY <1>10, <1>11

LEMMA TurnsStep ==
  ASSUME TypeOK, KindsFit, QueueFits, AnswersFit, ~disturbed => Turns, [Next]_vars, ~disturbed'
  PROVE  Turns'
  <1>1. ~disturbed
    BY NextCases, DeliverFacts
       DEF TypeOK, StartStep, SelectAddress, FetchPoints, AskOrder, Start, EnterNewCoupon,
           Answer, CallStep, Arm, Timeout, Pinged, Updated, vars, formVars
  <1>2. CASE \E c \in Call : StartStep(c)
    BY <1>1, <1>2, StartTurn
  <1>3. CASE \E e \in asked : Answer(e)
    BY <1>1, <1>3, AnswerTurn
  <1>4. CASE \E c \in Call : CallStep(c)
    BY <1>1, <1>4, CallTurn
  <1>5. CASE EnterNewCoupon \/ UNCHANGED vars
    <2>1. /\ UNCHANGED <<call, asked, toForm, shown, sdkOrder, listOf, selected>>
          /\ status'["list"] = status["list"]
      BY <1>5 DEF EnterNewCoupon, With, Group, vars, formVars
    <2> QED BY <1>1, <2>1, LetAlone DEF Direct, Live
  <1>6. CASE Deliver
    <2> DEFINE u == Head(toForm)
    <2>1. PICK next \in {"option", "resetOption"}, last \in {None} \cup Kind : Take(u, next, last)
      BY <1>6, DeliverFacts
    <2>2. /\ u \in Update /\ toForm # <<>> /\ toForm' = Tail(toForm)
          /\ UNCHANGED <<selected, sdkOrder>>
      BY <1>6, DeliverFacts
    <2>3. CASE u.re.kind = "points"
      BY <1>1, <2>1, <2>2, <2>3, PointsTurn
    <2>4. CASE u.re.kind # "points"
      BY <1>1, <2>1, <2>2, <2>4, CallAnswered
    <2> QED BY <2>3, <2>4
  <1> QED BY <1>2, <1>3, <1>4, <1>5, <1>6, NextCases

-----------------------------------------------------------------------------
(* The theorems.                                                           *)

LEMMA InvInit ==
  ASSUME Init
  PROVE  CallsInv
  <1>1. TypeOK
    <2>1. call \in [Call -> [kind : Kind, pc : Pc, address : Address \cup {None}]]
      BY DEF Init, Kind, Pc
    <2>2. status \in [Group -> Status]
      BY DEF Init, Status
    <2>3. toForm \in Seq(Update) /\ queue \in Seq(Call) /\ counter \in Nat /\ asked \subseteq Event
      BY DEF Init
    <2> QED BY <2>1, <2>2, <2>3 DEF Init, TypeOK
  <1>2. /\ \A c \in Call : call[c].pc = "unused" /\ call[c].kind = "address"
        /\ asked = {} /\ toForm = <<>> /\ Len(toForm) = 0 /\ queue = <<>> /\ Len(queue) = 0
        /\ counter = 0 /\ shown = sdkOrder /\ \A g \in Group : status[g] = "initial"
    BY DEF Init
  <1>3. KindsFit
    BY <1>2 DEF KindsFit
  <1>4. QueueFits
    BY <1>2 DEF QueueFits, Undone, Live, Group
  <1>5. PreloadersHaveCalls
    BY <1>2 DEF PreloadersHaveCalls, Undone, Live
  <1>6. AnswersFit
    BY <1>2 DEF AnswersFit
  <1>7. InTurn
    BY <1>2 DEF InTurn, Direct, Live
  <1>8. OrdersFit
    BY <1>2 DEF OrdersFit
  <1>9. ListFits
    BY <1>2 DEF ListFits, Group
  <1> QED BY <1>1, <1>3, <1>4, <1>5, <1>6, <1>7, <1>8, <1>9 DEF CallsInv

LEMMA InvStep ==
  ASSUME CallsInv, [Next]_vars
  PROVE  CallsInv'
  <1>0. /\ TypeOK /\ KindsFit /\ QueueFits /\ PreloadersHaveCalls /\ AnswersFit
        /\ ~disturbed => Turns
    BY DEF CallsInv, Turns
  <1>1. TypeOK'
    BY <1>0, TypeStep
  <1>2. KindsFit'
    BY <1>0, KindsStep
  <1>3. QueueFits'
    BY <1>0, QueueStep
  <1>4. PreloadersHaveCalls'
    BY <1>0, <1>1, <1>3, PreloadersStep
  <1>5. AnswersFit'
    BY <1>0, AnswersStep
  <1>6. ~disturbed' => Turns'
    BY <1>0, TurnsStep
  <1> QED BY <1>1, <1>2, <1>3, <1>4, <1>5, <1>6 DEF CallsInv, Turns

\* The calls of the form, the RpcQueue of the fetches, the statuses of the store and
\* the events and Updates between the windows fit each other after every step.
THEOREM CallsInvariant == Spec => []CallsInv
  <1>1. Init => CallsInv
    BY InvInit
  <1>2. CallsInv /\ [Next]_vars => CallsInv'
    BY InvStep
  <1> QED BY <1>1, <1>2, PTL DEF Spec

\* The state of the form, the queue and the messages keeps its type; in particular
\* fetchPickupPointsCounter is never negative.
THEOREM CallsTypeCorrect == Spec => []TypeOK
  <1>1. CallsInv => TypeOK
    BY DEF CallsInv
  <1> QED BY <1>1, CallsInvariant, PTL

\* A status is pending only while a call of its part of the store is under way, and
\* that of the points exactly as long as a fetch is.
THEOREM PreloadersHaveCallsCorrect == Spec => []PreloadersHaveCalls
  <1>1. CallsInv => PreloadersHaveCalls
    BY DEF CallsInv
  <1> QED BY <1>1, CallsInvariant, PTL

\* Calls that do not overlap and do not time out leave the form with the order of
\* the SDK's sheet and the delivery options of the selected address.
THEOREM CallsInTurnAgreeCorrect == Spec => []CallsInTurnAgree
  <1>1. CallsInv => CallsInTurnAgree
    <2> SUFFICES ASSUME CallsInv, ~disturbed, \A c \in Call : Live(c) => call[c].kind = "points"
                 PROVE  shown = sdkOrder /\ (status["list"] = "success" => listOf = selected)
      BY DEF CallsInTurnAgree
    <2>1. OrdersFit /\ ListFits
      BY DEF CallsInv
    <2>2. \A c \in Call : call[c].pc = "waiting" => call[c].kind = "points"
      BY DEF Live
    <2> QED BY <2>1, <2>2 DEF OrdersFit, ListFits
  <1> QED BY <1>1, CallsInvariant, PTL

\* An Update ends one fetch of points, the one at the head of the RpcQueue: the
\* fetches that run in parallel wait for Updates of their own.
THEOREM OneAnswerOneFetchCorrect == Spec => OneAnswerOneFetch
  <1> DEFINE Ended(c) == c \in Undone("points") /\ call'[c].pc = "ended"
  <1>1. ASSUME CallsInv, [Next]_vars, NEW a \in Call, NEW b \in Call, Ended(a), Ended(b)
        PROVE  a = b
    <2>0. TypeOK /\ QueueFits
      BY <1>1 DEF CallsInv
    <2>1. \A c \in Call : call[c] \in [kind : Kind, pc : Pc, address : Address \cup {None}]
      BY <2>0 DEF TypeOK
    <2>2. ASSUME NEW c \in Call, Ended(c) PROVE Live(c) /\ call[c].kind = "points" /\ call'[c].pc = "ended"
      BY <2>1, <2>2, GroupFacts DEF Undone
    <2>3. CASE \E c \in Call : StartStep(c)
      <3> PICK c \in Call : StartStep(c) BY <2>3
      <3> PICK kind \in Kind, x \in Address \cup {None} : Start(c, kind, x)
        BY StartStepFacts
      <3>1. ~Live(c) /\ \A d \in Call \ {c} : call'[d] = call[d]
        BY <2>0, StartFacts
      <3> QED BY <1>1, <2>2, <3>1 DEF Live
    <2>4. CASE Deliver
      <3> DEFINE u == Head(toForm)
      <3>1. PICK next \in {"option", "resetOption"}, last \in {None} \cup Kind : Take(u, next, last)
        BY <2>0, <2>4, DeliverFacts
      <3>2. u \in Update
        BY <2>0, <2>4, DeliverFacts
      <3> HIDE DEF u
      <3>3. ASSUME NEW c \in Call, Ended(c) PROVE c = queue[1]
        <4>1. Live(c) /\ call[c].kind = "points" /\ call'[c].pc = "ended"
          BY <2>2, <3>3
        <4>2. c \in Resolved(u)
          <5> SUFFICES ASSUME c \notin Resolved(u) PROVE FALSE
            OBVIOUS
          <5>1. call'[c] = Rearmed(c, u)
            BY <2>0, <3>1, <3>2, TakeFacts
          <5> QED BY <2>1, <4>1, <5>1 DEF Rearmed, Live
        <4> QED BY <2>0, <4>1, <4>2, WaitingFetch DEF Resolved
      <3> QED BY <1>1, <3>3
    <2>5. CASE \E c \in Call : CallStep(c)
      <3> PICK c \in Call : CallStep(c) BY <2>5
      <3>1. PICK pc \in {"waiting", "pinging", "ended"} : call' = [call EXCEPT ![c].pc = pc]
        BY <2>0, CallStepFacts
      <3>2. \A d \in Call \ {c} : call'[d] = call[d]
        BY <2>0, <3>1 DEF TypeOK
      <3> QED BY <1>1, <2>2, <3>2 DEF Live
    <2>6. CASE UNCHANGED call
      BY <1>1, <2>2, <2>6 DEF Live
    <2> QED BY <1>1, <2>3, <2>4, <2>5, <2>6, NextCases DEF EnterNewCoupon, Answer, vars, formVars
  <1>2. CallsInv /\ [Next]_vars =>
          [\A c, d \in Undone("points") :
             call'[c].pc = "ended" /\ call'[d].pc = "ended" => c = d]_vars
    BY <1>1 DEF Undone
  <1> QED BY <1>2, CallsInvariant, PTL DEF Spec, OneAnswerOneFetch
=============================================================================
