--------------------------- MODULE OrderAttempts ---------------------------
(***************************************************************************)
(* What bill_payments promises about the payment of orders, without row    *)
(* locks, requests, notifications or Kazna: an order is paid by a sequence *)
(* of attempts (transactions).  A new attempt replaces the open one, an    *)
(* attempt that succeeds pays the order for good, and after it there is no *)
(* other.                                                                  *)
(***************************************************************************)
CONSTANTS Tx, Order, NoOrder

VARIABLES
  status,   \* status of an attempt; "none" before it exists
  orderOf,  \* the order it is an attempt to pay
  paid      \* orders that have been paid

attemptVars == <<status, orderOf, paid>>

Init ==
  /\ status = [t \in Tx |-> "none"]
  /\ orderOf = [t \in Tx |-> NoOrder]
  /\ paid = {}

Begin(o, t) ==
  /\ status[t] = "none"
  /\ o \notin paid
  /\ status' = [u \in Tx |-> IF u = t THEN "new"
                             ELSE IF orderOf[u] = o THEN "cancelled" ELSE status[u]]
  /\ orderOf' = [orderOf EXCEPT ![t] = o]
  /\ UNCHANGED paid

Succeed(t) ==
  /\ status[t] = "new"
  /\ status' = [status EXCEPT ![t] = "paid"]
  /\ paid' = paid \cup {orderOf[t]}
  /\ UNCHANGED orderOf

Fail(t) ==
  /\ status[t] = "new"
  /\ status' = [status EXCEPT ![t] = "cancelled"]
  /\ UNCHANGED <<orderOf, paid>>

Refund(t) ==
  /\ status[t] = "paid"
  /\ status' = [status EXCEPT ![t] = "refunded"]
  /\ UNCHANGED <<orderOf, paid>>

Next ==
  \E t \in Tx :
    \/ \E o \in Order : Begin(o, t)
    \/ Succeed(t)
    \/ Fail(t)
    \/ Refund(t)

Spec == Init /\ [][Next]_attemptVars
=============================================================================
