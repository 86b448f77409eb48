-------------------------- MODULE CheckoutOutcomes --------------------------
(***************************************************************************)
(* What a merchant is told of the checkouts of one payment, without        *)
(* windows, messages, timers or callbacks.                                 *)
(*                                                                         *)
(* A form may send any number of results.  Each is told once at most, and  *)
(* only if a form has sent it; it may follow an Abort, or another result,  *)
(* even when the next checkout is at hand.  An Abort is about the last     *)
(* checkout, and only as long as nothing has been told of it.              *)
(***************************************************************************)
EXTENDS Naturals, Sequences

CONSTANTS MaxCheckouts, MaxResults

VARIABLES
  opened,  \* how many checkouts there have been
  sent,    \* the checkout whose form has sent the n-th result
  told,    \* how often the merchant has been told the n-th result
  aborted  \* how often the merchant has been told that a checkout is aborted

outcomeVars == <<opened, sent, told, aborted>>

Checkouts == 1..MaxCheckouts

Init ==
  /\ opened = 0 /\ sent = <<>>
  /\ told = [n \in 1..MaxResults |-> 0] /\ aborted = [c \in Checkouts |-> 0]

ToldOf(c) == aborted[c] > 0 \/ \E n \in DOMAIN sent : sent[n] = c /\ told[n] > 0

Open ==
  /\ opened < MaxCheckouts
  /\ opened' = opened + 1
  /\ UNCHANGED <<sent, told, aborted>>

SendResult(c) ==
  /\ c <= opened /\ Len(sent) < MaxResults
  /\ sent' = Append(sent, c)
  /\ UNCHANGED <<opened, told, aborted>>

TellAbort ==
  /\ opened > 0 /\ ~ToldOf(opened)
  /\ aborted' = [aborted EXCEPT ![opened] = 1]
  /\ UNCHANGED <<opened, sent, told>>

TellResult(n) ==
  /\ told[n] = 0
  /\ told' = [told EXCEPT ![n] = 1]
  /\ UNCHANGED <<opened, sent, aborted>>

Next ==
  \/ Open
  \/ TellAbort
  \/ \E c \in Checkouts : SendResult(c)
  \/ \E n \in DOMAIN sent : TellResult(n)

Spec == Init /\ [][Next]_outcomeVars
=============================================================================
