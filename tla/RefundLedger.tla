---------------------------- MODULE RefundLedger ----------------------------
(***************************************************************************)
(* What the refund service promises, with no sessions, locks or copies: an *)
(* amount is asked for once; the provider pays it out only while it still  *)
(* fits into the payment; a request is executed by the very step that adds *)
(* its amount to what the payment has refunded, after it was paid out and  *)
(* within the amount of the payment.  Nothing else is ever recorded.       *)
(***************************************************************************)
EXTENDS Integers

CONSTANTS Requests, Amount, Amounts

VARIABLES asked, amount, paidOut, refunded, executed

ledger == <<asked, amount, paidOut, refunded, executed>>

Init ==
  /\ asked = {}
  /\ amount = [r \in Requests |-> 0]
  /\ paidOut = [r \in Requests |-> 0]
  /\ refunded = 0
  /\ executed = {}

Ask(r, n) ==
  /\ r \notin asked
  /\ asked' = asked \cup {r}
  /\ amount' = [amount EXCEPT ![r] = n]
  /\ UNCHANGED <<paidOut, refunded, executed>>

PayOut(r) ==
  /\ r \in asked
  /\ refunded + amount[r] <= Amount
  /\ paidOut' = [paidOut EXCEPT ![r] = @ + 1]
  /\ UNCHANGED <<asked, amount, refunded, executed>>

Execute(r) ==
  /\ paidOut[r] > 0
  /\ refunded + amount[r] <= Amount
  /\ refunded' = refunded + amount[r]
  /\ executed' = executed \cup {r}
  /\ UNCHANGED <<asked, amount, paidOut>>

(* A decision that was taken before, or a second execution that fails, is    *)
(* written over the first one.                                               *)
Overwrite(r) ==
  /\ executed' = executed \ {r}
  /\ UNCHANGED <<asked, amount, paidOut, refunded>>

Next ==
  \E r \in Requests :
    (\E n \in Amounts : Ask(r, n)) \/ PayOut(r) \/ Execute(r) \/ Overwrite(r)

Spec == Init /\ [][Next]_ledger
=============================================================================
