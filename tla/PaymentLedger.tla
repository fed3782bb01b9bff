--------------------------- MODULE PaymentLedger ---------------------------
(***************************************************************************)
(* What the payment service promises, with no sessions, locks or crashes:  *)
(* a payment is opened for an invoice and is settled or fails once, while   *)
(* it is open; it can be cancelled at any time, and refunded once settled;  *)
(* an invoice is paid by the very step that settles a payment of it; and a  *)
(* payment that has settled activates the subscription at most once, later. *)
(***************************************************************************)
EXTENDS Naturals

CONSTANTS Payments, Invoices, None

VARIABLES status, invoiceOf, settled, paid, activations

ledger == <<status, invoiceOf, settled, paid, activations>>

Init ==
  /\ status = [p \in Payments |-> "NONE"]
  /\ invoiceOf = [p \in Payments |-> None]
  /\ settled = {}
  /\ paid = {}
  /\ activations = [p \in Payments |-> 0]

Open(p, i) ==
  /\ status[p] = "NONE"
  /\ status' = [status EXCEPT ![p] = "PENDING"]
  /\ invoiceOf' = [invoiceOf EXCEPT ![p] = i]
  /\ UNCHANGED <<settled, paid, activations>>

Settle(p) ==
  /\ status[p] = "PENDING"
  /\ status' = [status EXCEPT ![p] = "SUCCEEDED"]
  /\ settled' = settled \cup {p}
  /\ paid' = paid \cup {invoiceOf[p]}
  /\ UNCHANGED <<invoiceOf, activations>>

Fail(p) ==
  /\ status[p] = "PENDING"
  /\ status' = [status EXCEPT ![p] = "FAILED"]
  /\ UNCHANGED <<invoiceOf, settled, paid, activations>>

Cancel(p) ==
  /\ status[p] # "NONE"
  /\ status' = [status EXCEPT ![p] = "CANCELLED"]
  /\ UNCHANGED <<invoiceOf, settled, paid, activations>>

Refund(p, new) ==
  /\ status[p] \in {"SUCCEEDED", "PARTIALLY_REFUNDED"}
  /\ status' = [status EXCEPT ![p] = new]
  /\ UNCHANGED <<invoiceOf, settled, paid, activations>>

Activate(p) ==
  /\ p \in settled
  /\ activations[p] = 0
  /\ activations' = [activations EXCEPT ![p] = 1]
  /\ UNCHANGED <<status, invoiceOf, settled, paid>>

Next ==
  \E p \in Payments :
    \/ \E i \in Invoices : Open(p, i)
    \/ Settle(p) \/ Fail(p) \/ Cancel(p) \/ Activate(p)
    \/ \E new \in {"PARTIALLY_REFUNDED", "REFUNDED"} : Refund(p, new)

Spec == Init /\ [][Next]_ledger
=============================================================================
