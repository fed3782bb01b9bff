--------------------------- MODULE RefundExecution ---------------------------
(***************************************************************************)
(* Refunds of one payment, from request to the provider:                   *)
(*                                                                         *)
(*   RefundService            app/billing/refunds.py                       *)
(*   ApprovalService          app/core/approvals/service.py                *)
(*   issue_refund             app/core/workflows/actions.py                *)
(*                                                                         *)
(* The decision of the platform owner is written without a lock; the       *)
(* execution locks the approval and then the payment.  issue_refund reads  *)
(* the approval first to authorise the action, and the row a session has   *)
(* already read is not read again by SELECT ... FOR UPDATE.                *)
(*                                                                         *)
(* Amounts are counted in the smallest unit of the Numeric columns.  Only   *)
(* their upper bound is checked: a refund may be of nothing, or negative.   *)
(* The cancel route of app/api/v1/integrations.py writes CANCELLED over any *)
(* status of the payment.                                                  *)
(***************************************************************************)
EXTENDS Integers, FiniteSetsExt, BillingStates

CONSTANTS
  Sessions,    \* requests that may run at once
  Requests,    \* approvals with action_type issue_refund
  Amount,      \* what was paid
  Amounts,     \* amounts that are asked back, of any sign
  Callers,     \* "executor": through ActionExecutor; "service": RefundService alone
  Ops,         \* decisions taken: a subset of DecisionType
  MaxTries,    \* bound on refunds the provider makes for one request
  MaxCrashes,  \* bound on crashes and lost connections
  None

DecisionType == {"approve", "modify", "cancel"}

ASSUME AmountAssumption == Amount \in Nat /\ Amounts \subseteq Int
ASSUME CallerAssumption == Callers \subseteq {"executor", "service"} /\ Ops \subseteq DecisionType
ASSUME NoneAssumption   == None \notin Sessions \cup Requests
ASSUME BoundAssumption  == MaxTries \in Nat /\ MaxCrashes \in Nat

RequestStatus == {"PENDING", "APPROVED", "MODIFIED", "CANCELLED", "FAILED", "EXECUTED"}
Decision == [approve |-> "APPROVED", modify |-> "MODIFIED", cancel |-> "CANCELLED"]
-----------------------------------------------------------------------------
VARIABLES
  request,   \* approvals rows
  payment,   \* the payments row
  lockReq,   \* row locks on approvals
  lockPay,   \* row lock on the payment
  tx,        \* what each session has read, and how far it is
  paidOut,   \* the provider: refunds made for each request
  crashes

rows == <<request, payment>>
vars == <<request, payment, lockReq, lockPay, tx, paidOut, crashes>>

RequestRow == [status : {"NONE"} \cup RequestStatus, amount : Int]
PaymentRow == [status : PaymentStatus, refunded : Int]
SessionRow == [pc   : {"idle", "asking", "deciding", "authorised", "locked", "checked", "refunded"},
               req  : Requests \cup {None},
               op   : DecisionType \cup {"none"},
               seen : {"NONE"} \cup RequestStatus,   \* the approval in the session
               sum  : Int]                           \* amount asked, or new_total_refunded

Idle == [pc |-> "idle", req |-> None, op |-> "none", seen |-> "NONE", sum |-> 0]

Init ==
  /\ request = [r \in Requests |-> [status |-> "NONE", amount |-> 0]]
  /\ payment = [status |-> "SUCCEEDED", refunded |-> 0]
  /\ lockReq = [r \in Requests |-> None]
  /\ lockPay = None
  /\ tx = [s \in Sessions |-> Idle]
  /\ paidOut = [r \in Requests |-> 0]
  /\ crashes = 0
-----------------------------------------------------------------------------
Move(s, row) == tx' = [tx EXCEPT ![s] = row]

(* The transaction is over, committed or rolled back. *)
Leave(s) == /\ Move(s, Idle)
            /\ lockReq' = [r \in Requests |-> IF lockReq[r] = s THEN None ELSE lockReq[r]]
            /\ lockPay' = IF lockPay = s THEN None ELSE lockPay

Refundable == payment.status \in {"SUCCEEDED", "PARTIALLY_REFUNDED"}
Remaining  == Amount - payment.refunded

(* request_refund: nothing is reserved for a request that waits.  r is the   *)
(* fresh id that the approval will have.                                     *)
CheckRequest(s, r, amount) ==
  /\ tx[s].pc = "idle"
  /\ request[r].status = "NONE" /\ \A t \in Sessions : tx[t].req # r
  /\ Refundable /\ amount <= Remaining
  /\ Move(s, [tx[s] EXCEPT !.pc = "asking", !.req = r, !.sum = amount])
  /\ UNCHANGED <<rows, lockReq, lockPay, paidOut, crashes>>

InsertRequest(s) ==
  /\ tx[s].pc = "asking"
  /\ request' = [request EXCEPT ![tx[s].req] = [status |-> "PENDING", amount |-> tx[s].sum]]
  /\ Leave(s)
  /\ UNCHANGED <<payment, paidOut, crashes>>

(* approve and cancel of ApprovalService for an approval without workflow. *)
LoadToDecide(s, r, op) ==
  /\ tx[s].pc = "idle"
  /\ op \in Ops
  /\ request[r].status = "PENDING"
  /\ Move(s, [tx[s] EXCEPT !.pc = "deciding", !.req = r, !.op = op])
  /\ UNCHANGED <<rows, lockReq, lockPay, paidOut, crashes>>

(* The UPDATE waits for the row lock of an execution. *)
CommitDecision(s) ==
  LET r == tx[s].req IN
  /\ tx[s].pc = "deciding"
  /\ lockReq[r] = None
  /\ request' = [request EXCEPT ![r].status = Decision[tx[s].op]]
  /\ Leave(s)
  /\ UNCHANGED <<payment, paidOut, crashes>>
-----------------------------------------------------------------------------
(* ActionExecutor: evaluate_action reads the approval. *)
Authorise(s, r) ==
  /\ tx[s].pc = "idle"
  /\ "executor" \in Callers
  /\ request[r].status \in {"APPROVED", "MODIFIED"}
  /\ paidOut[r] < MaxTries
  /\ Move(s, [tx[s] EXCEPT !.pc = "authorised", !.req = r, !.seen = request[r].status])
  /\ UNCHANGED <<rows, lockReq, lockPay, paidOut, crashes>>

CallService(s, r) ==
  /\ tx[s].pc = "idle"
  /\ "service" \in Callers
  /\ request[r].status # "NONE"
  /\ paidOut[r] < MaxTries
  /\ Move(s, [tx[s] EXCEPT !.pc = "authorised", !.req = r])
  /\ UNCHANGED <<rows, lockReq, lockPay, paidOut, crashes>>

(* SELECT ... FOR UPDATE of the approval.  A session that has read the row  *)
(* keeps the status it read.                                                *)
LockRequest(s) ==
  LET r    == tx[s].req
      seen == IF tx[s].seen = "NONE" THEN request[r].status ELSE tx[s].seen
  IN
  /\ tx[s].pc = "authorised"
  /\ lockReq[r] = None
  /\ \/ /\ seen = "APPROVED"
        /\ lockReq' = [lockReq EXCEPT ![r] = s]
        /\ Move(s, [tx[s] EXCEPT !.pc = "locked", !.seen = seen])
        /\ UNCHANGED lockPay
     \/ /\ seen # "APPROVED"       \* EXECUTED is answered, the others refused
        /\ Leave(s)
  /\ UNCHANGED <<rows, paidOut, crashes>>

NewStatus_Above(sum) == IF sum > Amount THEN "REFUNDED" ELSE "PARTIALLY_REFUNDED"
NewStatus(sum) == IF sum >= Amount THEN "REFUNDED" ELSE "PARTIALLY_REFUNDED"

Affordable_NotChecked(r) == TRUE
Affordable(r) == request[r].amount <= Remaining

(* SELECT ... FOR UPDATE of the payment, which the session has not read     *)
(* before, and the checks under both locks.                                 *)
LockPayment_NoLock(s) ==
  LET sum == payment.refunded + request[tx[s].req].amount IN
  /\ tx[s].pc = "locked"
  /\ Affordable(tx[s].req)
  /\ ValidPaymentMove(payment.status, NewStatus(sum))
  /\ Move(s, [tx[s] EXCEPT !.pc = "checked", !.sum = sum])
  /\ UNCHANGED <<rows, lockReq, lockPay, paidOut, crashes>>

LockPayment(s) ==
  LET sum == payment.refunded + request[tx[s].req].amount IN
  /\ tx[s].pc = "locked"
  /\ lockPay = None
  /\ Affordable(tx[s].req)
  /\ ValidPaymentMove(payment.status, NewStatus(sum))
  /\ lockPay' = s
  /\ Move(s, [tx[s] EXCEPT !.pc = "checked", !.sum = sum])
  /\ UNCHANGED <<rows, lockReq, paidOut, crashes>>

(* The amount no longer fits: the request is FAILED, and that is committed. *)
RefuseAmount(s) ==
  /\ tx[s].pc = "locked"
  /\ lockPay = None
  /\ ~ Affordable(tx[s].req)
  /\ request' = [request EXCEPT ![tx[s].req].status = "FAILED"]
  /\ Leave(s)
  /\ UNCHANGED <<payment, paidOut, crashes>>

(* validate_payment_transition raises: the payment was cancelled, or a total *)
(* that a negative amount brings below Amount comes after REFUNDED.          *)
RefuseMove(s) ==
  /\ tx[s].pc = "locked"
  /\ lockPay = None
  /\ Affordable(tx[s].req)
  /\ ~ ValidPaymentMove(payment.status, NewStatus(payment.refunded + request[tx[s].req].amount))
  /\ Leave(s)
  /\ UNCHANGED <<rows, paidOut, crashes>>

(* provider.refund: the money is out before anything is committed. *)
Refund(s) ==
  /\ tx[s].pc = "checked"
  /\ paidOut' = [paidOut EXCEPT ![tx[s].req] = @ + 1]
  /\ Move(s, [tx[s] EXCEPT !.pc = "refunded"])
  /\ UNCHANGED <<rows, lockReq, lockPay, crashes>>

RefundFails_Rejected(s) ==
  /\ tx[s].pc = "checked"
  /\ request' = [request EXCEPT ![tx[s].req].status = "REJECTED_BY_PROVIDER"]
  /\ Leave(s)
  /\ UNCHANGED <<payment, paidOut, crashes>>

RefundFails(s) ==
  /\ tx[s].pc = "checked"
  /\ request' = [request EXCEPT ![tx[s].req].status = "FAILED"]
  /\ Leave(s)
  /\ UNCHANGED <<payment, paidOut, crashes>>

CommitRefund_Unpaid(s) ==
  /\ tx[s].pc \in {"checked", "refunded"}
  /\ request' = [request EXCEPT ![tx[s].req].status = "EXECUTED"]
  /\ payment' = [status |-> NewStatus(tx[s].sum), refunded |-> tx[s].sum]
  /\ Leave(s)
  /\ UNCHANGED <<paidOut, crashes>>

CommitRefund(s) ==
  /\ tx[s].pc = "refunded"
  /\ request' = [request EXCEPT ![tx[s].req].status = "EXECUTED"]
  /\ payment' = [status |-> NewStatus(tx[s].sum), refunded |-> tx[s].sum]
  /\ Leave(s)
  /\ UNCHANGED <<paidOut, crashes>>

(* midtrans_cancel_payment: the payment was read without a lock before the  *)
(* provider answered, and CANCELLED is written over whatever it is now.      *)
CancelPayment ==
  /\ lockPay = None
  /\ payment' = [payment EXCEPT !.status = "CANCELLED"]
  /\ UNCHANGED <<request, lockReq, lockPay, tx, paidOut, crashes>>

(* The process dies or the connection is lost; the provider keeps the money  *)
(* it has sent.                                                              *)
Crash(s) ==
  /\ crashes < MaxCrashes
  /\ tx[s].pc # "idle"
  /\ Leave(s)
  /\ crashes' = crashes + 1
  /\ UNCHANGED <<rows, paidOut>>
-----------------------------------------------------------------------------
Step(s) ==
  \/ InsertRequest(s) \/ CommitDecision(s) \/ LockRequest(s) \/ LockPayment(s) \/ RefuseAmount(s)
  \/ RefuseMove(s) \/ Refund(s) \/ RefundFails(s) \/ CommitRefund(s)

(* No request is running: the server waits. *)
Quiet == (\A s \in Sessions : tx[s].pc = "idle") /\ UNCHANGED vars

Next ==
  \/ \E s \in Sessions, r \in Requests, amount \in Amounts : CheckRequest(s, r, amount)
  \/ \E s \in Sessions, r \in Requests, op \in DecisionType : LoadToDecide(s, r, op)
  \/ \E s \in Sessions, r \in Requests : Authorise(s, r) \/ CallService(s, r)
  \/ \E s \in Sessions : Step(s) \/ Crash(s)
  \/ CancelPayment
  \/ Quiet

Spec == Init /\ [][Next]_vars
-----------------------------------------------------------------------------
(* Every variable keeps its type, and every status is one of its table.      *)
TypeOK ==
  /\ request \in [Requests -> RequestRow]
  /\ payment \in PaymentRow
  /\ lockReq \in [Requests -> Sessions \cup {None}]
  /\ lockPay \in Sessions \cup {None}
  /\ tx \in [Sessions -> SessionRow]
  /\ paidOut \in [Requests -> Nat]
  /\ crashes \in Nat

(* However many approved requests compete for a payment, and however often   *)
(* one is executed again, no more than was paid is recorded as refunded.     *)
RefundWithinAmount == payment.refunded <= Amount

(* What the status tells after refunds of any sign, some of nothing, that    *)
(* were approved at once: REFUNDED, that all of the payment was given back;  *)
(* PARTIALLY_REFUNDED, that less was, not that anything was; SUCCEEDED, that *)
(* nothing was.  A cancelled payment tells nothing of its refunds.           *)
StatusTellsRefunded ==
  /\ payment.status = "REFUNDED" => payment.refunded = Amount
  /\ payment.status = "PARTIALLY_REFUNDED" => payment.refunded < Amount
  /\ payment.status = "SUCCEEDED" => payment.refunded = 0

Executed == {r \in Requests : request[r].status = "EXECUTED"}

(* No refund is lost by another one that is recorded at the same time: while *)
(* no amount is negative, the payment's refunded_amount covers all the       *)
(* requests that are EXECUTED.                                               *)
ExecutedIsRecorded ==
  (\A r \in Requests : request[r].amount >= 0) =>
    MapThenSumSet(LAMBDA r : request[r].amount, Executed) <= payment.refunded

(* A request is EXECUTED only after the provider has paid it out.            *)
ExecutedWasPaidOut == \A r \in Executed : paidOut[r] >= 1

(* "Executes refund idempotently and atomically after approval by Human      *)
(* Owner" (refunds.py:81): the provider pays a request out at most once.     *)
RefundedOnce == \A r \in Requests : paidOut[r] <= 1

Ledger == INSTANCE RefundLedger WITH
            asked    <- {r \in Requests : request[r].status # "NONE"},
            amount   <- [r \in Requests |-> request[r].amount],
            refunded <- payment.refunded,
            executed <- Executed

(* The service implements the ledger: whatever is decided, executed and      *)
(* repeated at once, each step is one step of the ledger or shows nothing.   *)
RefundLedgerSpec == Ledger!Spec
=============================================================================
