------------------------- MODULE PaymentSettlement -------------------------
(***************************************************************************)
(* How a provider notification settles a payment of one tenant:            *)
(*                                                                         *)
(*   POST /webhooks/midtrans            app/api/v1/webhooks.py             *)
(*   PaymentService, InvoiceService     app/billing/payments.py, ...       *)
(*   SubscriptionService                app/billing/subscription.py        *)
(*   midtrans_cancel_payment            app/api/v1/integrations.py         *)
(*                                                                         *)
(* and what a cancellation or refund of the payment does to it meanwhile.  *)
(*                                                                         *)
(* A session is one HTTP request with its SQLAlchemy session: it works on  *)
(* its own copies of the rows, row locks are held until the transaction    *)
(* commits, and a flush writes only the columns the session changed        *)
(* (READ COMMITTED, no version column).  The variables below hold          *)
(* committed rows; what a session has read and not yet written is in tx.   *)
(***************************************************************************)
EXTENDS Integers, FiniteSets, BillingStates

CONSTANTS
  Sessions,     \* request handlers that may run at once
  Invoices,     \* invoice ids (the provider's order ids)
  Payments,     \* payment row ids
  TxIds,        \* transaction ids the provider hands out
  OrderOf,      \* the order each transaction pays
  PaidPlans,    \* plan codes with a price
  TrialPlan,    \* the plan a trial starts on ("starter")
  FreePlan,     \* the plan whose catalogue price is 0 ("enterprise")
  Notices,      \* the notifications the provider may send
  UserOps,      \* requests of the tenant: subset of the four of UserOpType
  MaxCrashes,   \* bound on crashes and lost connections
  None

UserOpType == {"trial", "upgrade", "switch", "cancel"}
Kinds == {"settlement", "accept", "challenge", "deny", "expire"}

(* verify_notification has passed; amount is "exact" when gross_amount and  *)
(* currency are those of the invoice.                                       *)
NoticeType == [tx : TxIds, kind : Kinds, exact : BOOLEAN]

ASSUME NoticesAssumption == Notices \subseteq NoticeType
ASSUME OrderAssumption   == OrderOf \in [TxIds -> Invoices]
ASSUME IdAssumption      == /\ TxIds \cap Invoices = {}
                            /\ None \notin Sessions \cup Invoices \cup Payments \cup TxIds
ASSUME PlanAssumption    == TrialPlan \in PaidPlans /\ FreePlan \notin PaidPlans /\ None \notin PaidPlans \cup {FreePlan}
ASSUME UserAssumption    == UserOps \subseteq UserOpType
ASSUME BoundAssumption   == MaxCrashes \in Nat

(* normalize_notification *)
Normalized(n) == CASE n.kind \in {"settlement", "accept"} -> "SUCCEEDED"
                   [] n.kind = "deny"                     -> "FAILED"
                   [] n.kind = "challenge"                -> "PENDING"
                   [] n.kind = "expire"                   -> "EXPIRED"

(* The idempotency key is built from the raw transaction_status, which is  *)
(* "capture" for a challenged and for an accepted card payment alike.      *)
RawStatus(n) == IF n.kind \in {"accept", "challenge"} THEN "capture" ELSE n.kind
Key_NoStatus(n) == <<n.tx, "notification">>
Key(n)       == <<n.tx, RawStatus(n)>>

Order(n) == OrderOf[n.tx]
-----------------------------------------------------------------------------
VARIABLES
  invoice,      \* invoices rows
  payment,      \* payments rows
  sub,          \* the tenant's (first) subscriptions row
  subRows,      \* how many subscriptions rows the tenant has
  activations,  \* subscription_histories rows written by confirming a payment
  execs,        \* keys of the COMPLETED integration_executions rows
  lock,         \* payments row locks taken by SELECT ... FOR UPDATE
  tx,           \* what each session has read, and how far it is
  charged,      \* the provider: transactions it opened
  acked,        \* the provider: notifications answered with 200
  crashes

rows == <<invoice, payment, sub, subRows, activations, execs>>
vars == <<invoice, payment, sub, subRows, activations, execs, lock, tx, charged, acked, crashes>>

InvoiceRow == [status : {"NONE", "ISSUED", "PAID"},
               plan   : PaidPlans \cup {None},
               linked : BOOLEAN]                 \* subscription_id IS NOT NULL
PaymentRow == [status  : {"NONE"} \cup PaymentStatus,
               invoice : Invoices \cup {None},
               ref     : TxIds \cup Invoices \cup {None},  \* provider_payment_id
               paidAt  : BOOLEAN]                         \* paid_at IS NOT NULL
SubRow     == [status : {"NONE"} \cup SubscriptionStatus,
               plan   : PaidPlans \cup {FreePlan, None}]

SessionRow == [pc     : {"idle", "byRef", "byInvoice", "locked", "paid", "activate",
                         "failing", "done", "cancelling"} \cup UserOpType,
               notice : Notices \cup {None},
               pay    : Payments \cup {None},
               seen   : {"NONE"} \cup PaymentStatus,
               snap   : SubRow]

NoSub == [status |-> "NONE", plan |-> None]
Idle  == [pc |-> "idle", notice |-> None, pay |-> None, seen |-> "NONE", snap |-> NoSub]

Init ==
  /\ invoice = [i \in Invoices |-> [status |-> "NONE", plan |-> None, linked |-> FALSE]]
  /\ payment = [p \in Payments |-> [status |-> "NONE", invoice |-> None, ref |-> None,
                                  paidAt |-> FALSE]]
  /\ sub = NoSub
  /\ subRows = 0
  /\ activations = [p \in Payments |-> 0]
  /\ execs = {}
  /\ lock = [p \in Payments |-> None]
  /\ tx = [s \in Sessions |-> Idle]
  /\ charged = {}
  /\ acked = {}
  /\ crashes = 0
-----------------------------------------------------------------------------
(* A flush of a subscription the session loaded as old and changed to new: *)
(* a column that ends up with the value it was loaded with is not written. *)
Flush(old, new) ==
  [status |-> IF new.status = old.status THEN sub.status ELSE new.status,
   plan   |-> IF new.plan = old.plan THEN sub.plan ELSE new.plan]

(* The session goes on, having read or decided what row says. *)
Move(s, row) == tx' = [tx EXCEPT ![s] = row]

Unlocked(s) == [p \in Payments |-> IF lock[p] = s THEN None ELSE lock[p]]

Leave_KeepsLock(s) == /\ Move(s, Idle)
                      /\ UNCHANGED lock

(* End of the request: the transaction is over and its row locks are free. *)
Leave(s) == /\ Move(s, Idle)
            /\ lock' = Unlocked(s)

(* An exception: get_db rolls back and the caller gets 400 or 500. *)
Reject(s) == Leave(s) /\ UNCHANGED <<rows, charged, acked, crashes>>

(* The last commit of a webhook request adds the execution record in the    *)
(* same transaction (uq_integration_executions_tenant_idempotency).          *)
Recorded(s) == execs \cup {Key(tx[s].notice)}
KeyFree(s)  == Key(tx[s].notice) \notin execs

Answer200(s) == acked' = acked \cup {tx[s].notice}
-----------------------------------------------------------------------------
(* POST /subscription or /subscription/change-plan for a paid plan: the    *)
(* invoice is committed on its own, before any payment exists.             *)
CreateInvoice_Draft(i, plan) ==
  /\ invoice[i].status = "NONE"
  /\ invoice' = [invoice EXCEPT ![i] = [status |-> "DRAFT", plan |-> plan, linked |-> TRUE]]
  /\ UNCHANGED <<payment, sub, subRows, activations, execs, lock, tx, charged, acked, crashes>>

CreateInvoice(i, plan) ==
  /\ invoice[i].status = "NONE"
  /\ subRows <= 1                 \* scalar_one_or_none raises on two
  /\ invoice' = [invoice EXCEPT ![i] = [status |-> "ISSUED", plan |-> plan,
                                        linked |-> subRows = 1]]
  /\ UNCHANGED <<payment, sub, subRows, activations, execs, lock, tx, charged, acked, crashes>>

(* create_payment_intent: the provider opens a transaction, then the row is *)
(* inserted.  The status of the invoice is not looked at.  A provider that  *)
(* names no transaction leaves the order id as provider_payment_id.         *)
CreatePaymentIntent(p, r, ref) ==
  LET i == OrderOf[r] IN
  /\ payment[p].status = "NONE"
  /\ invoice[i].status # "NONE"
  /\ r \notin charged
  /\ ref \in {r, i}
  /\ \A q \in Payments : payment[q].ref # ref   \* uq_payments_tenant_provider_payment_id
  /\ charged' = charged \cup {r}
  /\ payment' = [payment EXCEPT ![p] = [status |-> "PENDING", invoice |-> i, ref |-> ref,
                                        paidAt |-> FALSE]]
  /\ UNCHANGED <<invoice, sub, subRows, activations, execs, lock, tx, acked, crashes>>

(* The provider opened the transaction and the insert never committed. *)
LosePaymentIntent(r) ==
  /\ crashes < MaxCrashes
  /\ invoice[OrderOf[r]].status # "NONE"
  /\ r \notin charged
  /\ charged' = charged \cup {r}
  /\ crashes' = crashes + 1
  /\ UNCHANGED <<rows, lock, tx, acked>>
-----------------------------------------------------------------------------
(* A notification arrives, perhaps for the second time.  The invoice is    *)
(* found by the order id and the signature and amount are checked; a       *)
(* wrong amount is refused without effect.                                 *)
AnswerDuplicate(n) ==
  /\ n.tx \in charged
  /\ Key(n) \in execs
  /\ acked' = acked \cup {n}
  /\ UNCHANGED <<rows, lock, tx, charged, crashes>>

StartWebhook(s, n) ==
  /\ tx[s].pc = "idle"
  /\ n.tx \in charged
  /\ Key(n) \notin execs
  /\ n.exact
  /\ Move(s, [tx[s] EXCEPT !.pc = "byRef", !.notice = n])
  /\ UNCHANGED <<rows, lock, charged, acked, crashes>>

LockPayment(s, p) ==
  /\ lock' = [lock EXCEPT ![p] = s]
  /\ Move(s, [tx[s] EXCEPT !.pc = "locked", !.pay = p, !.seen = payment[p].status])
  /\ UNCHANGED <<rows, charged, acked, crashes>>

(* SELECT ... WHERE provider_payment_id = transaction_id FOR UPDATE *)
FindByProviderId_NoWait(s) ==
  /\ tx[s].pc = "byRef"
  /\ \E p \in Payments : payment[p].ref = tx[s].notice.tx /\ LockPayment(s, p)

FindByProviderId(s) ==
  /\ tx[s].pc = "byRef"
  /\ \E p \in Payments : /\ payment[p].ref = tx[s].notice.tx
                         /\ lock[p] = None
                         /\ LockPayment(s, p)

MissByProviderId(s) ==
  /\ tx[s].pc = "byRef"
  /\ \A p \in Payments : payment[p].ref # tx[s].notice.tx
  /\ Move(s, [tx[s] EXCEPT !.pc = "byInvoice"])
  /\ UNCHANGED <<rows, lock, charged, acked, crashes>>

PendingOf(i) == {p \in Payments : payment[p].invoice = i /\ payment[p].status = "PENDING"}

(* SELECT ... WHERE invoice_id = order_id AND status = PENDING FOR UPDATE:  *)
(* waits for every row it matches, and scalar_one_or_none raises on two.    *)
FindByInvoice(s) ==
  LET found == PendingOf(Order(tx[s].notice)) IN
  /\ tx[s].pc = "byInvoice"
  /\ \A p \in found : lock[p] = None
  /\ \/ \E p \in found : found = {p} /\ LockPayment(s, p)
     \/ (\A p \in found : found # {p}) /\ Reject(s)
-----------------------------------------------------------------------------
(* confirm_payment_success up to InvoiceService.update_status, whose own    *)
(* commit makes both rows visible and gives up the payment's row lock.      *)
SettlePayment_InvoiceOnly(s) ==
  LET p == tx[s].pay IN
  /\ tx[s].pc = "locked"
  /\ Normalized(tx[s].notice) = "SUCCEEDED"
  /\ tx[s].seen # "SUCCEEDED"
  /\ ValidPaymentMove(tx[s].seen, "SUCCEEDED")
  /\ invoice' = [invoice EXCEPT ![payment[p].invoice].status = "PAID"]
  /\ lock' = Unlocked(s)
  /\ Move(s, [tx[s] EXCEPT !.pc = "paid"])
  /\ UNCHANGED <<payment, sub, subRows, activations, execs, charged, acked, crashes>>

SettlePayment_Again(s) ==
  LET p == tx[s].pay IN
  /\ tx[s].pc = "locked"
  /\ Normalized(tx[s].notice) = "SUCCEEDED"
  /\ ValidPaymentMove(tx[s].seen, "SUCCEEDED")
  /\ payment' = [payment EXCEPT ![p].status = "SUCCEEDED", ![p].ref = tx[s].notice.tx,
                                ![p].paidAt = TRUE]
  /\ invoice' = [invoice EXCEPT ![payment[p].invoice].status = "PAID"]
  /\ lock' = Unlocked(s)
  /\ Move(s, [tx[s] EXCEPT !.pc = "paid"])
  /\ UNCHANGED <<sub, subRows, activations, execs, charged, acked, crashes>>

ToSettle(s) == /\ tx[s].pc = "locked"
               /\ Normalized(tx[s].notice) = "SUCCEEDED"
               /\ tx[s].seen # "SUCCEEDED"
               /\ ValidPaymentMove(tx[s].seen, "SUCCEEDED")

(* uq_payments_tenant_provider_payment_id: the payment found by its invoice  *)
(* takes over the transaction id, which another row may have by then.        *)
RefFree(s) == \A q \in Payments \ {tx[s].pay} : payment[q].ref # tx[s].notice.tx

SettlePayment(s) ==
  LET p == tx[s].pay IN
  /\ ToSettle(s)
  /\ RefFree(s)
  /\ payment' = [payment EXCEPT ![p].status = "SUCCEEDED", ![p].ref = tx[s].notice.tx,
                                ![p].paidAt = TRUE]
  /\ invoice' = [invoice EXCEPT ![payment[p].invoice].status = "PAID"]
  /\ lock' = Unlocked(s)
  /\ Move(s, [tx[s] EXCEPT !.pc = "paid"])
  /\ UNCHANGED <<sub, subRows, activations, execs, charged, acked, crashes>>

(* Nothing to change: already settled, already failed, or a status that     *)
(* handle_provider_webhook does not act on.                                 *)
AlreadyApplied(s) ==
  /\ tx[s].pc = "locked"
  /\ Normalized(tx[s].notice) \in {"SUCCEEDED", "FAILED"} =>
        tx[s].seen = Normalized(tx[s].notice)
  /\ Move(s, [tx[s] EXCEPT !.pc = "done"])
  /\ UNCHANGED <<rows, lock, charged, acked, crashes>>

RefuseMove(s) ==
  /\ tx[s].pc = "locked"
  /\ Normalized(tx[s].notice) \in {"SUCCEEDED", "FAILED"}
  /\ ~ ValidPaymentMove(tx[s].seen, Normalized(tx[s].notice))
  /\ Reject(s)

(* Second transaction of confirm_payment_success: the subscription is read  *)
(* if the invoice has one.                                                  *)
Linked(p) == invoice[payment[p].invoice].linked

LoadForActivation(s) ==
  /\ tx[s].pc = "paid"
  /\ \/ /\ Linked(tx[s].pay)
        /\ subRows = 1
        /\ Move(s, [tx[s] EXCEPT !.pc = "activate", !.snap = sub])
     \/ /\ ~ Linked(tx[s].pay)
        /\ Move(s, [tx[s] EXCEPT !.pc = "done"])
  /\ UNCHANGED <<rows, lock, charged, acked, crashes>>

(* activate_subscription with the plan the subscription already has, then   *)
(* the execution record and the final commit.                               *)
CommitActivation(s) ==
  LET old == tx[s].snap IN
  /\ tx[s].pc = "activate"
  /\ ValidSubscriptionMove(old.status, "ACTIVE")
  /\ KeyFree(s)
  /\ sub' = Flush(old, [old EXCEPT !.status = "ACTIVE"])
  /\ activations' = [activations EXCEPT ![tx[s].pay] = @ + 1]
  /\ execs' = Recorded(s)
  /\ Answer200(s)
  /\ Leave(s)
  /\ UNCHANGED <<invoice, payment, subRows, charged, crashes>>

(* record_payment_failure; the row lock is still held. *)
ToFail(s) == /\ tx[s].pc = "locked"
             /\ Normalized(tx[s].notice) = "FAILED"
             /\ tx[s].seen # "FAILED"
             /\ ValidPaymentMove(tx[s].seen, "FAILED")

LoadForFailure(s) ==
  /\ ToFail(s)
  /\ subRows = 1
  /\ Move(s, [tx[s] EXCEPT !.pc = "failing", !.snap = sub])
  /\ UNCHANGED <<rows, lock, charged, acked, crashes>>

CommitFailure(s) ==
  LET old == tx[s].snap IN
  /\ tx[s].pc = "failing"
  /\ ValidSubscriptionMove(old.status, "PAST_DUE")
  /\ KeyFree(s)
  /\ payment' = [payment EXCEPT ![tx[s].pay].status = "FAILED"]
  /\ sub' = Flush(old, [old EXCEPT !.status = "PAST_DUE"])
  /\ execs' = Recorded(s)
  /\ Answer200(s)
  /\ Leave(s)
  /\ UNCHANGED <<invoice, subRows, activations, charged, crashes>>

CommitUnchanged(s) ==
  /\ tx[s].pc = "done"
  /\ KeyFree(s)
  /\ execs' = Recorded(s)
  /\ Answer200(s)
  /\ Leave(s)
  /\ UNCHANGED <<invoice, payment, sub, subRows, activations, charged, crashes>>

(* The transaction fails: the transaction id is another payment's,           *)
(* get_subscription raises on no row and on two, the table refuses a status  *)
(* change, or another session has inserted the execution record first.       *)
RollBack(s) ==
  /\ \/ tx[s].pc = "paid" /\ Linked(tx[s].pay) /\ subRows # 1
     \/ ToSettle(s) /\ ~ RefFree(s)
     \/ ToFail(s) /\ subRows # 1
     \/ tx[s].pc = "activate" /\ ~ ValidSubscriptionMove(tx[s].snap.status, "ACTIVE")
     \/ tx[s].pc = "failing" /\ ~ ValidSubscriptionMove(tx[s].snap.status, "PAST_DUE")
     \/ tx[s].pc \in {"activate", "failing", "done"} /\ ~ KeyFree(s)
  /\ Reject(s)

(* The process dies or the connection is lost: whatever was not committed is *)
(* gone, and the caller has no answer.                                       *)
Crash(s) ==
  /\ crashes < MaxCrashes
  /\ tx[s].pc # "idle"
  /\ Leave(s)
  /\ crashes' = crashes + 1
  /\ UNCHANGED <<rows, charged, acked>>
-----------------------------------------------------------------------------
(* Requests of the tenant that read the subscription first and write it when *)
(* they commit: "trial" is create_trial_subscription (provisioning, or the   *)
(* first WhatsApp message), "upgrade" POST /subscription and "switch" POST   *)
(* change-plan for the free plan, "cancel" POST /subscription/cancel.        *)
LoadForUser(s, op) ==
  /\ tx[s].pc = "idle"
  /\ op \in UserOps
  /\ subRows <= 1
  /\ op = "trial" => subRows = 0                \* else the row is returned as it is
  /\ op \in {"switch", "cancel"} => subRows = 1 \* else SubscriptionNotFoundError
  /\ Move(s, [tx[s] EXCEPT !.pc = op, !.snap = sub])
  /\ UNCHANGED <<rows, lock, charged, acked, crashes>>

InsertSubscription(row) ==
  /\ sub' = IF subRows = 0 THEN row ELSE sub
  /\ subRows' = subRows + 1              \* no unique constraint on tenant_id

UpdateSubscription(old, new) ==
  /\ ValidSubscriptionMove(old.status, new.status)
  /\ sub' = Flush(old, new)
  /\ UNCHANGED subRows

Upgraded_KeepsPlan(old) == [old EXCEPT !.status = "ACTIVE"]
Upgraded(old) == [status |-> "ACTIVE", plan |-> FreePlan]

CommitUser(s) ==
  LET old == tx[s].snap IN
  /\ \/ /\ tx[s].pc = "trial"
        /\ InsertSubscription([status |-> "TRIALING", plan |-> TrialPlan])
     \/ /\ tx[s].pc = "upgrade" /\ old = NoSub
        /\ InsertSubscription(Upgraded(old))
     \/ /\ tx[s].pc = "upgrade" /\ old # NoSub
        /\ UpdateSubscription(old, Upgraded(old))
     \/ /\ tx[s].pc = "switch"
        /\ UpdateSubscription(old, [old EXCEPT !.plan = FreePlan])
     \/ /\ tx[s].pc = "cancel"
        /\ UpdateSubscription(old, [old EXCEPT !.status = "CANCELLED_PENDING_EXPIRY"])
  /\ Leave(s)
  /\ UNCHANGED <<invoice, payment, activations, execs, charged, acked, crashes>>

(* InvalidSubscriptionStateError *)
RefuseCancel(s) ==
  /\ tx[s].pc = "cancel"
  /\ ~ ValidSubscriptionMove(tx[s].snap.status, "CANCELLED_PENDING_EXPIRY")
  /\ Reject(s)
-----------------------------------------------------------------------------
(* midtrans_cancel_payment reads the payment without a lock, whatever its    *)
(* status, and asks the provider.  A copy that is CANCELLED already has      *)
(* nothing to flush, so that request shows nothing here.                     *)
LoadForCancel(s, p) ==
  /\ tx[s].pc = "idle"
  /\ payment[p].status \notin {"NONE", "CANCELLED"}
  /\ Move(s, [tx[s] EXCEPT !.pc = "cancelling", !.pay = p])
  /\ UNCHANGED <<rows, lock, charged, acked, crashes>>

(* The provider has cancelled: CANCELLED is written over whatever status the *)
(* row has by now, without the table, when its UPDATE gets the row lock.     *)
CommitCancel(s) ==
  /\ tx[s].pc = "cancelling"
  /\ lock[tx[s].pay] = None
  /\ payment' = [payment EXCEPT ![tx[s].pay].status = "CANCELLED"]
  /\ Leave(s)
  /\ UNCHANGED <<invoice, sub, subRows, activations, execs, charged, acked, crashes>>

CancelRefused(s) == tx[s].pc = "cancelling" /\ Reject(s)

(* execute_approved_refund holds the row lock from its read to its commit,   *)
(* so to the others it is one step; RefundExecution has its parts.           *)
RefundPayment(p, new) ==
  /\ lock[p] = None
  /\ new \in {"PARTIALLY_REFUNDED", "REFUNDED"}
  /\ ValidPaymentMove(payment[p].status, new)
  /\ payment' = [payment EXCEPT ![p].status = new]
  /\ UNCHANGED <<invoice, sub, subRows, activations, execs, lock, tx, charged, acked, crashes>>
-----------------------------------------------------------------------------
(* Steps a running request takes by itself. *)
Step(s) ==
  \/ FindByProviderId(s) \/ MissByProviderId(s) \/ FindByInvoice(s)
  \/ SettlePayment(s) \/ AlreadyApplied(s) \/ RefuseMove(s)
  \/ LoadForActivation(s) \/ CommitActivation(s)
  \/ LoadForFailure(s) \/ CommitFailure(s)
  \/ CommitUnchanged(s) \/ RollBack(s)
  \/ CommitUser(s) \/ RefuseCancel(s)
  \/ CommitCancel(s) \/ CancelRefused(s)

Deliver(n) ==
  \/ AnswerDuplicate(n)
  \/ \E s \in Sessions : StartWebhook(s, n)

(* No request is running: the server waits.  A state that cannot move        *)
(* otherwise is one where a request waits for ever.                          *)
Quiet == (\A s \in Sessions : tx[s].pc = "idle") /\ UNCHANGED vars

Next ==
  \/ \E i \in Invoices, plan \in PaidPlans : CreateInvoice(i, plan)
  \/ \E p \in Payments, r \in TxIds, ref \in TxIds \cup Invoices : CreatePaymentIntent(p, r, ref)
  \/ \E r \in TxIds : LosePaymentIntent(r)
  \/ \E n \in Notices : Deliver(n)
  \/ \E s \in Sessions : Step(s)
  \/ \E s \in Sessions : Crash(s)
  \/ \E s \in Sessions, op \in UserOps : LoadForUser(s, op)
  \/ \E s \in Sessions, p \in Payments : LoadForCancel(s, p)
  \/ \E p \in Payments, new \in PaymentStatus : RefundPayment(p, new)
  \/ Quiet

Spec == Init /\ [][Next]_vars

(* Row locks are granted in turn, so a request that can proceed again and    *)
(* again does; the provider repeats a notification until it is answered 200. *)
Fairness ==
  /\ \A s \in Sessions : SF_vars(Step(s))
  /\ \A n \in Notices : SF_vars(n \notin acked /\ Deliver(n))

FairSpec == Spec /\ Fairness
-----------------------------------------------------------------------------
(* Every variable keeps its type, and crashes stay within their bound.       *)
TypeOK ==
  /\ invoice \in [Invoices -> InvoiceRow]
  /\ payment \in [Payments -> PaymentRow]
  /\ sub \in SubRow
  /\ subRows \in Nat
  /\ activations \in [Payments -> Nat]
  /\ execs \subseteq TxIds \X (Kinds \cup {"capture"})
  /\ lock \in [Payments -> Sessions \cup {None}]
  /\ tx \in [Sessions -> SessionRow]
  /\ charged \subseteq TxIds
  /\ acked \subseteq Notices
  /\ crashes \in 0..MaxCrashes

(* confirm_payment_success commits the payment and its invoice together: an  *)
(* invoice is PAID exactly when one of its payments has settled (paid_at),   *)
(* whichever crash, duplicate or rollback follows the commit in              *)
(* update_status, and whatever a cancellation or a refund does to the        *)
(* payment's status afterwards: neither touches the invoice.                 *)
PaidIffSettled ==
  \A i \in Invoices :
    invoice[i].status = "PAID" <=>
      \E p \in Payments : payment[p].invoice = i /\ payment[p].paidAt

(* What a webhook decided on is still so when it acts: from SELECT ... FOR   *)
(* UPDATE to its own commit no other request changes the payment's status.   *)
SnapshotIsCurrent ==
  \A s \in Sessions :
    tx[s].pc \in {"locked", "failing"} => payment[tx[s].pay].status = tx[s].seen

(* The provider's verdicts do not overwrite each other when a settlement, a  *)
(* denial and a cancellation of one payment are handled at once: FAILED      *)
(* gives way to a cancellation only, a payment that has settled is never     *)
(* open or FAILED again, a CANCELLED one never settles, and a PAID invoice   *)
(* stays PAID.                                                               *)
OutcomeIsFinal ==
  [][ /\ \A p \in Payments :
           /\ payment[p].status = "FAILED" => payment'[p].status \in {"FAILED", "CANCELLED"}
           /\ payment[p].status = "CANCELLED" => payment'[p] = payment[p]
           /\ payment[p].paidAt => /\ payment'[p].paidAt
                                  /\ payment'[p].status \notin {"PENDING", "FAILED"}
      /\ \A i \in Invoices : invoice[i].status = "PAID" => invoice'[i].status = "PAID" ]_vars

(* The payment has settled by the transaction, whatever its status is now.   *)
SettledBy(n, p) == payment[p].ref = n.tx /\ payment[p].paidAt

(* A settlement answered with 200, at once or as a duplicate of a recorded   *)
(* one, has settled a payment (which may be cancelled or refunded later).    *)
AcknowledgedMeansApplied ==
  \A n \in acked : n.kind = "settlement" => \E p \in Payments : SettledBy(n, p)

(* The same for an accepted card payment (transaction_status "capture").     *)
AcceptedMeansApplied ==
  \A n \in acked : n.kind = "accept" => \E p \in Payments : SettledBy(n, p)

(* A payment activates the subscription at most once, whatever is delivered  *)
(* again, and only after it has settled an invoice of the subscription.      *)
OneActivationPerPayment ==
  \A p \in Payments :
    /\ activations[p] <= 1
    /\ activations[p] = 1 => payment[p].paidAt /\ Linked(p)

(* A subscription is ACTIVE on a plan with a price only if a payment was     *)
(* settled, however requests of the tenant and webhooks overwrite columns.   *)
NoUnpaidPaidPlan ==
  sub.status = "ACTIVE" /\ sub.plan \in PaidPlans =>
    \E p \in Payments : activations[p] = 1

(* "Idempotently confirms payment success, updates invoice to PAID, and      *)
(* reactivates subscription" (payments.py:145): once no request is running,  *)
(* a settlement answered with 200 has activated the subscription it pays.    *)
AcknowledgedMeansActivated ==
  (\A s \in Sessions : tx[s].pc = "idle") =>
  \A n \in acked, p \in Payments :
    n.kind = "settlement" /\ SettledBy(n, p) /\ Linked(p) => activations[p] >= 1

(* A settled transaction that matches an open payment is not ignored for     *)
(* ever: the payment leaves PENDING, by this notification or another one.    *)
SettlementIsApplied ==
  \A n \in Notices, p \in Payments :
    (/\ n.kind = "settlement" /\ n.exact
     /\ payment[p].ref = n.tx /\ payment[p].status = "PENDING")
      ~> payment[p].status # "PENDING"

Ledger == INSTANCE PaymentLedger WITH
            status      <- [p \in Payments |-> payment[p].status],
            invoiceOf   <- [p \in Payments |-> payment[p].invoice],
            settled     <- {p \in Payments : payment[p].paidAt},
            paid        <- {i \in Invoices : invoice[i].status = "PAID"},
            activations <- activations

(* The service implements the ledger: with its locks, commits and rollbacks  *)
(* every step is one step of the ledger or changes nothing it shows.         *)
LedgerSpec == Ledger!Spec
=============================================================================
