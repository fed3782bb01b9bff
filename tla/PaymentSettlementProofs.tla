----------------------- MODULE PaymentSettlementProofs -----------------------
(***************************************************************************)
(* Proofs about PaymentSettlement, for any number of requests, invoices,   *)
(* payments, transactions and notifications and any number of crashes.     *)
(***************************************************************************)
EXTENDS PaymentSettlement, TLAPS

USE DEF Kinds, UserOpType, SubscriptionStatus, PaymentStatus

-----------------------------------------------------------------------------
(* Which fields of a session are set at which point of a webhook request.    *)
FieldsSet(row) ==
  /\ row.pc \in {"byRef", "byInvoice", "locked", "failing", "paid", "activate", "done"}
       => row.notice \in Notices
  /\ row.pc \in {"locked", "failing", "paid", "activate", "done", "cancelling"}
       => row.pay \in Payments

SessionOK == \A s \in Sessions : FieldsSet(tx[s])

(* Every notification normalizes to one of four statuses.                    *)
LEMMA NoticeFacts ==
  ASSUME NEW n \in Notices
  PROVE  /\ n \in NoticeType
         /\ Normalized(n) \in {"SUCCEEDED", "FAILED", "PENDING", "EXPIRED"}
         /\ Key(n) \in TxIds \X (Kinds \cup {"capture"})
         /\ Order(n) \in Invoices
  BY NoticesAssumption, OrderAssumption DEF NoticeType, Normalized, Key, RawStatus, Order

(* A flush writes a well-typed row.                                          *)
LEMMA FlushType ==
  ASSUME TypeOK, NEW old \in SubRow, NEW new \in SubRow
  PROVE  Flush(old, new) \in SubRow
  BY DEF TypeOK, SubRow, Flush

LEMMA IdleFacts == Idle \in SessionRow /\ FieldsSet(Idle) /\ NoSub \in SubRow
  BY DEF Idle, SessionRow, SubRow, NoSub, FieldsSet

(* A session that moves to a well-formed row leaves all sessions well formed. *)
LEMMA MoveType ==
  ASSUME TypeOK, SessionOK, NEW s \in Sessions, NEW row \in SessionRow,
         FieldsSet(row), Move(s, row)
  PROVE  tx' \in [Sessions -> SessionRow] /\ SessionOK'
  BY DEF TypeOK, SessionOK, Move, FieldsSet

(* The end of a request keeps sessions and locks well formed.                *)
LEMMA LeaveType ==
  ASSUME TypeOK, SessionOK, NEW s \in Sessions, Leave(s)
  PROVE  /\ tx' \in [Sessions -> SessionRow]
         /\ SessionOK'
         /\ lock' \in [Payments -> Sessions \cup {None}]
  BY IdleFacts, MoveType DEF TypeOK, Leave, Unlocked

LEMMA RejectType ==
  ASSUME TypeOK, SessionOK, NEW s \in Sessions, Reject(s)
  PROVE  TypeOK' /\ SessionOK'
  BY LeaveType DEF TypeOK, Reject, rows

LEMMA LockPaymentType ==
  ASSUME TypeOK, SessionOK, NEW s \in Sessions, NEW p \in Payments,
         tx[s].notice \in Notices, LockPayment(s, p)
  PROVE  TypeOK' /\ SessionOK'
  <1> DEFINE row == [tx[s] EXCEPT !.pc = "locked", !.pay = p, !.seen = payment[p].status]
  <1>1. tx[s] \in SessionRow /\ payment[p].status \in {"NONE"} \cup PaymentStatus
    BY DEF TypeOK, PaymentRow
  <1>2. row \in SessionRow /\ FieldsSet(row)
    BY <1>1 DEF SessionRow, FieldsSet
  <1>3. tx' \in [Sessions -> SessionRow] /\ SessionOK'
    BY <1>2, MoveType DEF LockPayment
  <1> QED
    BY <1>3 DEF TypeOK, LockPayment, rows

LEMMA InitType == Init => TypeOK /\ SessionOK
  BY IdleFacts, BoundAssumption DEF Init, TypeOK, SessionOK, InvoiceRow, PaymentRow

(* Requests that only change rows of the tables.                             *)
LEMMA CreateType ==
  ASSUME TypeOK, SessionOK,
         \/ \E i \in Invoices, plan \in PaidPlans : CreateInvoice(i, plan)
         \/ \E p \in Payments, r \in TxIds, ref \in TxIds \cup Invoices : CreatePaymentIntent(p, r, ref)
         \/ \E r \in TxIds : LosePaymentIntent(r)
         \/ \E n \in Notices : AnswerDuplicate(n)
  PROVE  TypeOK' /\ SessionOK'
  <1>1. ASSUME NEW i \in Invoices, NEW plan \in PaidPlans, CreateInvoice(i, plan)
        PROVE  TypeOK' /\ SessionOK'
    BY <1>1 DEF TypeOK, SessionOK, CreateInvoice, InvoiceRow
  <1>2. ASSUME NEW p \in Payments, NEW r \in TxIds, NEW ref \in TxIds \cup Invoices,
               CreatePaymentIntent(p, r, ref)
        PROVE  TypeOK' /\ SessionOK'
    <2>1. OrderOf[r] \in Invoices
      BY OrderAssumption
    <2> QED
      BY <1>2, <2>1 DEF TypeOK, SessionOK, CreatePaymentIntent, PaymentRow
  <1>3. ASSUME NEW r \in TxIds, LosePaymentIntent(r)
        PROVE  TypeOK' /\ SessionOK'
    BY <1>3, BoundAssumption DEF TypeOK, SessionOK, LosePaymentIntent, rows
  <1>4. ASSUME NEW n \in Notices, AnswerDuplicate(n)
        PROVE  TypeOK' /\ SessionOK'
    BY <1>4 DEF TypeOK, SessionOK, AnswerDuplicate, rows
  <1> QED
    BY <1>1, <1>2, <1>3, <1>4

(* The steps of a webhook request.                                           *)
LEMMA WebhookType ==
  ASSUME TypeOK, SessionOK, NEW s \in Sessions,
         \/ \E n \in Notices : StartWebhook(s, n)
         \/ FindByProviderId(s) \/ MissByProviderId(s) \/ FindByInvoice(s)
         \/ SettlePayment(s) \/ AlreadyApplied(s) \/ RefuseMove(s)
         \/ LoadForActivation(s) \/ LoadForFailure(s)
         \/ CommitActivation(s) \/ CommitFailure(s) \/ CommitUnchanged(s) \/ RollBack(s)
  PROVE  TypeOK' /\ SessionOK'
  <1>t. tx[s] \in SessionRow /\ FieldsSet(tx[s])
    BY DEF TypeOK, SessionOK
  <1>1. ASSUME NEW n \in Notices, StartWebhook(s, n)
        PROVE  TypeOK' /\ SessionOK'
    <2> DEFINE row == [tx[s] EXCEPT !.pc = "byRef", !.notice = n]
    <2>1. row \in SessionRow /\ FieldsSet(row)
      BY <1>t DEF SessionRow, FieldsSet
    <2> QED
      BY <1>1, <2>1, MoveType DEF TypeOK, StartWebhook, rows
  <1>2. CASE FindByProviderId(s)
    BY <1>2, <1>t, LockPaymentType DEF FindByProviderId, FieldsSet
  <1>3. CASE MissByProviderId(s)
    <2> DEFINE row == [tx[s] EXCEPT !.pc = "byInvoice"]
    <2>1. row \in SessionRow /\ FieldsSet(row)
      BY <1>t, <1>3 DEF SessionRow, FieldsSet, MissByProviderId
    <2> QED
      BY <1>3, <2>1, MoveType DEF TypeOK, MissByProviderId, rows
  <1>4. CASE FindByInvoice(s)
    BY <1>4, <1>t, LockPaymentType, RejectType DEF FindByInvoice, FieldsSet, PendingOf
  <1>5. CASE SettlePayment(s)
    <2> DEFINE row == [tx[s] EXCEPT !.pc = "paid"]
               p == tx[s].pay
    <2>1. p \in Payments /\ tx[s].notice.tx \in TxIds
      BY <1>5, <1>t, NoticeFacts DEF SettlePayment, ToSettle, FieldsSet, NoticeType
    <2>2. row \in SessionRow /\ FieldsSet(row)
      BY <1>t, <1>5 DEF SessionRow, FieldsSet, SettlePayment, ToSettle
    <2>3. tx' \in [Sessions -> SessionRow] /\ SessionOK'
      BY <1>5, <2>2, MoveType DEF SettlePayment, ToSettle
    <2>4. payment' \in [Payments -> PaymentRow]
      BY <1>5, <2>1 DEF SettlePayment, ToSettle, TypeOK, PaymentRow
    <2>5. invoice' \in [Invoices -> InvoiceRow]
      BY <1>5, <2>1 DEF SettlePayment, ToSettle, TypeOK, InvoiceRow
    <2>6. lock' \in [Payments -> Sessions \cup {None}]
      BY <1>5 DEF SettlePayment, ToSettle, TypeOK, Unlocked
    <2> QED
      BY <1>5, <2>3, <2>4, <2>5, <2>6 DEF SettlePayment, ToSettle, TypeOK
  <1>6. CASE AlreadyApplied(s)
    <2> DEFINE row == [tx[s] EXCEPT !.pc = "done"]
    <2>1. row \in SessionRow /\ FieldsSet(row)
      BY <1>t, <1>6 DEF SessionRow, FieldsSet, AlreadyApplied
    <2> QED
      BY <1>6, <2>1, MoveType DEF TypeOK, AlreadyApplied, rows
  <1>7. CASE RefuseMove(s)
    BY <1>7, RejectType DEF RefuseMove
  <1>8. CASE LoadForActivation(s)
    <2> DEFINE active == [tx[s] EXCEPT !.pc = "activate", !.snap = sub]
               done == [tx[s] EXCEPT !.pc = "done"]
    <2>1. active \in SessionRow /\ FieldsSet(active) /\ done \in SessionRow /\ FieldsSet(done)
      BY <1>t, <1>8 DEF SessionRow, FieldsSet, LoadForActivation, TypeOK
    <2> QED
      BY <1>8, <2>1, MoveType DEF TypeOK, LoadForActivation, rows
  <1>9. CASE LoadForFailure(s)
    <2> DEFINE row == [tx[s] EXCEPT !.pc = "failing", !.snap = sub]
    <2>1. row \in SessionRow /\ FieldsSet(row)
      BY <1>t, <1>9 DEF SessionRow, FieldsSet, LoadForFailure, ToFail, TypeOK
    <2> QED
      BY <1>9, <2>1, MoveType DEF TypeOK, LoadForFailure, rows
  <1>10. ASSUME Leave(s), execs' = Recorded(s), Answer200(s),
                tx[s].pc \in {"activate", "failing", "done"}
         PROVE  /\ execs' \subseteq TxIds \X (Kinds \cup {"capture"})
                /\ acked' \subseteq Notices
    BY <1>10, <1>t, NoticeFacts DEF Recorded, Answer200, FieldsSet, TypeOK
  <1>11. CASE CommitActivation(s)
    <2>1. sub' \in SubRow
      <3>1. tx[s].snap \in SubRow /\ [tx[s].snap EXCEPT !.status = "ACTIVE"] \in SubRow
        BY <1>t DEF SessionRow, SubRow
      <3> QED
        BY <1>11, <3>1, FlushType DEF CommitActivation
    <2>2. activations' \in [Payments -> Nat]
      BY <1>11, <1>t DEF CommitActivation, TypeOK, FieldsSet
    <2> QED
      BY <1>11, <1>10, <2>1, <2>2, LeaveType DEF CommitActivation, TypeOK
  <1>12. CASE CommitFailure(s)
    <2>1. sub' \in SubRow
      <3>1. tx[s].snap \in SubRow /\ [tx[s].snap EXCEPT !.status = "PAST_DUE"] \in SubRow
        BY <1>t DEF SessionRow, SubRow
      <3> QED
        BY <1>12, <3>1, FlushType DEF CommitFailure
    <2>2. payment' \in [Payments -> PaymentRow]
      BY <1>12 DEF CommitFailure, TypeOK, PaymentRow
    <2> QED
      BY <1>12, <1>10, <2>1, <2>2, LeaveType DEF CommitFailure, TypeOK
  <1>13. CASE CommitUnchanged(s)
    BY <1>13, <1>10, LeaveType DEF CommitUnchanged, TypeOK
  <1>14. CASE RollBack(s)
    BY <1>14, RejectType DEF RollBack
  <1> QED
    BY <1>1, <1>2, <1>3, <1>4, <1>5, <1>6, <1>7, <1>8, <1>9, <1>11, <1>12, <1>13, <1>14

(* The steps of the tenant's own requests.                                   *)
LEMMA UserType ==
  ASSUME TypeOK, SessionOK, NEW s \in Sessions,
         \/ \E op \in UserOps : LoadForUser(s, op)
         \/ CommitUser(s) \/ RefuseCancel(s)
  PROVE  TypeOK' /\ SessionOK'
  <1>t. tx[s] \in SessionRow /\ sub \in SubRow
    BY DEF TypeOK
  <1>1. ASSUME NEW op \in UserOps, LoadForUser(s, op)
        PROVE  TypeOK' /\ SessionOK'
    <2> DEFINE row == [tx[s] EXCEPT !.pc = op, !.snap = sub]
    <2>1. row \in SessionRow /\ FieldsSet(row)
      BY <1>t, UserAssumption DEF SessionRow, FieldsSet
    <2> QED
      BY <1>1, <2>1, MoveType DEF TypeOK, LoadForUser, rows
  <1>2. CASE CommitUser(s)
    <2> DEFINE old == tx[s].snap
    <2>1. /\ old \in SubRow
          /\ Upgraded(old) \in SubRow
          /\ [status |-> "TRIALING", plan |-> TrialPlan] \in SubRow
          /\ [old EXCEPT !.plan = FreePlan] \in SubRow
          /\ [old EXCEPT !.status = "CANCELLED_PENDING_EXPIRY"] \in SubRow
      BY <1>t, PlanAssumption DEF SessionRow, SubRow, Upgraded
    <2>2. ASSUME NEW row \in SubRow, InsertSubscription(row)
          PROVE  sub' \in SubRow /\ subRows' \in Nat
      BY <1>t, <2>2 DEF InsertSubscription, TypeOK
    <2>3. ASSUME NEW row \in SubRow, UpdateSubscription(old, row)
          PROVE  sub' \in SubRow /\ subRows' \in Nat
      BY <2>1, <2>3, FlushType DEF UpdateSubscription, TypeOK
    <2>4. sub' \in SubRow /\ subRows' \in Nat
      BY <1>2, <2>1, <2>2, <2>3 DEF CommitUser
    <2> QED
      BY <1>2, <2>4, LeaveType DEF CommitUser, TypeOK
  <1>3. CASE RefuseCancel(s)
    BY <1>3, RejectType DEF RefuseCancel
  <1> QED
    BY <1>1, <1>2, <1>3

(* A cancellation, and a refund.                                             *)
LEMMA CancelType ==
  ASSUME TypeOK, SessionOK,
         \/ \E s \in Sessions :
              \/ \E p \in Payments : LoadForCancel(s, p)
              \/ CommitCancel(s) \/ CancelRefused(s)
         \/ \E p \in Payments, new \in PaymentStatus : RefundPayment(p, new)
  PROVE  TypeOK' /\ SessionOK'
  <1>1. ASSUME NEW s \in Sessions, NEW p \in Payments, LoadForCancel(s, p)
        PROVE  TypeOK' /\ SessionOK'
    <2> DEFINE row == [tx[s] EXCEPT !.pc = "cancelling", !.pay = p]
    <2>1. tx[s] \in SessionRow
      BY DEF TypeOK
    <2>2. row \in SessionRow /\ FieldsSet(row)
      BY <2>1 DEF SessionRow, FieldsSet
    <2> QED
      BY <1>1, <2>2, MoveType DEF TypeOK, LoadForCancel, rows
  <1>2. ASSUME NEW s \in Sessions, CommitCancel(s)
        PROVE  TypeOK' /\ SessionOK'
    <2>1. payment' \in [Payments -> PaymentRow]
      BY <1>2 DEF CommitCancel, TypeOK, PaymentRow, SessionOK, FieldsSet
    <2> QED
      BY <1>2, <2>1, LeaveType DEF CommitCancel, TypeOK
  <1>3. ASSUME NEW s \in Sessions, CancelRefused(s)
        PROVE  TypeOK' /\ SessionOK'
    BY <1>3, RejectType DEF CancelRefused
  <1>4. ASSUME NEW p \in Payments, NEW new \in PaymentStatus, RefundPayment(p, new)
        PROVE  TypeOK' /\ SessionOK'
    <2>1. payment' \in [Payments -> PaymentRow]
      BY <1>4 DEF RefundPayment, TypeOK, PaymentRow
    <2> QED
      BY <1>4, <2>1 DEF RefundPayment, TypeOK, SessionOK
  <1> QED
    BY <1>1, <1>2, <1>3, <1>4

LEMMA NextType == TypeOK /\ SessionOK /\ [Next]_vars => TypeOK' /\ SessionOK'
  <1> SUFFICES ASSUME TypeOK, SessionOK, [Next]_vars
               PROVE  TypeOK' /\ SessionOK'
    OBVIOUS
  <1>1. CASE UNCHANGED vars
    BY <1>1 DEF vars, TypeOK, SessionOK
  <1>2. ASSUME NEW s \in Sessions, Crash(s)
        PROVE  TypeOK' /\ SessionOK'
    BY <1>2, LeaveType, BoundAssumption DEF Crash, TypeOK, rows
  <1>3. CASE Next
    BY <1>1, <1>2, <1>3, CreateType, WebhookType, UserType, CancelType DEF Next, Step, Deliver, Quiet
  <1> QED
    BY <1>1, <1>3

(* Type correctness of every reachable state.                                *)
THEOREM TypeCorrect == Spec => []TypeOK
  <1>1. Spec => [](TypeOK /\ SessionOK)
    BY InitType, NextType, PTL DEF Spec
  <1> QED
    BY <1>1, PTL
-----------------------------------------------------------------------------
(* The inductive invariant.                                                  *)
(*                                                                           *)
(* Rows: a payment that exists belongs to an invoice that exists; one that   *)
(* is open or FAILED has not settled, one that SUCCEEDED or was refunded     *)
(* has; and a cancellation is of a payment that exists.                      *)
Rows ==
  /\ \A p \in Payments :
       /\ payment[p].status = "NONE" => payment[p].invoice = None /\ payment[p].ref = None
       /\ payment[p].status # "NONE" => /\ payment[p].invoice \in Invoices
                                        /\ invoice[payment[p].invoice].status # "NONE"
       /\ payment[p].status \in {"NONE", "PENDING", "FAILED"} => ~ payment[p].paidAt
       /\ payment[p].status \in {"SUCCEEDED", "PARTIALLY_REFUNDED", "REFUNDED"} => payment[p].paidAt
  /\ \A s \in Sessions : tx[s].pc = "cancelling" => payment[tx[s].pay].status # "NONE"

(* Holding: a session between SELECT ... FOR UPDATE and its commit owns the  *)
(* row lock, so the status it saw is the committed one.                      *)
Holding ==
  \A s \in Sessions :
    tx[s].pc \in {"locked", "failing"} =>
      /\ lock[tx[s].pay] = s
      /\ payment[tx[s].pay].status = tx[s].seen
      /\ tx[s].seen # "NONE"
      /\ tx[s].pc = "failing" => tx[s].seen = "PENDING"

(* Settling: a session past the commit in update_status is the only one that *)
(* may still activate for this payment, and none has before.                 *)
Activating(s) == tx[s].pc \in {"paid", "activate"}

Settling ==
  \A s \in Sessions :
    Activating(s) =>
      /\ payment[tx[s].pay].paidAt
      /\ activations[tx[s].pay] = 0
      /\ tx[s].pc = "activate" => Linked(tx[s].pay)
      /\ \A t \in Sessions : Activating(t) /\ tx[t].pay = tx[s].pay => t = s

SettleInv == Rows /\ Holding /\ Settling /\ PaidIffSettled /\ OneActivationPerPayment

LEMMA SettleInvInit == Init => SettleInv
  BY IdAssumption DEF Init, SettleInv, Rows, Holding, Settling, Activating, PaidIffSettled,
     OneActivationPerPayment, Idle

(* A session that ends, with the rows as they were.                          *)
LEMMA LeaveInv ==
  ASSUME TypeOK, SessionOK, SettleInv, NEW s \in Sessions, Leave(s),
         UNCHANGED <<payment, invoice, activations>>
  PROVE  SettleInv'
  <1>1. /\ tx'[s].pc = "idle"
        /\ \A t \in Sessions \ {s} : tx'[t] = tx[t]
    BY DEF Leave, Move, Idle, TypeOK
  <1>2. \A p \in Payments : lock[p] # s => lock'[p] = lock[p]
    BY DEF Leave, Unlocked, TypeOK
  <1>3. Holding'
    BY <1>1, <1>2 DEF SettleInv, Holding, SessionOK, FieldsSet
  <1>4. Settling'
    BY <1>1 DEF SettleInv, Settling, Activating, Linked
  <1>5. Rows'
    BY <1>1 DEF SettleInv, Rows
  <1> QED
    BY <1>3, <1>4, <1>5 DEF SettleInv, PaidIffSettled, OneActivationPerPayment, Linked

LEMMA RejectInv ==
  ASSUME TypeOK, SessionOK, SettleInv, NEW s \in Sessions, Reject(s)
  PROVE  SettleInv'
  BY LeaveInv DEF Reject, rows

(* A session that goes on, with rows and locks as they were.                 *)
LEMMA MoveInv ==
  ASSUME TypeOK, SessionOK, SettleInv, NEW s \in Sessions,
         \A t \in Sessions \ {s} : tx'[t] = tx[t],
         UNCHANGED <<payment, invoice, activations, lock>>,
         tx'[s].pc \notin {"locked", "failing", "paid", "activate"},
         tx'[s].pc = "cancelling" => payment[tx'[s].pay].status # "NONE"
  PROVE  SettleInv'
  <1>1. Holding'
    BY DEF SettleInv, Holding
  <1>2. Settling'
    BY DEF SettleInv, Settling, Activating, Linked
  <1>3. Rows'
    BY DEF SettleInv, Rows
  <1> QED
    BY <1>1, <1>2, <1>3 DEF SettleInv, PaidIffSettled, OneActivationPerPayment, Linked

LEMMA LockPaymentInv ==
  ASSUME TypeOK, SessionOK, SettleInv, NEW s \in Sessions, NEW p \in Payments,
         payment[p].status # "NONE", lock[p] = None,
         tx[s].pc \in {"byRef", "byInvoice"}, LockPayment(s, p)
  PROVE  SettleInv'
  <1>1. /\ tx'[s].pc = "locked" /\ tx'[s].pay = p /\ tx'[s].seen = payment[p].status
        /\ \A t \in Sessions \ {s} : tx'[t] = tx[t]
    BY DEF LockPayment, Move, TypeOK, SessionRow
  <1>2. lock'[p] = s /\ \A q \in Payments \ {p} : lock'[q] = lock[q]
    BY DEF LockPayment, TypeOK
  <1>3. UNCHANGED <<payment, invoice, activations>>
    BY DEF LockPayment, rows
  <1>4. Holding'
    BY <1>1, <1>2, <1>3, IdAssumption DEF SettleInv, Holding, SessionOK, FieldsSet
  <1>5. Settling'
    BY <1>1, <1>3 DEF SettleInv, Settling, Activating, Linked
  <1>6. Rows'
    BY <1>1, <1>3 DEF SettleInv, Rows
  <1> QED
    BY <1>3, <1>4, <1>5, <1>6 DEF SettleInv, PaidIffSettled, OneActivationPerPayment, Linked

(* Opening an invoice or a payment.                                          *)
LEMMA CreateInv ==
  ASSUME TypeOK, SessionOK, SettleInv,
         \/ \E i \in Invoices, plan \in PaidPlans : CreateInvoice(i, plan)
         \/ \E p \in Payments, r \in TxIds, ref \in TxIds \cup Invoices : CreatePaymentIntent(p, r, ref)
  PROVE  SettleInv'
  <1>1. ASSUME NEW i \in Invoices, NEW plan \in PaidPlans, CreateInvoice(i, plan)
        PROVE  SettleInv'
    <2>1. /\ invoice[i].status = "NONE"
          /\ invoice'[i].status = "ISSUED"
          /\ \A j \in Invoices \ {i} : invoice'[j] = invoice[j]
          /\ UNCHANGED <<payment, activations, lock, tx>>
      BY <1>1 DEF CreateInvoice, TypeOK
    <2>2. \A p \in Payments : payment[p].status # "NONE" => payment[p].invoice # i
      BY <2>1 DEF SettleInv, Rows
    <2>3. Rows' /\ Holding'
      BY <2>1 DEF SettleInv, Rows, Holding
    <2>4. \A p \in Payments : payment[p].paidAt => Linked(p)' = Linked(p)
      BY <2>1, <2>2 DEF SettleInv, Rows, Linked
    <2>5. Settling' /\ OneActivationPerPayment'
      BY <2>1, <2>4 DEF SettleInv, Settling, Activating, OneActivationPerPayment, SessionOK, FieldsSet
    <2>6. PaidIffSettled'
      BY <2>1, <2>2 DEF SettleInv, PaidIffSettled
    <2> QED
      BY <2>3, <2>5, <2>6 DEF SettleInv
  <1>2. ASSUME NEW p \in Payments, NEW r \in TxIds, NEW ref \in TxIds \cup Invoices,
               CreatePaymentIntent(p, r, ref)
        PROVE  SettleInv'
    <2>1. /\ payment[p].status = "NONE"
          /\ payment'[p].status = "PENDING" /\ ~ payment'[p].paidAt
          /\ payment'[p].invoice = OrderOf[r]
          /\ OrderOf[r] \in Invoices /\ invoice[OrderOf[r]].status # "NONE"
          /\ \A q \in Payments \ {p} : payment'[q] = payment[q]
          /\ UNCHANGED <<invoice, activations, lock, tx>>
      BY <1>2, OrderAssumption DEF CreatePaymentIntent, TypeOK
    <2>2. Rows'
      BY <2>1 DEF SettleInv, Rows, SessionOK, FieldsSet
    <2>3. Holding'
      BY <2>1 DEF SettleInv, Holding, SessionOK, FieldsSet
    <2>4. Settling' /\ OneActivationPerPayment'
      BY <2>1 DEF SettleInv, Rows, Settling, Activating, OneActivationPerPayment, SessionOK, FieldsSet, Linked, TypeOK
    <2>5. PaidIffSettled'
      BY <2>1 DEF SettleInv, Rows, PaidIffSettled
    <2> QED
      BY <2>2, <2>3, <2>4, <2>5 DEF SettleInv
  <1> QED
    BY <1>1, <1>2

(* The commit in update_status: nobody else holds or activates the payment.  *)
LEMMA SettlePaymentInv ==
  ASSUME TypeOK, SessionOK, SettleInv, NEW s \in Sessions, SettlePayment(s)
  PROVE  SettleInv'
  <1> DEFINE p == tx[s].pay
             i == payment[p].invoice
  <1>1. /\ tx[s].pc = "locked" /\ p \in Payments /\ lock[p] = s
        /\ payment[p].status = "PENDING" /\ ~ payment[p].paidAt /\ i \in Invoices /\ invoice[i].status # "NONE"
    <2>1. tx[s].pc = "locked" /\ tx[s].seen # "SUCCEEDED" /\ ValidPaymentMove(tx[s].seen, "SUCCEEDED")
      BY DEF SettlePayment, ToSettle
    <2>2. p \in Payments /\ lock[p] = s /\ payment[p].status = tx[s].seen
      BY <2>1 DEF SessionOK, FieldsSet, SettleInv, Holding
    <2>3. payment[p].status = "PENDING"
      BY <2>1, <2>2 DEF SettleInv, Rows, ValidPaymentMove, PaymentTransitions
    <2> QED
      BY <2>1, <2>2, <2>3 DEF SettleInv, Rows
  <1>2. /\ payment'[p].status = "SUCCEEDED" /\ payment'[p].invoice = i /\ payment'[p].paidAt
        /\ \A q \in Payments \ {p} : payment'[q] = payment[q]
        /\ invoice'[i].status = "PAID" /\ invoice'[i].linked = invoice[i].linked
        /\ \A j \in Invoices \ {i} : invoice'[j] = invoice[j]
        /\ activations' = activations
    BY <1>1 DEF SettlePayment, ToSettle, TypeOK, PaymentRow, InvoiceRow
  <1>3. /\ tx'[s].pc = "paid" /\ tx'[s].pay = p
        /\ \A t \in Sessions \ {s} : tx'[t] = tx[t]
    BY <1>1 DEF SettlePayment, ToSettle, Move, TypeOK, SessionRow
  <1>4. \A q \in Payments : lock[q] # s => lock'[q] = lock[q]
    BY DEF SettlePayment, ToSettle, Unlocked, TypeOK
  <1>5. \A t \in Sessions \ {s} : tx[t].pc \in {"locked", "failing"} => tx[t].pay # p
    BY <1>1 DEF SettleInv, Holding
  <1>6. \A t \in Sessions : Activating(t) => tx[t].pay # p
    BY <1>1 DEF SettleInv, Settling
  <1>7. activations[p] = 0
    BY <1>1 DEF SettleInv, OneActivationPerPayment, TypeOK
  <1>8. Rows'
    BY <1>1, <1>2, <1>3 DEF SettleInv, Rows, SessionOK, FieldsSet
  <1>9. Holding'
    BY <1>2, <1>3, <1>4, <1>5 DEF SettleInv, Holding, SessionOK, FieldsSet
  <1>10. \A q \in Payments : q = p \/ payment[q].paidAt => Linked(q)' = Linked(q)
    BY <1>1, <1>2 DEF Linked, SettleInv, Rows
  <1>11. Settling'
    BY <1>2, <1>3, <1>6, <1>7, <1>10 DEF SettleInv, Settling, Activating, SessionOK, FieldsSet
  <1>12. PaidIffSettled'
    BY <1>1, <1>2 DEF SettleInv, PaidIffSettled
  <1>13. OneActivationPerPayment'
    BY <1>1, <1>2, <1>10 DEF SettleInv, OneActivationPerPayment
  <1> QED
    BY <1>8, <1>9, <1>11, <1>12, <1>13 DEF SettleInv

LEMMA LoadInv ==
  ASSUME TypeOK, SessionOK, SettleInv, NEW s \in Sessions,
         LoadForActivation(s) \/ LoadForFailure(s)
  PROVE  SettleInv'
  <1>1. /\ UNCHANGED <<payment, invoice, activations, lock>>
        /\ \A t \in Sessions \ {s} : tx'[t] = tx[t]
        /\ tx'[s].pay = tx[s].pay /\ tx'[s].seen = tx[s].seen
        /\ \/ tx[s].pc = "paid" /\ tx'[s].pc = "activate" /\ Linked(tx[s].pay)
           \/ tx[s].pc = "paid" /\ tx'[s].pc = "done"
           \/ /\ tx[s].pc = "locked" /\ tx'[s].pc = "failing"
              /\ tx[s].seen # "FAILED" /\ ValidPaymentMove(tx[s].seen, "FAILED")
    <2>1. tx[s] \in SessionRow
      BY DEF TypeOK
    <2>2. CASE LoadForActivation(s)
      <3>1. CASE Linked(tx[s].pay) /\ Move(s, [tx[s] EXCEPT !.pc = "activate", !.snap = sub])
        BY <2>1, <2>2, <3>1 DEF LoadForActivation, Move, rows, TypeOK, SessionRow
      <3>2. CASE Move(s, [tx[s] EXCEPT !.pc = "done"])
        BY <2>1, <2>2, <3>2 DEF LoadForActivation, Move, rows, TypeOK, SessionRow
      <3> QED
        BY <2>2, <3>1, <3>2 DEF LoadForActivation
    <2>3. CASE LoadForFailure(s)
      BY <2>1, <2>3 DEF LoadForFailure, ToFail, Move, rows, TypeOK, SessionRow
    <2> QED
      BY <2>2, <2>3
  <1>2. tx'[s].pc = "failing" => tx[s].seen = "PENDING"
    BY <1>1 DEF ValidPaymentMove, PaymentTransitions
  <1>3. Holding'
    BY <1>1, <1>2 DEF SettleInv, Holding
  <1>4. Settling'
    BY <1>1 DEF SettleInv, Settling, Activating, Linked
  <1>5. Rows'
    BY <1>1 DEF SettleInv, Rows
  <1> QED
    BY <1>1, <1>3, <1>4, <1>5 DEF SettleInv, PaidIffSettled, OneActivationPerPayment, Linked

LEMMA CommitActivationInv ==
  ASSUME TypeOK, SessionOK, SettleInv, NEW s \in Sessions, CommitActivation(s)
  PROVE  SettleInv'
  <1> DEFINE p == tx[s].pay
  <1>1. /\ p \in Payments /\ tx[s].pc = "activate" /\ payment[p].paidAt
        /\ activations[p] = 0 /\ Linked(p)
        /\ \A t \in Sessions \ {s} : Activating(t) => tx[t].pay # p
    BY DEF CommitActivation, SettleInv, Settling, Activating, SessionOK, FieldsSet
  <1>2. /\ UNCHANGED <<payment, invoice>>
        /\ activations'[p] = 1
        /\ \A q \in Payments \ {p} : activations'[q] = activations[q]
        /\ tx'[s].pc = "idle" /\ \A t \in Sessions \ {s} : tx'[t] = tx[t]
        /\ \A q \in Payments : lock[q] # s => lock'[q] = lock[q]
    BY <1>1 DEF CommitActivation, TypeOK, Leave, Move, Idle, Unlocked
  <1>3. Holding'
    BY <1>2 DEF SettleInv, Holding, SessionOK, FieldsSet
  <1>4. Settling'
    BY <1>1, <1>2 DEF SettleInv, Settling, Activating, Linked, SessionOK, FieldsSet
  <1>5. OneActivationPerPayment'
    BY <1>1, <1>2 DEF SettleInv, OneActivationPerPayment, Linked
  <1> QED
    BY <1>2, <1>3, <1>4, <1>5 DEF SettleInv, Rows, PaidIffSettled

LEMMA CommitFailureInv ==
  ASSUME TypeOK, SessionOK, SettleInv, NEW s \in Sessions, CommitFailure(s)
  PROVE  SettleInv'
  <1> DEFINE p == tx[s].pay
  <1>1. p \in Payments /\ lock[p] = s /\ payment[p].status = "PENDING" /\ ~ payment[p].paidAt
    BY DEF CommitFailure, SettleInv, Rows, Holding, SessionOK, FieldsSet
  <1>2. /\ payment'[p].status = "FAILED" /\ payment'[p].invoice = payment[p].invoice
        /\ payment'[p].paidAt = payment[p].paidAt
        /\ \A q \in Payments \ {p} : payment'[q] = payment[q]
        /\ UNCHANGED <<invoice, activations>>
        /\ tx'[s].pc = "idle" /\ \A t \in Sessions \ {s} : tx'[t] = tx[t]
        /\ \A q \in Payments : lock[q] # s => lock'[q] = lock[q]
    BY <1>1 DEF CommitFailure, TypeOK, PaymentRow, Leave, Move, Idle, Unlocked
  <1>3. Rows' /\ PaidIffSettled'
    BY <1>1, <1>2 DEF SettleInv, Rows, PaidIffSettled, SessionOK, FieldsSet
  <1>4. Holding'
    BY <1>1, <1>2 DEF SettleInv, Holding, SessionOK, FieldsSet
  <1>5. \A q \in Payments : Linked(q)' = Linked(q)
    BY <1>2 DEF Linked
  <1>6. Settling' /\ OneActivationPerPayment'
    BY <1>1, <1>2, <1>5 DEF SettleInv, Settling, Activating, OneActivationPerPayment, SessionOK, FieldsSet, TypeOK
  <1> QED
    BY <1>3, <1>4, <1>6 DEF SettleInv

(* A cancellation or a refund of a payment nobody has locked: it has settled *)
(* or not as before, and so has its invoice.                                 *)
LEMMA VerdictInv ==
  ASSUME TypeOK, SessionOK, SettleInv, NEW p \in Payments, NEW new \in PaymentStatus,
         lock[p] = None, payment[p].status # "NONE",
         \/ new = "CANCELLED"
         \/ new \in {"PARTIALLY_REFUNDED", "REFUNDED"} /\ payment[p].paidAt,
         payment' = [payment EXCEPT ![p].status = new],
         UNCHANGED <<invoice, activations>>,
         \A s \in Sessions :
            \/ tx'[s].pc = "idle"
            \/ tx'[s] = tx[s] /\ \A q \in Payments : lock[q] = s => lock'[q] = s
  PROVE  SettleInv'
  <1>1. /\ payment'[p].status = new
        /\ \A q \in Payments \ {p} : payment'[q] = payment[q]
        /\ \A q \in Payments : /\ payment'[q].invoice = payment[q].invoice
                               /\ payment'[q].ref = payment[q].ref
                               /\ payment'[q].paidAt = payment[q].paidAt
    BY DEF TypeOK, PaymentRow
  <1>2. Rows'
    BY <1>1 DEF SettleInv, Rows, SessionOK, FieldsSet
  <1>3. \A s \in Sessions : tx[s].pc \in {"locked", "failing"} => tx[s].pay # p
    BY IdAssumption DEF SettleInv, Holding
  <1>4. Holding'
    BY <1>1, <1>3 DEF SettleInv, Holding, SessionOK, FieldsSet
  <1>5. \A q \in Payments : Linked(q)' = Linked(q)
    BY <1>1 DEF Linked
  <1>6. Settling'
    BY <1>1, <1>5 DEF SettleInv, Settling, Activating, SessionOK, FieldsSet
  <1>7. PaidIffSettled' /\ OneActivationPerPayment'
    BY <1>1, <1>5 DEF SettleInv, PaidIffSettled, OneActivationPerPayment
  <1> QED
    BY <1>2, <1>4, <1>6, <1>7 DEF SettleInv

LEMMA CancelInv ==
  ASSUME TypeOK, SessionOK, SettleInv,
         \/ \E s \in Sessions : CommitCancel(s)
         \/ \E p \in Payments, new \in PaymentStatus : RefundPayment(p, new)
  PROVE  SettleInv'
  <1>1. ASSUME NEW s \in Sessions, CommitCancel(s)
        PROVE  SettleInv'
    <2>p. PICK p \in Payments : p = tx[s].pay
      BY <1>1 DEF CommitCancel, SessionOK, FieldsSet
    <2>1. /\ payment[p].status # "NONE" /\ lock[p] = None
          /\ payment' = [payment EXCEPT ![p].status = "CANCELLED"]
          /\ UNCHANGED <<invoice, activations>>
      BY <1>1, <2>p DEF CommitCancel, SettleInv, Rows
    <2>2. \A t \in Sessions :
            \/ tx'[t].pc = "idle"
            \/ tx'[t] = tx[t] /\ \A q \in Payments : lock[q] = t => lock'[q] = t
      BY <1>1 DEF CommitCancel, Leave, Move, Idle, Unlocked, TypeOK
    <2> QED
      BY <2>1, <2>2, VerdictInv
  <1>2. ASSUME NEW p \in Payments, NEW new \in PaymentStatus, RefundPayment(p, new)
        PROVE  SettleInv'
    <2>1. payment[p].status \in {"SUCCEEDED", "PARTIALLY_REFUNDED", "REFUNDED"}
      BY <1>2 DEF RefundPayment, ValidPaymentMove, PaymentTransitions
    <2>2. payment[p].paidAt
      BY <2>1 DEF SettleInv, Rows
    <2> QED
      BY <1>2, <2>1, <2>2, VerdictInv DEF RefundPayment
  <1> QED
    BY <1>1, <1>2

LEMMA StepInv ==
  ASSUME TypeOK, SessionOK, SettleInv, NEW s \in Sessions,
         \/ Step(s) \/ Crash(s)
         \/ \E n \in Notices : StartWebhook(s, n)
         \/ \E op \in UserOps : LoadForUser(s, op)
         \/ \E p \in Payments : LoadForCancel(s, p)
  PROVE  SettleInv'
  <1>t. tx[s] \in SessionRow
    BY DEF TypeOK
  <1>1. CASE FindByProviderId(s)
    <2>1. PICK p \in Payments : payment[p].ref = tx[s].notice.tx /\ lock[p] = None /\ LockPayment(s, p)
      BY <1>1 DEF FindByProviderId
    <2>2. tx[s].pc = "byRef" /\ tx[s].notice.tx \in TxIds
      BY <1>1, NoticeFacts DEF FindByProviderId, SessionOK, FieldsSet, NoticeType
    <2>3. payment[p].status # "NONE"
      BY <2>1, <2>2, IdAssumption DEF SettleInv, Rows
    <2> QED
      BY <2>1, <2>2, <2>3, LockPaymentInv
  <1>2. CASE FindByInvoice(s)
    BY <1>2, LockPaymentInv, RejectInv DEF FindByInvoice, PendingOf
  <1>3. ASSUME \/ \E n \in Notices : StartWebhook(s, n)
               \/ MissByProviderId(s) \/ AlreadyApplied(s)
               \/ \E op \in UserOps : LoadForUser(s, op)
               \/ \E p \in Payments : LoadForCancel(s, p)
        PROVE  SettleInv'
    <2> DEFINE Held == {"locked", "failing", "paid", "activate", "cancelling"}
               Moved == /\ tx'[s].pc \notin Held
                        /\ \A t \in Sessions \ {s} : tx'[t] = tx[t]
    <2>1. ASSUME NEW n \in Notices, StartWebhook(s, n)
          PROVE  Moved
      BY <2>1, <1>t DEF StartWebhook, Move, TypeOK, SessionRow
    <2>2. ASSUME MissByProviderId(s)
          PROVE  Moved
      BY <2>2, <1>t DEF MissByProviderId, Move, TypeOK, SessionRow
    <2>3. ASSUME AlreadyApplied(s)
          PROVE  Moved
      BY <2>3, <1>t DEF AlreadyApplied, Move, TypeOK, SessionRow
    <2>4. ASSUME NEW op \in UserOps, LoadForUser(s, op)
          PROVE  Moved
      BY <2>4, <1>t, UserAssumption DEF LoadForUser, Move, TypeOK, SessionRow
    <2>5. ASSUME NEW p \in Payments, LoadForCancel(s, p)
          PROVE  /\ tx'[s].pc = "cancelling" /\ tx'[s].pay = p /\ payment[p].status # "NONE"
                 /\ \A t \in Sessions \ {s} : tx'[t] = tx[t]
      BY <2>5, <1>t DEF LoadForCancel, Move, TypeOK, SessionRow
    <2>6. UNCHANGED <<payment, invoice, activations, lock>>
      BY <1>3 DEF StartWebhook, MissByProviderId, AlreadyApplied, LoadForUser, LoadForCancel, rows
    <2> QED
      BY <1>3, <2>1, <2>2, <2>3, <2>4, <2>5, <2>6, MoveInv
  <1>4. ASSUME CommitUnchanged(s) \/ CommitUser(s) \/ Crash(s)
        PROVE  SettleInv'
    BY <1>4, LeaveInv DEF CommitUnchanged, CommitUser, Crash, rows
  <1>5. ASSUME RefuseMove(s) \/ RollBack(s) \/ RefuseCancel(s) \/ CancelRefused(s)
        PROVE  SettleInv'
    BY <1>5, RejectInv DEF RefuseMove, RollBack, RefuseCancel, CancelRefused
  <1> QED
    BY <1>1, <1>2, <1>3, <1>4, <1>5, SettlePaymentInv, LoadInv, CommitActivationInv,
       CommitFailureInv, CancelInv DEF Step

LEMMA SettleInvNext ==
  TypeOK /\ SessionOK /\ SettleInv /\ [Next]_vars => SettleInv'
  <1> SUFFICES ASSUME TypeOK, SessionOK, SettleInv, [Next]_vars
               PROVE  SettleInv'
    OBVIOUS
  <1>1. ASSUME UNCHANGED <<payment, invoice, activations, lock, tx>>
        PROVE  SettleInv'
    BY <1>1 DEF SettleInv, Rows, Holding, Settling, Activating, PaidIffSettled,
       OneActivationPerPayment, Linked
  <1>2. CASE UNCHANGED vars
    BY <1>1, <1>2 DEF vars
  <1>3. ASSUME \/ \E r \in TxIds : LosePaymentIntent(r)
               \/ \E n \in Notices : AnswerDuplicate(n)
        PROVE  SettleInv'
    BY <1>1, <1>3 DEF LosePaymentIntent, AnswerDuplicate, rows
  <1>4. CASE Next
    BY <1>2, <1>3, <1>4, CreateInv, StepInv, CancelInv DEF Next, Deliver, Quiet
  <1> QED
    BY <1>2, <1>4

LEMMA SettleInvariant == Spec => [](TypeOK /\ SessionOK /\ SettleInv)
  BY InitType, SettleInvInit, NextType, SettleInvNext, PTL DEF Spec

(* An invoice is PAID exactly when one of its payments has settled.          *)
THEOREM PaidIffSettledAlways == Spec => []PaidIffSettled
  <1>1. SettleInv => PaidIffSettled
    BY DEF SettleInv
  <1> QED
    BY <1>1, SettleInvariant, PTL

(* No request acts on a stale status of the payment it locked.               *)
THEOREM SnapshotIsCurrentAlways == Spec => []SnapshotIsCurrent
  <1>1. SettleInv => SnapshotIsCurrent
    BY DEF SettleInv, Holding, SnapshotIsCurrent
  <1> QED
    BY <1>1, SettleInvariant, PTL

(* However often a notification is delivered, a payment activates at most    *)
(* once, and only when it has settled.                                       *)
THEOREM OneActivationAlways == Spec => []OneActivationPerPayment
  <1>1. SettleInv => OneActivationPerPayment
    BY DEF SettleInv
  <1> QED
    BY <1>1, SettleInvariant, PTL
-----------------------------------------------------------------------------
(* A settlement answered with 200 is applied: the transaction it names is    *)
(* that of a payment that has settled, from the commit in update_status on.  *)
Settled(t) == \E p \in Payments : payment[p].ref = t /\ payment[p].paidAt

(* What was answered, what was recorded, and what is about to be: a session  *)
(* that has settled, or has found the payment settled, with a settlement; a  *)
(* payment that had settled when it was found was found by the transaction;  *)
(* and a session that fails a payment was not told of a settlement.          *)
Applied ==
  /\ \A n \in acked : n.kind = "settlement" => Settled(n.tx)
  /\ \A t \in TxIds : <<t, "settlement">> \in execs => Settled(t)
  /\ \A s \in Sessions :
       /\ tx[s].pc \in {"paid", "activate", "done"} /\ tx[s].notice.kind = "settlement"
            => Settled(tx[s].notice.tx)
       /\ tx[s].pc = "locked" /\ payment[tx[s].pay].paidAt
            => payment[tx[s].pay].ref = tx[s].notice.tx
       /\ tx[s].pc = "failing" => tx[s].notice.kind = "deny"

LEMMA AppliedInit == Init => Applied
  BY DEF Init, Applied, Idle

(* The steps that write payments.                                            *)
LEMMA Writers ==
  ASSUME [Next]_vars, payment' # payment
  PROVE  \/ \E s \in Sessions : SettlePayment(s) \/ CommitFailure(s) \/ CommitCancel(s)
         \/ \E p \in Payments, r \in TxIds, ref \in TxIds \cup Invoices : CreatePaymentIntent(p, r, ref)
         \/ \E p \in Payments, new \in PaymentStatus : RefundPayment(p, new)
  BY DEF Next, vars, Quiet, Deliver, AnswerDuplicate, StartWebhook, Step, Crash, LoadForUser,
     CreateInvoice, LosePaymentIntent, FindByProviderId, MissByProviderId, FindByInvoice,
     LockPayment, AlreadyApplied, RefuseMove, Reject, LoadForActivation, LoadForFailure,
     CommitActivation, CommitUnchanged, RollBack, CommitUser, RefuseCancel, LoadForCancel,
     CancelRefused, rows

(* A webhook settles or fails the payment it has locked, while it is open;   *)
(* an intent writes a row that was free.                                     *)
LEMMA OpenWrites ==
  ASSUME TypeOK, SessionOK, SettleInv,
         \/ \E s \in Sessions : SettlePayment(s) \/ CommitFailure(s)
         \/ \E p \in Payments, r \in TxIds, ref \in TxIds \cup Invoices : CreatePaymentIntent(p, r, ref)
  PROVE  \A q \in Payments :
            \/ payment'[q] = payment[q]
            \/ payment[q].status \in {"NONE", "PENDING"} /\ ~ payment[q].paidAt
  <1>1. ASSUME NEW s \in Sessions, SettlePayment(s) \/ CommitFailure(s)
        PROVE  /\ tx[s].pay \in Payments
               /\ payment[tx[s].pay].status = "PENDING" /\ ~ payment[tx[s].pay].paidAt
               /\ \A q \in Payments \ {tx[s].pay} : payment'[q] = payment[q]
    <2>1. tx[s].pay \in Payments /\ payment[tx[s].pay].status = "PENDING"
      <3>1. CASE SettlePayment(s)
        <4>1. /\ tx[s].pc = "locked" /\ tx[s].seen # "SUCCEEDED"
              /\ ValidPaymentMove(tx[s].seen, "SUCCEEDED")
          BY <3>1 DEF SettlePayment, ToSettle
        <4>2. tx[s].seen = "PENDING"
          BY <4>1 DEF ValidPaymentMove, PaymentTransitions
        <4> QED
          BY <4>1, <4>2 DEF SettleInv, Holding, SessionOK, FieldsSet
      <3>2. CASE CommitFailure(s)
        BY <3>2 DEF CommitFailure, SettleInv, Holding, SessionOK, FieldsSet
      <3> QED
        BY <1>1, <3>1, <3>2
    <2>2. ~ payment[tx[s].pay].paidAt
      BY <2>1 DEF SettleInv, Rows
    <2>3. \A q \in Payments \ {tx[s].pay} : payment'[q] = payment[q]
      BY <1>1 DEF SettlePayment, CommitFailure, TypeOK
    <2> QED
      BY <2>1, <2>2, <2>3
  <1>2. ASSUME NEW p \in Payments, NEW r \in TxIds, NEW ref \in TxIds \cup Invoices,
               CreatePaymentIntent(p, r, ref)
        PROVE  /\ payment[p].status = "NONE" /\ ~ payment[p].paidAt
               /\ \A q \in Payments \ {p} : payment'[q] = payment[q]
    BY <1>2 DEF CreatePaymentIntent, SettleInv, Rows, TypeOK
  <1> QED
    BY <1>1, <1>2

(* A cancellation and a refund write a status only.                          *)
LEMMA StatusWrites ==
  ASSUME TypeOK,
         \/ \E s \in Sessions : CommitCancel(s)
         \/ \E p \in Payments, new \in PaymentStatus : RefundPayment(p, new)
  PROVE  \A q \in Payments :
            /\ payment'[q].paidAt = payment[q].paidAt
            /\ payment'[q].ref = payment[q].ref
            /\ payment'[q].invoice = payment[q].invoice
            /\ payment'[q].status \in {payment[q].status, "CANCELLED"}
                 \/ /\ payment[q].status \in {"SUCCEEDED", "PARTIALLY_REFUNDED", "REFUNDED"}
                    /\ payment'[q].status \in {"PARTIALLY_REFUNDED", "REFUNDED"}
  <1> SUFFICES ASSUME NEW q \in Payments
               PROVE  /\ payment'[q].paidAt = payment[q].paidAt
                      /\ payment'[q].ref = payment[q].ref
                      /\ payment'[q].invoice = payment[q].invoice
                      /\ payment'[q].status \in {payment[q].status, "CANCELLED"}
                           \/ /\ payment[q].status \in {"SUCCEEDED", "PARTIALLY_REFUNDED", "REFUNDED"}
                              /\ payment'[q].status \in {"PARTIALLY_REFUNDED", "REFUNDED"}
    OBVIOUS
  <1>1. payment[q] \in PaymentRow
    BY DEF TypeOK
  <1>2. ASSUME NEW s \in Sessions, CommitCancel(s)
        PROVE  payment'[q] = payment[q] \/ payment'[q] = [payment[q] EXCEPT !.status = "CANCELLED"]
    BY <1>2 DEF CommitCancel, TypeOK
  <1>3. ASSUME NEW p \in Payments, NEW new \in PaymentStatus, RefundPayment(p, new)
        PROVE  \/ payment'[q] = payment[q]
               \/ /\ payment'[q] = [payment[q] EXCEPT !.status = new]
                  /\ payment[q].status \in {"SUCCEEDED", "PARTIALLY_REFUNDED", "REFUNDED"}
                  /\ new \in {"PARTIALLY_REFUNDED", "REFUNDED"}
    BY <1>3 DEF RefundPayment, TypeOK, ValidPaymentMove, PaymentTransitions
  <1> QED
    BY <1>1, <1>2, <1>3 DEF PaymentRow

(* A payment that has settled keeps that, and its transaction: a settlement, *)
(* a denial and an intent write the rows of others, a cancellation and a     *)
(* refund only the status.                                                   *)
Kept(p) == payment[p].paidAt => payment'[p].paidAt /\ payment'[p].ref = payment[p].ref

LEMMA PaymentWrites ==
  ASSUME TypeOK, SessionOK, SettleInv, [Next]_vars
  PROVE  \A p \in Payments : Kept(p)
  <1>1. CASE payment' = payment
    BY <1>1 DEF Kept
  <1>2. CASE payment' # payment
    BY <1>2, Writers, OpenWrites, StatusWrites DEF Kept
  <1> QED
    BY <1>1, <1>2

(* No row of a payment that a session has locked is written by another one.  *)
LEMMA LockedIsLeft ==
  ASSUME TypeOK, SessionOK, SettleInv, NEW t \in Sessions, tx[t].pc = "locked",
         \/ \E s \in Sessions \ {t} : SettlePayment(s) \/ CommitFailure(s)
         \/ \E s \in Sessions : CommitCancel(s)
         \/ \E p \in Payments, new \in PaymentStatus : RefundPayment(p, new)
  PROVE  payment'[tx[t].pay] = payment[tx[t].pay]
  <1>t. tx[t].pay \in Payments /\ lock[tx[t].pay] = t
    BY DEF SettleInv, Holding, SessionOK, FieldsSet
  <1>1. ASSUME NEW s \in Sessions \ {t}, SettlePayment(s) \/ CommitFailure(s)
        PROVE  payment'[tx[t].pay] = payment[tx[t].pay]
    <2>1. lock[tx[s].pay] = s
      BY <1>1 DEF SettlePayment, ToSettle, CommitFailure, SettleInv, Holding
    <2> QED
      BY <1>t, <1>1, <2>1 DEF SettlePayment, CommitFailure, TypeOK
  <1>2. ASSUME NEW s \in Sessions, CommitCancel(s)
        PROVE  payment'[tx[t].pay] = payment[tx[t].pay]
    BY <1>t, <1>2, IdAssumption DEF CommitCancel, TypeOK
  <1>3. ASSUME NEW p \in Payments, NEW new \in PaymentStatus, RefundPayment(p, new)
        PROVE  payment'[tx[t].pay] = payment[tx[t].pay]
    BY <1>t, <1>3, IdAssumption DEF RefundPayment, TypeOK
  <1> QED
    BY <1>1, <1>2, <1>3

(* One session moves to a row of its own or ends; the others are where they  *)
(* were, and so are the payments they have locked.                           *)
LEMMA AppliedMove ==
  ASSUME TypeOK, SessionOK, SettleInv, Applied, [Next]_vars,
         NEW s \in Sessions, \A t \in Sessions \ {s} : tx'[t] = tx[t],
         execs' = execs \/ execs' = Recorded(s),
         acked' = acked \/ acked' = acked \cup {tx[s].notice},
         execs' # execs \/ acked' # acked => tx[s].pc \in {"activate", "failing", "done"},
         \A t \in Sessions \ {s} :
            tx[t].pc = "locked" => payment'[tx[t].pay] = payment[tx[t].pay],
         tx'[s].pc \in {"paid", "activate", "done"} /\ tx'[s].notice.kind = "settlement"
            => \E p \in Payments : payment'[p].ref = tx'[s].notice.tx
                                   /\ payment'[p].paidAt,
         tx'[s].pc = "locked" /\ payment'[tx'[s].pay].paidAt
            => payment'[tx'[s].pay].ref = tx'[s].notice.tx,
         tx'[s].pc = "failing" => tx'[s].notice.kind = "deny"
  PROVE  Applied'
  <1>1. \A t \in TxIds : Settled(t) => Settled(t)'
    BY PaymentWrites DEF Settled, Kept
  <1>3. \A n \in Notices : n.tx \in TxIds
    BY NoticesAssumption DEF NoticeType
  <1>4. tx[s].pc \in {"activate", "failing", "done"} =>
          /\ tx[s].notice \in Notices
          /\ tx[s].notice.kind = "settlement" => Settled(tx[s].notice.tx)
    BY DEF Applied, SessionOK, FieldsSet
  <1>5. \A n \in acked' : n.kind = "settlement" => Settled(n.tx)'
    <2>1. \A n \in acked' : n.kind = "settlement" => Settled(n.tx) /\ n.tx \in TxIds
      BY <1>3, <1>4 DEF Applied, TypeOK
    <2> QED
      BY <2>1, <1>1
  <1>6. \A t \in TxIds : <<t, "settlement">> \in execs' => Settled(t)'
    <2>1. ASSUME NEW t \in TxIds, <<t, "settlement">> \in execs', <<t, "settlement">> \notin execs
          PROVE  Settled(t)
      <3>1. /\ tx[s].notice \in Notices
            /\ <<t, "settlement">> = <<tx[s].notice.tx, RawStatus(tx[s].notice)>>
            /\ tx[s].notice.kind = "settlement" => Settled(tx[s].notice.tx)
        BY <2>1, <1>4 DEF Recorded, Key
      <3>2. tx[s].notice.kind = "settlement" /\ tx[s].notice.tx = t
        BY <3>1 DEF RawStatus
      <3> QED
        BY <3>1, <3>2
    <2> QED
      BY <2>1, <1>1 DEF Applied
  <1>7. ASSUME NEW t \in Sessions
        PROVE  /\ tx'[t].pc \in {"paid", "activate", "done"} /\ tx'[t].notice.kind = "settlement"
                    => \E p \in Payments : payment'[p].ref = tx'[t].notice.tx
                                           /\ payment'[p].paidAt
               /\ tx'[t].pc = "locked" /\ payment'[tx'[t].pay].paidAt
                    => payment'[tx'[t].pay].ref = tx'[t].notice.tx
               /\ tx'[t].pc = "failing" => tx'[t].notice.kind = "deny"
    <2>1. CASE t = s
      BY <2>1
    <2>2. CASE t # s
      BY <2>2, <1>7, PaymentWrites DEF Applied, Settled, Kept
    <2> QED
      BY <2>1, <2>2
  <1> QED
    BY <1>5, <1>6, <1>7 DEF Applied, Settled

LEMMA AppliedLeave ==
  ASSUME TypeOK, SessionOK, SettleInv, Applied, [Next]_vars,
         NEW s \in Sessions, Leave(s),
         execs' = execs \/ execs' = Recorded(s),
         acked' = acked \/ acked' = acked \cup {tx[s].notice},
         execs' # execs \/ acked' # acked => tx[s].pc \in {"activate", "failing", "done"},
         \A t \in Sessions \ {s} :
            tx[t].pc = "locked" => payment'[tx[t].pay] = payment[tx[t].pay]
  PROVE  Applied'
  <1>1. tx'[s].pc = "idle" /\ \A t \in Sessions \ {s} : tx'[t] = tx[t]
    BY DEF Leave, Move, Idle, TypeOK
  <1> QED
    BY <1>1, AppliedMove

LEMMA AppliedStep ==
  ASSUME TypeOK, SessionOK, SettleInv, Applied, [Next]_vars, NEW s \in Sessions,
         \/ Step(s) \/ Crash(s)
         \/ \E n \in Notices : StartWebhook(s, n)
         \/ \E op \in UserOps : LoadForUser(s, op)
         \/ \E p \in Payments : LoadForCancel(s, p)
  PROVE  Applied'
  <1>t. tx[s] \in SessionRow /\ FieldsSet(tx[s])
    BY DEF TypeOK, SessionOK
  <1>1. ASSUME NEW p \in Payments, LockPayment(s, p),
               payment[p].paidAt => payment[p].ref = tx[s].notice.tx
        PROVE  Applied'
    <2>1. UNCHANGED <<payment, execs, acked>>
      BY <1>1 DEF LockPayment, rows
    <2>2. /\ tx'[s].pc = "locked" /\ tx'[s].notice = tx[s].notice /\ tx'[s].pay = p
          /\ \A t \in Sessions \ {s} : tx'[t] = tx[t]
      BY <1>t, <1>1 DEF Move, TypeOK, LockPayment, SessionRow
    <2> QED
      BY <2>1, <2>2, <1>1, AppliedMove
  <1>2. CASE FindByProviderId(s)
    BY <1>2, <1>1 DEF FindByProviderId
  <1>3. ASSUME Reject(s)
        PROVE  Applied'
    BY <1>3, AppliedLeave DEF Reject, rows
  <1>4. CASE FindByInvoice(s)
    BY <1>4, <1>1, <1>3 DEF FindByInvoice, PendingOf, SettleInv, Rows
  <1>5. ASSUME RefuseMove(s) \/ RollBack(s) \/ RefuseCancel(s) \/ CancelRefused(s)
        PROVE  Applied'
    BY <1>5, <1>3 DEF RefuseMove, RollBack, RefuseCancel, CancelRefused
  <1>6. CASE Crash(s)
    BY <1>6, AppliedLeave DEF Crash, rows
  <1>7. CASE CommitUser(s)
    BY <1>7, AppliedLeave DEF CommitUser
  <1>8. CASE CommitActivation(s)
    BY <1>8, AppliedLeave DEF CommitActivation, Answer200
  <1>9. CASE CommitUnchanged(s)
    BY <1>9, AppliedLeave DEF CommitUnchanged, Answer200
  <1>10. ASSUME SettlePayment(s) \/ CommitFailure(s) \/ CommitCancel(s)
         PROVE  \A t \in Sessions \ {s} :
                  tx[t].pc = "locked" => payment'[tx[t].pay] = payment[tx[t].pay]
    BY <1>10, LockedIsLeft
  <1>11. CASE CommitFailure(s)
    BY <1>11, <1>10, AppliedLeave DEF CommitFailure, Answer200
  <1>12. CASE SettlePayment(s)
    <2>1. UNCHANGED <<execs, acked>>
      BY <1>12 DEF SettlePayment
    <2>2. /\ tx'[s].pc = "paid" /\ tx'[s].notice = tx[s].notice
          /\ \A t \in Sessions \ {s} : tx'[t] = tx[t]
      BY <1>t, <1>12 DEF Move, TypeOK, SettlePayment, SessionRow
    <2>3. tx[s].pay \in Payments
      BY <1>12, <1>t DEF SettlePayment, ToSettle, FieldsSet
    <2>4. payment'[tx[s].pay].ref = tx[s].notice.tx /\ payment'[tx[s].pay].paidAt
      BY <1>12, <2>3 DEF SettlePayment, TypeOK, PaymentRow
    <2> QED
      BY <2>1, <2>2, <2>3, <2>4, <1>10, <1>12, AppliedMove
  <1>13. CASE AlreadyApplied(s)
    <2>1. UNCHANGED <<payment, execs, acked>>
      BY <1>13 DEF AlreadyApplied, rows
    <2>2. /\ tx'[s].pc = "done" /\ tx'[s].notice = tx[s].notice
          /\ \A t \in Sessions \ {s} : tx'[t] = tx[t]
      BY <1>t, <1>13 DEF Move, TypeOK, AlreadyApplied, SessionRow
    <2>3. tx[s].notice.kind = "settlement" =>
            /\ tx[s].pay \in Payments
            /\ payment[tx[s].pay].paidAt
            /\ payment[tx[s].pay].ref = tx[s].notice.tx
      BY <1>13, <1>t DEF AlreadyApplied, Normalized, SettleInv, Rows, Holding, FieldsSet, Applied
    <2> QED
      BY <2>1, <2>2, <2>3, AppliedMove
  <1>14. CASE LoadForActivation(s)
    <2>1. /\ tx'[s].pc \in {"activate", "done"} /\ tx'[s].notice = tx[s].notice
          /\ \A t \in Sessions \ {s} : tx'[t] = tx[t]
      <3>1. CASE Move(s, [tx[s] EXCEPT !.pc = "activate", !.snap = sub])
        BY <1>t, <3>1 DEF Move, TypeOK, SessionRow
      <3>2. CASE Move(s, [tx[s] EXCEPT !.pc = "done"])
        BY <1>t, <3>2 DEF Move, TypeOK, SessionRow
      <3> QED
        BY <1>14, <3>1, <3>2 DEF LoadForActivation
    <2>2. tx[s].notice.kind = "settlement" => Settled(tx[s].notice.tx)
      BY <1>14 DEF LoadForActivation, Applied
    <2>3. UNCHANGED <<payment, execs, acked>>
      BY <1>14 DEF LoadForActivation, rows
    <2> QED
      BY <2>1, <2>2, <2>3, AppliedMove DEF Settled
  <1>15. CASE LoadForFailure(s)
    <2>1. UNCHANGED <<payment, execs, acked>>
      BY <1>15 DEF LoadForFailure, rows
    <2>2. /\ tx'[s].pc = "failing" /\ tx'[s].notice = tx[s].notice
          /\ \A t \in Sessions \ {s} : tx'[t] = tx[t]
      BY <1>t, <1>15 DEF Move, TypeOK, LoadForFailure, SessionRow
    <2>3. tx[s].notice.kind = "deny"
      BY <1>15, <1>t, NoticesAssumption DEF LoadForFailure, ToFail, Normalized, FieldsSet, NoticeType
    <2> QED
      BY <2>1, <2>2, <2>3, AppliedMove
  <1>16. ASSUME \/ \E n \in Notices : StartWebhook(s, n)
                \/ MissByProviderId(s)
                \/ \E op \in UserOps : LoadForUser(s, op)
                \/ \E p \in Payments : LoadForCancel(s, p)
         PROVE  Applied'
    <2> DEFINE Moved == /\ tx'[s].pc \notin {"paid", "activate", "done", "locked", "failing"}
                        /\ \A t \in Sessions \ {s} : tx'[t] = tx[t]
    <2>1. ASSUME NEW n \in Notices, StartWebhook(s, n)
          PROVE  Moved
      BY <1>t, <2>1 DEF StartWebhook, Move, TypeOK, SessionRow
    <2>2. ASSUME MissByProviderId(s)
          PROVE  Moved
      BY <1>t, <2>2 DEF MissByProviderId, Move, TypeOK, SessionRow
    <2>3. ASSUME NEW op \in UserOps, LoadForUser(s, op)
          PROVE  Moved
      BY <1>t, <2>3, UserAssumption DEF LoadForUser, Move, TypeOK, SessionRow
    <2>4. ASSUME NEW p \in Payments, LoadForCancel(s, p)
          PROVE  Moved
      BY <1>t, <2>4 DEF LoadForCancel, Move, TypeOK, SessionRow
    <2>5. UNCHANGED <<payment, execs, acked>>
      BY <1>16 DEF StartWebhook, MissByProviderId, LoadForUser, LoadForCancel, rows
    <2> QED
      BY <1>16, <2>1, <2>2, <2>3, <2>4, <2>5, AppliedMove
  <1>17. CASE CommitCancel(s)
    BY <1>17, <1>10, AppliedLeave DEF CommitCancel
  <1> QED
    BY <1>2, <1>4, <1>5, <1>6, <1>7, <1>8, <1>9, <1>11, <1>12, <1>13, <1>14, <1>15, <1>16, <1>17 DEF Step

LEMMA AppliedNext ==
  TypeOK /\ SessionOK /\ SettleInv /\ Applied /\ [Next]_vars => Applied'
  <1> SUFFICES ASSUME TypeOK, SessionOK, SettleInv, Applied, [Next]_vars
               PROVE  Applied'
    OBVIOUS
  <1>n. \A n \in Notices : n \in NoticeType /\ n.tx \in TxIds
    BY NoticesAssumption DEF NoticeType
  <1>s. \A t \in TxIds : Settled(t) => Settled(t)'
    BY PaymentWrites DEF Settled, Kept
  <1>1. ASSUME tx' = tx, execs' = execs,
               \A n \in acked' : n.kind = "settlement" => Settled(n.tx) /\ n.tx \in TxIds,
               \A t \in Sessions :
                 tx[t].pc = "locked" => payment'[tx[t].pay] = payment[tx[t].pay]
        PROVE  Applied'
    <2>1. \A s \in Sessions : tx[s].pc \in {"paid", "activate", "done"} => tx[s].notice \in Notices
      BY DEF SessionOK, FieldsSet
    <2>2. \A n \in acked' : n.kind = "settlement" => Settled(n.tx)'
      BY <1>1, <1>s
    <2>3. \A s \in Sessions :
            tx[s].pc \in {"paid", "activate", "done"} /\ tx[s].notice.kind = "settlement"
              => Settled(tx[s].notice.tx) /\ tx[s].notice.tx \in TxIds
      BY <2>1, <1>n DEF Applied
    <2>4. \A s \in Sessions :
            tx'[s].pc \in {"paid", "activate", "done"} /\ tx'[s].notice.kind = "settlement"
              => \E p \in Payments : payment'[p].ref = tx'[s].notice.tx /\ payment'[p].paidAt
      BY <1>1, <2>3, PaymentWrites DEF Settled, Kept
    <2> QED
      BY <1>1, <1>s, <2>2, <2>4 DEF Applied, Settled
  <1>2. \A n \in acked : n.kind = "settlement" => Settled(n.tx) /\ n.tx \in TxIds
    BY <1>n DEF Applied, TypeOK
  <1>3. ASSUME NEW n \in Notices, AnswerDuplicate(n)
        PROVE  Applied'
    <2>1. n.kind = "settlement" => <<n.tx, "settlement">> \in execs
      BY <1>3 DEF AnswerDuplicate, Key, RawStatus
    <2>2. n.kind = "settlement" => Settled(n.tx)
      BY <2>1, <1>n DEF Applied
    <2> QED
      BY <1>1, <1>2, <1>3, <1>n, <2>2 DEF AnswerDuplicate, rows
  <1>4. ASSUME NEW p \in Payments, NEW r \in TxIds, NEW ref \in TxIds \cup Invoices,
               CreatePaymentIntent(p, r, ref)
        PROVE  Applied'
    <2>1. \A t \in Sessions : tx[t].pc = "locked" => payment'[tx[t].pay] = payment[tx[t].pay]
      BY <1>4 DEF CreatePaymentIntent, SettleInv, Holding, SessionOK, FieldsSet, TypeOK
    <2> QED
      BY <1>1, <1>2, <1>4, <2>1 DEF CreatePaymentIntent
  <1>5. ASSUME \/ UNCHANGED vars
               \/ \E i \in Invoices, plan \in PaidPlans : CreateInvoice(i, plan)
               \/ \E r \in TxIds : LosePaymentIntent(r)
        PROVE  Applied'
    BY <1>1, <1>2, <1>5 DEF vars, CreateInvoice, LosePaymentIntent, rows
  <1>6. ASSUME NEW p \in Payments, NEW new \in PaymentStatus, RefundPayment(p, new)
        PROVE  Applied'
    BY <1>1, <1>2, <1>6, LockedIsLeft DEF RefundPayment
  <1> QED
    BY <1>3, <1>4, <1>5, <1>6, AppliedStep DEF Next, Deliver, Quiet

(* A settlement answered with 200 has settled a payment, in every execution. *)
THEOREM AcknowledgedAlways == Spec => []AcknowledgedMeansApplied
  <1>1. Applied => AcknowledgedMeansApplied
    BY DEF Applied, Settled, AcknowledgedMeansApplied, SettledBy
  <1>2. Spec => [](TypeOK /\ SessionOK /\ SettleInv /\ Applied)
    BY InitType, SettleInvInit, AppliedInit, NextType, SettleInvNext, AppliedNext, PTL DEF Spec
  <1> QED
    BY <1>1, <1>2, PTL
-----------------------------------------------------------------------------
(* A paid plan is paid for.  While no payment has activated the              *)
(* subscription, a status ACTIVE comes from the tenant's own request, which  *)
(* sets the free plan with it; and a copy that shows the free plan, whose    *)
(* flush would leave the column alone, shows what the row has.               *)
Activated == \E p \in Payments : activations[p] = 1

Unpaid ==
  /\ subRows = 0 => sub = NoSub
  /\ \A s \in Sessions :
       tx[s].pc \in {"activate", "failing", "switch", "cancel"} \/ tx[s].snap # NoSub
         => subRows # 0
  /\ Activated \/ /\ sub.status = "ACTIVE" => sub.plan = FreePlan
                  /\ \A s \in Sessions : tx[s].snap.plan = FreePlan => sub.plan = FreePlan

LEMMA UnpaidInit == Init => Unpaid
  BY PlanAssumption DEF Init, Unpaid, Idle, NoSub

(* A session that goes on or ends with the subscription it had, or loads it. *)
LEMMA UnpaidMove ==
  ASSUME TypeOK, SessionOK, Unpaid, NEW s \in Sessions,
         \A t \in Sessions \ {s} : tx'[t] = tx[t],
         UNCHANGED <<sub, subRows, activations>>,
         tx'[s].snap \in {tx[s].snap, sub, NoSub},
         tx'[s].pc \in {"activate", "failing", "switch", "cancel"} => subRows # 0
  PROVE  Unpaid'
  <1>2. NoSub.plan # FreePlan
    BY PlanAssumption DEF NoSub
  <1>3. Activated' = Activated
    BY DEF Activated
  <1> QED
    BY <1>2, <1>3 DEF Unpaid

LEMMA UnpaidLeave ==
  ASSUME TypeOK, SessionOK, Unpaid, NEW s \in Sessions, Leave(s),
         UNCHANGED <<sub, subRows, activations>>
  PROVE  Unpaid'
  <1>1. /\ tx'[s].snap = NoSub /\ tx'[s].pc = "idle"
        /\ \A t \in Sessions \ {s} : tx'[t] = tx[t]
    BY DEF Move, TypeOK, Leave, Idle
  <1> QED
    BY <1>1, UnpaidMove

(* A session that ends having written the subscription.                      *)
LEMMA UnpaidWrite ==
  ASSUME TypeOK, SessionOK, Unpaid, NEW s \in Sessions, Leave(s), subRows' # 0,
         \/ Activated'
         \/ /\ ~ Activated
            /\ sub'.status = "ACTIVE" => sub'.plan = FreePlan
            /\ subRows # 0 /\ sub.plan = FreePlan => sub'.plan = FreePlan
  PROVE  Unpaid'
  <1>1. tx'[s] = Idle /\ \A t \in Sessions \ {s} : tx'[t] = tx[t]
    BY DEF Leave, Move, TypeOK
  <1>2. Idle.snap = NoSub /\ Idle.pc = "idle" /\ NoSub.plan # FreePlan
    BY PlanAssumption DEF Idle, NoSub
  <1> QED
    BY <1>1, <1>2 DEF Unpaid

LEMMA UnpaidStep ==
  ASSUME TypeOK, SessionOK, SettleInv, Unpaid, NEW s \in Sessions,
         \/ Step(s) \/ Crash(s)
         \/ \E n \in Notices : StartWebhook(s, n)
         \/ \E op \in UserOps : LoadForUser(s, op)
         \/ \E p \in Payments : LoadForCancel(s, p)
  PROVE  Unpaid'
  <1>t. tx[s] \in SessionRow /\ sub \in SubRow /\ tx[s].snap \in SubRow
    BY DEF TypeOK, SessionRow
  <1>1. ASSUME \/ \E n \in Notices : StartWebhook(s, n)
               \/ \E p \in Payments : LockPayment(s, p)
               \/ MissByProviderId(s) \/ SettlePayment(s) \/ AlreadyApplied(s)
               \/ LoadForActivation(s) \/ LoadForFailure(s)
               \/ \E op \in UserOps : LoadForUser(s, op)
               \/ \E p \in Payments : LoadForCancel(s, p)
        PROVE  Unpaid'
    <2> DEFINE Moved == /\ tx'[s].snap \in {tx[s].snap, sub}
                        /\ tx'[s].pc \in {"activate", "failing", "switch", "cancel"} => subRows # 0
                        /\ \A t \in Sessions \ {s} : tx'[t] = tx[t]
    <2>1. Moved
      <3>1. ASSUME NEW n \in Notices, StartWebhook(s, n)
            PROVE  Moved
        BY <1>t, <3>1 DEF StartWebhook, Move, TypeOK, SessionRow
      <3>2. ASSUME NEW p \in Payments, LockPayment(s, p)
            PROVE  Moved
        BY <1>t, <3>2 DEF LockPayment, Move, TypeOK, SessionRow
      <3>3. CASE MissByProviderId(s)
        BY <1>t, <3>3 DEF MissByProviderId, Move, TypeOK, SessionRow
      <3>4. CASE SettlePayment(s)
        BY <1>t, <3>4 DEF SettlePayment, Move, TypeOK, SessionRow
      <3>5. CASE AlreadyApplied(s)
        BY <1>t, <3>5 DEF AlreadyApplied, Move, TypeOK, SessionRow
      <3>6. CASE LoadForFailure(s)
        BY <1>t, <3>6 DEF LoadForFailure, Move, TypeOK, SessionRow
      <3>7. CASE /\ LoadForActivation(s)
                 /\ subRows = 1
                 /\ Move(s, [tx[s] EXCEPT !.pc = "activate", !.snap = sub])
        BY <1>t, <3>7 DEF Move, TypeOK, SessionRow
      <3>8. CASE /\ LoadForActivation(s)
                 /\ Move(s, [tx[s] EXCEPT !.pc = "done"])
        BY <1>t, <3>8 DEF Move, TypeOK, SessionRow
      <3>9. ASSUME NEW op \in UserOps, LoadForUser(s, op)
            PROVE  Moved
        <4>1. tx'[s].snap = sub /\ tx'[s].pc = op /\ \A t \in Sessions \ {s} : tx'[t] = tx[t]
          BY <1>t, <3>9 DEF LoadForUser, Move, TypeOK, SessionRow
        <4>2. op \in {"switch", "cancel"} => subRows = 1
          BY <3>9 DEF LoadForUser
        <4>3. op \notin {"activate", "failing"}
          BY UserAssumption
        <4> QED
          BY <4>1, <4>2, <4>3
      <3>10. ASSUME NEW p \in Payments, LoadForCancel(s, p)
             PROVE  Moved
        BY <1>t, <3>10 DEF LoadForCancel, Move, TypeOK, SessionRow
      <3> QED
        BY <1>1, <3>1, <3>2, <3>3, <3>4, <3>5, <3>6, <3>7, <3>8, <3>9, <3>10 DEF LoadForActivation
    <2>2. UNCHANGED <<sub, subRows, activations>>
      BY <1>1 DEF StartWebhook, LockPayment, MissByProviderId, SettlePayment, AlreadyApplied,
         LoadForActivation, LoadForFailure, LoadForUser, LoadForCancel, rows
    <2> QED
      BY <2>1, <2>2, UnpaidMove
  <1>2. ASSUME Reject(s) \/ Crash(s) \/ CommitUnchanged(s) \/ CommitCancel(s)
        PROVE  Unpaid'
    BY <1>2, UnpaidLeave DEF Reject, Crash, CommitUnchanged, CommitCancel, rows
  <1>3. CASE CommitActivation(s)
    <2>1. tx[s].pay \in Payments /\ activations'[tx[s].pay] = 1
      BY <1>3 DEF CommitActivation, SettleInv, Settling, Activating, SessionOK, FieldsSet, TypeOK
    <2>2. Activated'
      BY <2>1 DEF Activated
    <2>3. subRows' # 0
      BY <1>3 DEF CommitActivation, Unpaid
    <2> QED
      BY <1>3, <2>2, <2>3, UnpaidWrite DEF CommitActivation
  <1>4. Activated /\ UNCHANGED activations => Activated'
    BY DEF Activated
  <1>5. CASE CommitFailure(s)
    <2>1. /\ subRows' # 0 /\ UNCHANGED activations /\ sub'.plan = sub.plan
          /\ sub'.status = "ACTIVE" => sub.status = "ACTIVE"
      BY <1>5, <1>t DEF CommitFailure, Unpaid, Flush, SubRow
    <2>2. \/ Activated'
          \/ /\ ~ Activated
             /\ sub'.status = "ACTIVE" => sub'.plan = FreePlan
             /\ sub.plan = FreePlan => sub'.plan = FreePlan
      BY <1>4, <2>1 DEF Unpaid
    <2> QED
      BY <1>5, <2>1, <2>2, UnpaidWrite DEF CommitFailure
  <1>6. CASE CommitUser(s)
    <2> DEFINE old == tx[s].snap
    <2>1. UNCHANGED activations /\ Leave(s)
      BY <1>6 DEF CommitUser
    <2>2. subRows' # 0
      <3>1. ASSUME NEW row, InsertSubscription(row)
            PROVE  subRows' # 0
        BY <3>1 DEF InsertSubscription, TypeOK
      <3>2. ASSUME NEW row, UpdateSubscription(old, row),
                   tx[s].pc \in {"switch", "cancel"} \/ old # NoSub
            PROVE  subRows' # 0
        BY <3>2 DEF UpdateSubscription, Unpaid
      <3> QED
        BY <1>6, <3>1, <3>2 DEF CommitUser
    <2>3. ASSUME ~ Activated
          PROVE  /\ sub'.status = "ACTIVE" => sub'.plan = FreePlan
                 /\ subRows # 0 /\ sub.plan = FreePlan => sub'.plan = FreePlan
      <3>1. /\ sub.status = "ACTIVE" => sub.plan = FreePlan
            /\ old.plan = FreePlan => sub.plan = FreePlan
        BY <2>3 DEF Unpaid
      <3>2. CASE tx[s].pc = "trial" /\ InsertSubscription([status |-> "TRIALING", plan |-> TrialPlan])
        BY <3>1, <3>2 DEF InsertSubscription
      <3>3. CASE tx[s].pc = "upgrade" /\ old = NoSub /\ InsertSubscription(Upgraded(old))
        BY <3>1, <3>3 DEF InsertSubscription, Upgraded
      <3>4. CASE tx[s].pc = "upgrade" /\ UpdateSubscription(old, Upgraded(old))
        BY <3>1, <3>4 DEF UpdateSubscription, Upgraded, Flush
      <3>5. CASE tx[s].pc = "switch" /\ UpdateSubscription(old, [old EXCEPT !.plan = FreePlan])
        BY <3>1, <3>5, <1>t DEF UpdateSubscription, Flush, SubRow
      <3>6. CASE /\ tx[s].pc = "cancel"
                 /\ UpdateSubscription(old, [old EXCEPT !.status = "CANCELLED_PENDING_EXPIRY"])
        BY <3>1, <3>6, <1>t DEF UpdateSubscription, Flush, SubRow
      <3> QED
        BY <1>6, <3>2, <3>3, <3>4, <3>5, <3>6 DEF CommitUser
    <2> QED
      BY <1>4, <2>1, <2>2, <2>3, UnpaidWrite
  <1> QED
    BY <1>1, <1>2, <1>3, <1>5, <1>6 DEF Step, FindByProviderId, FindByInvoice, RefuseMove, RollBack,
       RefuseCancel, CancelRefused, PendingOf

LEMMA UnpaidNext ==
  TypeOK /\ SessionOK /\ SettleInv /\ Unpaid /\ [Next]_vars => Unpaid'
  <1> SUFFICES ASSUME TypeOK, SessionOK, SettleInv, Unpaid, [Next]_vars
               PROVE  Unpaid'
    OBVIOUS
  <1>1. ASSUME UNCHANGED <<sub, subRows, activations, tx>>
        PROVE  Unpaid'
    BY <1>1 DEF Unpaid, Activated
  <1>2. ASSUME \/ UNCHANGED vars
               \/ \E i \in Invoices, plan \in PaidPlans : CreateInvoice(i, plan)
               \/ \E p \in Payments, r \in TxIds, ref \in TxIds \cup Invoices :
                    CreatePaymentIntent(p, r, ref)
               \/ \E r \in TxIds : LosePaymentIntent(r)
               \/ \E n \in Notices : AnswerDuplicate(n)
               \/ \E p \in Payments, new \in PaymentStatus : RefundPayment(p, new)
        PROVE  Unpaid'
    BY <1>1, <1>2 DEF vars, CreateInvoice, CreatePaymentIntent, LosePaymentIntent, AnswerDuplicate,
       RefundPayment, rows
  <1> QED
    BY <1>2, UnpaidStep DEF Next, Deliver, Quiet

(* No execution has an ACTIVE subscription on a plan with a price unless a   *)
(* payment activated it.                                                     *)
THEOREM NoUnpaidPaidPlanAlways == Spec => []NoUnpaidPaidPlan
  <1>1. TypeOK /\ Unpaid => NoUnpaidPaidPlan
    BY PlanAssumption DEF TypeOK, Unpaid, Activated, NoUnpaidPaidPlan
  <1>2. Spec => [](TypeOK /\ SessionOK /\ SettleInv /\ Unpaid)
    BY InitType, SettleInvInit, UnpaidInit, NextType, SettleInvNext, UnpaidNext, PTL DEF Spec
  <1> QED
    BY <1>1, <1>2, PTL
-----------------------------------------------------------------------------
(* The refinement of PaymentLedger: the steps that change what the ledger    *)
(* shows, one lemma each, and all the others, which show nothing.            *)
LEMMA LedgerInit == Init => Ledger!Init
  BY DEF Init, Ledger!Init

(* A step of one payment is a step of the ledger.                            *)
LEMMA LedgerStep ==
  ASSUME NEW p \in Payments,
         \/ Ledger!Settle(p) \/ Ledger!Fail(p) \/ Ledger!Cancel(p) \/ Ledger!Activate(p)
         \/ \E new \in {"PARTIALLY_REFUNDED", "REFUNDED"} : Ledger!Refund(p, new)
  PROVE  Ledger!Next
  BY DEF Ledger!Next

(* The rows the ledger shows are those of the payments and of PAID invoices. *)
LEMMA LedgerStutter ==
  ASSUME UNCHANGED <<payment, invoice, activations>>
  PROVE  UNCHANGED Ledger!ledger
  BY DEF Ledger!ledger

LEMMA LedgerCreateInvoice ==
  ASSUME TypeOK, NEW i \in Invoices, NEW plan \in PaidPlans, CreateInvoice(i, plan)
  PROVE  UNCHANGED Ledger!ledger
  <1>1. {j \in Invoices : invoice[j].status = "PAID"}' = {j \in Invoices : invoice[j].status = "PAID"}
    BY DEF CreateInvoice, TypeOK
  <1> QED
    BY <1>1 DEF CreateInvoice, Ledger!ledger

LEMMA LedgerOpen ==
  ASSUME TypeOK, SettleInv, NEW p \in Payments, NEW r \in TxIds, NEW ref \in TxIds \cup Invoices,
         CreatePaymentIntent(p, r, ref)
  PROVE  Ledger!Next
  <1>1. OrderOf[r] \in Invoices
    BY OrderAssumption
  <1>2. /\ payment[p].status = "NONE" /\ ~ payment[p].paidAt
        /\ payment'[p].status = "PENDING" /\ payment'[p].invoice = OrderOf[r] /\ ~ payment'[p].paidAt
        /\ \A q \in Payments \ {p} : payment'[q] = payment[q]
        /\ UNCHANGED <<invoice, activations>>
    BY DEF CreatePaymentIntent, TypeOK, SettleInv, Rows
  <1>3. {q \in Payments : payment[q].paidAt}' = {q \in Payments : payment[q].paidAt}
    BY <1>2
  <1>4. Ledger!Open(p, OrderOf[r])
    BY <1>2, <1>3 DEF Ledger!Open
  <1> QED
    BY <1>1, <1>4 DEF Ledger!Next

LEMMA LedgerSettle ==
  ASSUME TypeOK, SessionOK, SettleInv, NEW s \in Sessions, SettlePayment(s)
  PROVE  Ledger!Next
  <1>p. PICK p \in Payments : p = tx[s].pay
    BY DEF SettlePayment, ToSettle, SessionOK, FieldsSet
  <1>1. p \in Payments /\ payment[p].status = tx[s].seen
    BY <1>p DEF SettlePayment, ToSettle, SessionOK, FieldsSet, SettleInv, Holding
  <1>2. payment[p].status = "PENDING" /\ payment[p].invoice \in Invoices
    BY <1>p, <1>1 DEF SettlePayment, ToSettle, SettleInv, Rows, ValidPaymentMove, PaymentTransitions
  <1>3. payment' = [payment EXCEPT ![p].status = "SUCCEEDED", ![p].ref = tx[s].notice.tx,
                                    ![p].paidAt = TRUE]
    BY <1>p DEF SettlePayment, ToSettle
  <1>4. \A q \in Payments :
          /\ payment'[q].status = IF q = p THEN "SUCCEEDED" ELSE payment[q].status
          /\ payment'[q].invoice = payment[q].invoice
          /\ payment'[q].paidAt = (q = p \/ payment[q].paidAt)
    BY <1>1, <1>3 DEF TypeOK, PaymentRow
  <1>5. {j \in Invoices : invoice[j].status = "PAID"}' =
        {j \in Invoices : invoice[j].status = "PAID"} \cup {payment[p].invoice}
    BY <1>p, <1>2 DEF SettlePayment, ToSettle, TypeOK, InvoiceRow
  <1>6. [q \in Payments |-> payment'[q].status] =
        [[q \in Payments |-> payment[q].status] EXCEPT ![p] = "SUCCEEDED"]
    BY <1>1, <1>4
  <1>7. [q \in Payments |-> payment'[q].invoice] = [q \in Payments |-> payment[q].invoice]
    BY <1>4
  <1>8. activations' = activations
    BY DEF SettlePayment, ToSettle
  <1>9. {q \in Payments : payment[q].paidAt}' = {q \in Payments : payment[q].paidAt} \cup {p}
    BY <1>1, <1>4
  <1>10. Ledger!Settle(p)
    BY <1>1, <1>2, <1>5, <1>6, <1>7, <1>8, <1>9 DEF Ledger!Settle
  <1> QED
    BY <1>1, <1>10, LedgerStep

LEMMA LedgerFail ==
  ASSUME TypeOK, SessionOK, SettleInv, NEW s \in Sessions, CommitFailure(s)
  PROVE  Ledger!Next
  <1>p. PICK p \in Payments : p = tx[s].pay
    BY DEF CommitFailure, SessionOK, FieldsSet
  <1>1. p \in Payments /\ payment[p].status = "PENDING"
    BY <1>p DEF CommitFailure, SettleInv, Holding, SessionOK, FieldsSet
  <1>2. \A q \in Payments :
          /\ payment'[q].status = IF q = p THEN "FAILED" ELSE payment[q].status
          /\ payment'[q].invoice = payment[q].invoice
          /\ payment'[q].paidAt = payment[q].paidAt
    BY <1>p, <1>1 DEF CommitFailure, TypeOK, PaymentRow
  <1>3. {q \in Payments : payment[q].paidAt}' = {q \in Payments : payment[q].paidAt}
    BY <1>2
  <1>4. Ledger!Fail(p)
    BY <1>1, <1>2, <1>3 DEF Ledger!Fail, CommitFailure
  <1> QED
    BY <1>1, <1>4, LedgerStep

LEMMA LedgerStatus ==
  ASSUME TypeOK, SettleInv, NEW p \in Payments, NEW new \in PaymentStatus,
         payment' = [payment EXCEPT ![p].status = new],
         UNCHANGED <<invoice, activations>>,
         \/ new = "CANCELLED" /\ payment[p].status # "NONE"
         \/ /\ new \in {"PARTIALLY_REFUNDED", "REFUNDED"}
            /\ \/ payment[p].status \in {"SUCCEEDED", "PARTIALLY_REFUNDED"}
               \/ payment[p].status = new
  PROVE  Ledger!Next \/ UNCHANGED Ledger!ledger
  <1>1. \A q \in Payments :
          /\ payment'[q].status = IF q = p THEN new ELSE payment[q].status
          /\ payment'[q].invoice = payment[q].invoice
          /\ payment'[q].paidAt = payment[q].paidAt
    BY DEF TypeOK, PaymentRow
  <1>2. {q \in Payments : payment[q].paidAt}' = {q \in Payments : payment[q].paidAt}
    BY <1>1
  <1>3. CASE new = "CANCELLED"
    <2>1. Ledger!Cancel(p)
      BY <1>1, <1>2, <1>3 DEF Ledger!Cancel
    <2> QED
      BY <2>1, LedgerStep
  <1>4. CASE new # "CANCELLED" /\ payment[p].status = new
    BY <1>1, <1>2, <1>4 DEF Ledger!ledger
  <1>5. CASE new # "CANCELLED" /\ payment[p].status # new
    <2>1. /\ new \in {"PARTIALLY_REFUNDED", "REFUNDED"}
          /\ payment[p].status \in {"SUCCEEDED", "PARTIALLY_REFUNDED"}
      BY <1>5
    <2>2. Ledger!Refund(p, new)
      BY <1>1, <1>2, <2>1 DEF Ledger!Refund
    <2> QED
      BY <2>1, <2>2, LedgerStep
  <1> QED
    BY <1>3, <1>4, <1>5

LEMMA LedgerCancel ==
  ASSUME TypeOK, SessionOK, SettleInv, NEW s \in Sessions, CommitCancel(s)
  PROVE  Ledger!Next \/ UNCHANGED Ledger!ledger
  <1>p. PICK p \in Payments : p = tx[s].pay
    BY DEF CommitCancel, SessionOK, FieldsSet
  <1>1. /\ payment[p].status # "NONE"
        /\ payment' = [payment EXCEPT ![p].status = "CANCELLED"]
        /\ UNCHANGED <<invoice, activations>>
    BY <1>p DEF CommitCancel, SettleInv, Rows
  <1> QED
    BY <1>1, LedgerStatus

LEMMA LedgerRefund ==
  ASSUME TypeOK, SettleInv, NEW p \in Payments, NEW new \in PaymentStatus, RefundPayment(p, new)
  PROVE  Ledger!Next \/ UNCHANGED Ledger!ledger
  <1>1. /\ new \in {"PARTIALLY_REFUNDED", "REFUNDED"}
        /\ \/ payment[p].status \in {"SUCCEEDED", "PARTIALLY_REFUNDED"}
           \/ payment[p].status = new
    BY DEF RefundPayment, ValidPaymentMove, PaymentTransitions
  <1> QED
    BY <1>1, LedgerStatus DEF RefundPayment

LEMMA LedgerActivate ==
  ASSUME TypeOK, SessionOK, SettleInv, NEW s \in Sessions, CommitActivation(s)
  PROVE  Ledger!Next
  <1>p. PICK p \in Payments : p = tx[s].pay
    BY DEF CommitActivation, SessionOK, FieldsSet
  <1>1. p \in Payments /\ payment[p].paidAt /\ activations[p] = 0
    BY <1>p DEF CommitActivation, SettleInv, Settling, Activating, SessionOK, FieldsSet
  <1>2. activations' = [activations EXCEPT ![p] = 1]
    BY <1>p, <1>1 DEF CommitActivation, TypeOK
  <1>3. Ledger!Activate(p)
    BY <1>1, <1>2 DEF Ledger!Activate, CommitActivation
  <1> QED
    BY <1>1, <1>3, LedgerStep

LEMMA LedgerNext ==
  TypeOK /\ SessionOK /\ SettleInv /\ [Next]_vars => [Ledger!Next]_(Ledger!ledger)
  <1> SUFFICES ASSUME TypeOK, SessionOK, SettleInv, [Next]_vars
               PROVE  Ledger!Next \/ UNCHANGED Ledger!ledger
    OBVIOUS
  <1>1. CASE UNCHANGED vars
    BY <1>1, LedgerStutter DEF vars
  <1>2. ASSUME NEW s \in Sessions,
               \/ Step(s) \/ Crash(s)
               \/ \E n \in Notices : StartWebhook(s, n)
               \/ \E op \in UserOps : LoadForUser(s, op)
               \/ \E p \in Payments : LoadForCancel(s, p)
        PROVE  Ledger!Next \/ UNCHANGED Ledger!ledger
    <2>1. CASE SettlePayment(s) \/ CommitFailure(s) \/ CommitActivation(s) \/ CommitCancel(s)
      BY <2>1, LedgerSettle, LedgerFail, LedgerActivate, LedgerCancel
    <2>2. CASE ~ (SettlePayment(s) \/ CommitFailure(s) \/ CommitActivation(s) \/ CommitCancel(s))
      <3>1. UNCHANGED <<payment, invoice, activations>>
        BY <1>2, <2>2 DEF Step, Crash, StartWebhook, LoadForUser, FindByProviderId, MissByProviderId,
           FindByInvoice, LockPayment, AlreadyApplied, RefuseMove, Reject, LoadForActivation,
           LoadForFailure, CommitUnchanged, RollBack, CommitUser, RefuseCancel,
           LoadForCancel, CancelRefused, rows
      <3> QED
        BY <3>1, LedgerStutter
    <2> QED
      BY <2>1, <2>2
  <1>3. ASSUME \/ \E r \in TxIds : LosePaymentIntent(r)
               \/ \E n \in Notices : AnswerDuplicate(n)
        PROVE  UNCHANGED Ledger!ledger
    BY <1>3, LedgerStutter DEF LosePaymentIntent, AnswerDuplicate, rows
  <1>4. CASE Next
    BY <1>1, <1>2, <1>3, <1>4, LedgerCreateInvoice, LedgerOpen, LedgerRefund DEF Next, Deliver, Quiet
  <1> QED
    BY <1>1, <1>4

(* The payment service implements the ledger.                                *)
THEOREM ImplementsLedger == Spec => LedgerSpec
  BY LedgerInit, LedgerNext, SettleInvariant, PTL DEF Spec, LedgerSpec, Ledger!Spec

(* No verdict on a payment is overwritten by another one.                    *)
THEOREM OutcomeIsFinalAlways == Spec => OutcomeIsFinal
  <1> DEFINE Verdicts == \A p \in Payments :
                           /\ payment[p].status = "FAILED" => payment'[p].status \in {"FAILED", "CANCELLED"}
                           /\ payment[p].status = "CANCELLED" => payment'[p] = payment[p]
                           /\ payment[p].paidAt => /\ payment'[p].paidAt
                                                  /\ payment'[p].status \notin {"PENDING", "FAILED"}
             PaidStays == \A i \in Invoices : invoice[i].status = "PAID" => invoice'[i].status = "PAID"
  <1>1. TypeOK /\ SessionOK /\ SettleInv /\ [Next]_vars => [Verdicts /\ PaidStays]_vars
    <2> SUFFICES ASSUME TypeOK, SessionOK, SettleInv, [Next]_vars
                 PROVE  Verdicts /\ PaidStays
      OBVIOUS
    <2>1. \A p \in Payments :
            payment[p] \in PaymentRow /\ (payment[p].paidAt => payment[p].status \notin {"PENDING", "FAILED"})
      BY DEF TypeOK, SettleInv, Rows
    <2>2. Verdicts
      <3>1. CASE payment' = payment
        BY <2>1, <3>1
      <3>2. CASE \/ \E s \in Sessions : SettlePayment(s) \/ CommitFailure(s)
                 \/ \E p \in Payments, r \in TxIds, ref \in TxIds \cup Invoices : CreatePaymentIntent(p, r, ref)
        BY <2>1, <3>2, OpenWrites
      <3>3. CASE \/ \E s \in Sessions : CommitCancel(s)
                 \/ \E p \in Payments, new \in PaymentStatus : RefundPayment(p, new)
        <4>1. payment' \in [Payments -> PaymentRow]
          BY <3>3, CancelType DEF TypeOK
        <4>2. \A p \in Payments : payment[p].status = "CANCELLED" => payment'[p] = payment[p]
          BY <2>1, <3>3, <4>1, StatusWrites DEF PaymentRow
        <4> QED
          BY <2>1, <3>3, <4>2, StatusWrites
      <3> QED
        BY <3>1, <3>2, <3>3, Writers
    <2>3. PaidStays
      <3>1. {i \in Invoices : invoice[i].status = "PAID"} \subseteq
            {i \in Invoices : invoice[i].status = "PAID"}'
        BY LedgerNext DEF Ledger!Next, Ledger!Open, Ledger!Settle, Ledger!Fail, Ledger!Cancel,
           Ledger!Refund, Ledger!Activate, Ledger!ledger
      <3> QED
        BY <3>1
    <2> QED
      BY <2>2, <2>3
  <1> QED
    BY <1>1, SettleInvariant, PTL DEF Spec, OutcomeIsFinal
=============================================================================
